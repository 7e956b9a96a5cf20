---------------------- MODULE ChangeDistiller_proofs ----------------------
(***************************************************************************)
(* For every pair of trees, every similarity and every dialect: the        *)
(* matching of ChangeDistiller stays a partial bijection between nodes of  *)
(* the same type and implements GreedyMatching, the best leaf pairs win,   *)
(* the script accounts for every node once, the Moves of a reordering are  *)
(* as few as can be, and two equal trees have no delta.                    *)
(***************************************************************************)
EXTENDS ChangeDistiller, FiniteSetTheorems, TLAPS

CandidatesShareType == \A p \in candidates : IsSameType(p[1], p[2])

(* orderedSource lists unmatched nodes, and a node leaves unmatchedSource  *)
(* only when its turn is over.                                             *)
TodoIsUnmatched == pc = "inner" => todo \subseteq unmatchedSource

IInv ==
    /\ TypeOK
    /\ MatchingIsBijection
    /\ PairsShareType
    /\ CandidatesShareType
    /\ TodoIsUnmatched

(* What extending a partial bijection by one unmatched node of each tree   *)
(* preserves: both loops of diff.go end in this step.                      *)
LEMMA PairKeepsBijection ==
    ASSUME TypeOK, MatchingIsBijection,
           NEW s \in unmatchedSource, NEW t \in unmatchedTarget,
           Pair(s, t), UNCHANGED in
    PROVE  /\ DOMAIN matching' = DOMAIN matching \cup {s}
           /\ \A n \in DOMAIN matching : matching'[n] = matching[n]
           /\ matching'[s] = t
           /\ matching' \in [DOMAIN matching' -> Target']
           /\ DOMAIN matching' \subseteq Source'
           /\ unmatchedSource' \subseteq Source'
           /\ unmatchedTarget' \subseteq Target'
           /\ MatchingIsBijection'
<1> USE DEF TypeOK, Source, Target
<1>1. /\ DOMAIN matching' = DOMAIN matching \cup {s}
      /\ \A n \in DOMAIN matching : matching'[n] = matching[n]
      /\ matching'[s] = t
    BY DEF Pair, MatchingIsBijection
<1>2. /\ matching' \in [DOMAIN matching' -> Target']
      /\ DOMAIN matching' \subseteq Source'
      /\ unmatchedSource' \subseteq Source'
      /\ unmatchedTarget' \subseteq Target'
    BY DEF Pair
<1>3. MatchingIsBijection'
    <2>1. DOMAIN matching' = Source' \ unmatchedSource'
        BY <1>1 DEF Pair, MatchingIsBijection
    <2>2. Range(matching') = Target' \ unmatchedTarget'
        <3>1. Range(matching') = Range(matching) \cup {t}
            BY <1>1 DEF Range
        <3> QED
            BY <3>1 DEF Pair, MatchingIsBijection
    <2>3. IsInjective(matching')
        <3>1. \A n \in DOMAIN matching : matching[n] # t
            BY DEF MatchingIsBijection, Range
        <3> QED
            BY <1>1, <3>1 DEF MatchingIsBijection, IsInjective
    <2> QED
        BY <2>1, <2>2, <2>3 DEF MatchingIsBijection
<1> QED
    BY <1>1, <1>2, <1>3

LEMMA InitInv == Init => IInv
<1> SUFFICES ASSUME Init PROVE IInv
    OBVIOUS
<1>1. WellFormed(in)
    BY InstancesAssumption DEF Init
<1>2. 0 \in 0 .. Len(in.tgt)
    BY <1>1 DEF WellFormed, WellFormedTree
<1>3. TypeOK
    BY <1>1, <1>2 DEF Init, TypeOK, Source, Target
<1>4. MatchingIsBijection
    BY DEF Init, MatchingIsBijection, Range, IsInjective, Source, Target
<1> QED
    BY <1>3, <1>4 DEF Init, IInv, PairsShareType, CandidatesShareType, TodoIsUnmatched

(* Consequently a step that pairs two nodes of the same type preserves all *)
(* that is said of the matching.                                           *)
LEMMA PairKeepsTypes ==
    ASSUME TypeOK, MatchingIsBijection, PairsShareType,
           NEW s \in unmatchedSource, NEW t \in unmatchedTarget,
           IsSameType(s, t), Pair(s, t), UNCHANGED in
    PROVE  PairsShareType'
<1>1. /\ DOMAIN matching' = DOMAIN matching \cup {s}
      /\ \A n \in DOMAIN matching : matching'[n] = matching[n]
      /\ matching'[s] = t
    BY PairKeepsBijection
<1> QED
    BY <1>1 DEF PairsShareType, IsSameType

(* The bookkeeping a loop of the inner phase leaves to show.               *)
LEMMA RenderKeepsType ==
    ASSUME TypeOK, NEW s \in Source, NEW t \in Target, Render(s, t), UNCHANGED in
    PROVE  stray' \in [src : SUBSET Source', tgt : SUBSET Target']
<1>1. /\ Strays(in.src, in.rebuilt.src, s) \subseteq Source
      /\ Strays(in.tgt, in.rebuilt.tgt, t) \subseteq Target
    BY DEF Strays, Source, Target
<1> QED
    BY <1>1 DEF TypeOK, Render, Source, Target

LEMMA PopInv == IInv /\ PopCandidate => IInv'
<1> SUFFICES ASSUME IInv, PopCandidate PROVE IInv'
    OBVIOUS
<1> PICK p \in candidates :
        /\ candidates' = candidates \ {p}
        /\ IF p[1] \in unmatchedSource /\ p[2] \in unmatchedTarget
           THEN Pair(p[1], p[2])
           ELSE UNCHANGED <<matching, unmatchedSource, unmatchedTarget>>
    BY DEF PopCandidate
<1>1. pc = "leaves" /\ UNCHANGED <<in, pc, leafPairs, todo, last, stray, edits>>
    BY DEF PopCandidate
<1>2. CandidatesShareType' /\ TodoIsUnmatched'
    BY <1>1 DEF IInv, CandidatesShareType, TodoIsUnmatched, IsSameType
<1>3. CASE p[1] \in unmatchedSource /\ p[2] \in unmatchedTarget
    <2>1. Pair(p[1], p[2]) /\ IsSameType(p[1], p[2])
        BY <1>3 DEF IInv, CandidatesShareType
    <2>2. MatchingIsBijection' /\ PairsShareType'
        BY <1>1, <1>3, <2>1, PairKeepsBijection, PairKeepsTypes DEF IInv
    <2>3. /\ matching' \in [DOMAIN matching' -> Target']
          /\ DOMAIN matching' \subseteq Source'
          /\ unmatchedSource' \subseteq Source'
          /\ unmatchedTarget' \subseteq Target'
        BY <1>1, <1>3, <2>1, PairKeepsBijection DEF IInv
    <2>4. TypeOK'
        BY <1>1, <2>3 DEF IInv, TypeOK, Source, Target
    <2> QED
        BY <1>2, <2>2, <2>4 DEF IInv
<1>4. CASE ~(p[1] \in unmatchedSource /\ p[2] \in unmatchedTarget)
    BY <1>1, <1>2, <1>4
       DEF IInv, TypeOK, MatchingIsBijection, PairsShareType, IsSameType,
           Source, Target
<1> QED
    BY <1>3, <1>4

LEMMA MatchInnerInv ==
    ASSUME IInv, NEW s \in todo, NEW t \in unmatchedTarget, MatchInner(s, t)
    PROVE  IInv'
<1>1. /\ pc = "inner"
      /\ Similar(s, t) /\ Pair(s, t) /\ Render(s, t)
      /\ todo' = todo \ {s} /\ last' = 0
      /\ UNCHANGED <<in, pc, candidates, leafPairs, edits>>
    BY DEF MatchInner
<1>2. s \in unmatchedSource /\ s \in Source /\ t \in Target
    BY <1>1 DEF IInv, TodoIsUnmatched, TypeOK
<1>3. MatchingIsBijection' /\ PairsShareType'
    BY <1>1, <1>2, PairKeepsBijection, PairKeepsTypes DEF IInv, Similar
<1>4. /\ matching' \in [DOMAIN matching' -> Target']
      /\ DOMAIN matching' \subseteq Source'
      /\ unmatchedSource' \subseteq Source'
      /\ unmatchedTarget' \subseteq Target'
    BY <1>1, <1>2, PairKeepsBijection DEF IInv
<1>5. stray' \in [src : SUBSET Source', tgt : SUBSET Target']
    BY <1>1, <1>2, RenderKeepsType DEF IInv
<1>6. TypeOK'
    BY <1>1, <1>4, <1>5 DEF IInv, TypeOK, Source, Target
<1>7. CandidatesShareType' /\ TodoIsUnmatched'
    BY <1>1 DEF IInv, CandidatesShareType, TodoIsUnmatched, IsSameType, Pair
<1> QED
    BY <1>3, <1>6, <1>7 DEF IInv

LEMMA SkipTargetInv ==
    ASSUME IInv, NEW s \in todo, NEW t \in unmatchedTarget, SkipTarget(s, t)
    PROVE  IInv'
<1>1. /\ Render(s, t) /\ last' = t
      /\ UNCHANGED <<in, pc, candidates, matching, leafPairs, unmatchedSource,
                     unmatchedTarget, todo, edits>>
    BY DEF SkipTarget
<1>2. s \in Source /\ t \in Target /\ t \in 0 .. Len(in.tgt)
    BY DEF IInv, TypeOK, WellFormed, WellFormedTree, Source, Target
<1>3. stray' \in [src : SUBSET Source', tgt : SUBSET Target']
    BY <1>1, <1>2, RenderKeepsType DEF IInv
<1>4. TypeOK'
    BY <1>1, <1>2, <1>3 DEF IInv, TypeOK, Source, Target
<1> QED
    BY <1>1, <1>4
       DEF IInv, MatchingIsBijection, PairsShareType, CandidatesShareType,
           TodoIsUnmatched, IsSameType, Source, Target

LEMMA StepInv == IInv /\ [Next]_vars => IInv'
<1> SUFFICES ASSUME IInv, [Next]_vars PROVE IInv'
    OBVIOUS
<1> USE DEF IInv, PairsShareType, CandidatesShareType, TodoIsUnmatched,
            IsSameType, MatchingIsBijection, TypeOK, Source, Target
<1>1. CASE Collect
    BY <1>1 DEF Collect, Candidates, Leaves
<1>2. CASE PopCandidate
    BY <1>2, PopInv
<1>3. CASE LeavesDone
    BY <1>3 DEF LeavesDone
<1>4. ASSUME NEW s \in todo, NEW t \in unmatchedTarget, MatchInner(s, t)
      PROVE  IInv'
    BY <1>4, MatchInnerInv
<1>5. ASSUME NEW s \in todo, NEW t \in unmatchedTarget, SkipTarget(s, t)
      PROVE  IInv'
    BY <1>5, SkipTargetInv
<1>6. ASSUME NEW s \in todo, NoPartner(s) PROVE IInv'
    BY <1>6 DEF NoPartner
<1>7. CASE ReportUnmatched
    BY <1>7 DEF ReportUnmatched
<1>8. ASSUME NEW s \in todo, ReportMatched(s) PROVE IInv'
    BY <1>8 DEF ReportMatched
<1>9. CASE Return
    BY <1>9 DEF Return
<1>10. CASE UNCHANGED vars
    BY <1>10 DEF vars
<1> QED
    BY <1>1, <1>2, <1>3, <1>4, <1>5, <1>6, <1>7, <1>8, <1>9, <1>10 DEF Next

THEOREM Invariance == Spec => []IInv
BY InitInv, StepInv, PTL DEF Spec

(* Every variable of diff.go's changeDistiller keeps its type.             *)
THEOREM TypeCorrect == Spec => []TypeOK
<1>1. IInv => TypeOK
    BY DEF IInv
<1> QED
    BY <1>1, Invariance, PTL

(* matching, unmatchedSource and unmatchedTarget (diff.go:382, 452) are    *)
(* updated together at two places and never drift apart.                   *)
THEOREM MatchingBijective == Spec => []MatchingIsBijection
<1>1. IInv => MatchingIsBijection
    BY DEF IInv
<1> QED
    BY <1>1, Invariance, PTL

(* No node is ever matched with a node of another type (diff.go:367, 423). *)
THEOREM SameType == Spec => []PairsShareType
<1>1. IInv => PairsShareType
    BY DEF IInv
<1> QED
    BY <1>1, Invariance, PTL

----------------------------------------------------------------------------
(* The refinement of GreedyMatching.                                       *)

(* A candidate that is no longer in the heap was taken, or lost an end.    *)
RefusedAreTaken ==
    pc = "leaves" =>
        /\ candidates \subseteq Candidates
        /\ \A p \in Candidates \ candidates :
             p[1] \notin unmatchedSource \/ p[2] \notin unmatchedTarget

(* Nothing that is given depends on more than the input.                   *)
LEMMA GivenStays == UNCHANGED in => UNCHANGED <<Candidates, Source, Target>>
BY DEF Candidates, IsSameType, Source, Target

LEMMA RefusedInit == Init => RefusedAreTaken
BY DEF Init, RefusedAreTaken

LEMMA RefusedStep == IInv /\ RefusedAreTaken /\ [Next]_vars => RefusedAreTaken'
<1> SUFFICES ASSUME IInv, RefusedAreTaken, [Next]_vars, pc' = "leaves"
             PROVE  /\ candidates' \subseteq Candidates'
                    /\ \A p \in Candidates' \ candidates' :
                         p[1] \notin unmatchedSource' \/ p[2] \notin unmatchedTarget'
    BY DEF RefusedAreTaken
<1>1. CASE Collect
    BY <1>1, GivenStays DEF Collect
<1>2. CASE PopCandidate
    <2>1. pc = "leaves" /\ UNCHANGED Candidates
        BY <1>2, GivenStays DEF PopCandidate
    <2>2. PICK q \in candidates :
            /\ candidates' = candidates \ {q}
            /\ IF q[1] \in unmatchedSource /\ q[2] \in unmatchedTarget
               THEN Pair(q[1], q[2])
               ELSE UNCHANGED <<matching, unmatchedSource, unmatchedTarget>>
        BY <1>2 DEF PopCandidate
    <2>3. /\ unmatchedSource' \subseteq unmatchedSource
          /\ unmatchedTarget' \subseteq unmatchedTarget
          /\ q[1] \notin unmatchedSource' \/ q[2] \notin unmatchedTarget'
        BY <2>2 DEF Pair
    <2>4. candidates' \subseteq Candidates'
        BY <2>1, <2>2 DEF RefusedAreTaken
    <2>5. ASSUME NEW p \in Candidates \ candidates'
          PROVE  p[1] \notin unmatchedSource' \/ p[2] \notin unmatchedTarget'
        <3>1. CASE p = q
            BY <2>3, <3>1
        <3>2. CASE p \notin candidates
            BY <2>1, <2>3, <3>2 DEF RefusedAreTaken
        <3> QED
            BY <2>2, <3>1, <3>2
    <2> QED
        BY <2>1, <2>4, <2>5
<1>3. CASE UNCHANGED vars
    BY <1>3, GivenStays DEF vars, RefusedAreTaken
<1>4. CASE \/ LeavesDone
           \/ \E s \in todo, t \in unmatchedTarget : MatchInner(s, t) \/ SkipTarget(s, t)
           \/ \E s \in todo : NoPartner(s)
           \/ ReportUnmatched
           \/ \E s \in todo : ReportMatched(s)
           \/ Return
    BY <1>4
       DEF LeavesDone, MatchInner, SkipTarget, NoPartner, ReportUnmatched,
           ReportMatched, Return
<1> QED
    BY <1>1, <1>2, <1>3, <1>4 DEF Next

Pairs == {<<s, matching[s]>> : s \in DOMAIN matching}

(* The two unmatched sets are where a new pair finds its free ends.        *)
LEMMA UnmatchedAreFree ==
    ASSUME MatchingIsBijection, NEW s \in Source, NEW t \in Target
    PROVE  Matched!Free(<<s, t>>) <=> s \in unmatchedSource /\ t \in unmatchedTarget
<1>1. Matched!Free(<<s, t>>) <=> \A n \in DOMAIN matching : n # s /\ matching[n] # t
    <2>1. Matched!Free(<<s, t>>) <=> \A q \in Pairs : q[1] # s /\ q[2] # t
        BY DEF Matched!Free, Pairs
    <2>2. ASSUME NEW n \in DOMAIN matching
          PROVE  \E q \in Pairs : q[1] = n /\ q[2] = matching[n]
        <3>1. <<n, matching[n]>> \in Pairs
            BY DEF Pairs
        <3> QED
            BY <3>1
    <2>3. ASSUME NEW q \in Pairs
          PROVE  \E n \in DOMAIN matching : q[1] = n /\ q[2] = matching[n]
        BY DEF Pairs
    <2> QED
        BY <2>1, <2>2, <2>3
<1>2. s \in unmatchedSource <=> \A n \in DOMAIN matching : n # s
    BY DEF MatchingIsBijection
<1>3. t \in unmatchedTarget <=> \A n \in DOMAIN matching : matching[n] # t
    BY DEF MatchingIsBijection, Range
<1> QED
    BY <1>1, <1>2, <1>3

LEMMA PairIsTaken ==
    ASSUME TypeOK, MatchingIsBijection, UNCHANGED in,
           NEW s \in unmatchedSource, NEW t \in unmatchedTarget, Pair(s, t)
    PROVE  Matched!Free(<<s, t>>) /\ Pairs' = Pairs \cup {<<s, t>>}
<1>1. s \in Source /\ t \in Target
    BY DEF TypeOK
<1>2. Matched!Free(<<s, t>>)
    BY <1>1, UnmatchedAreFree
<1>3. /\ DOMAIN matching' = DOMAIN matching \cup {s}
      /\ \A n \in DOMAIN matching : matching'[n] = matching[n]
      /\ matching'[s] = t
    BY PairKeepsBijection
<1>4. Pairs' = Pairs \cup {<<s, t>>}
    BY <1>3 DEF Pairs
<1> QED
    BY <1>2, <1>4

LEMMA MatchedInit == Init => Matched!Init
BY DEF Init, Matched!Init, Candidates, Leaves, Source, Target

LEMMA MatchedStep ==
    IInv /\ RefusedAreTaken /\ [Next]_vars => [Matched!Next]_(Matched!vars)
<1> SUFFICES ASSUME IInv, RefusedAreTaken, [Next]_vars
             PROVE  [Matched!Next]_(Matched!vars)
    OBVIOUS
<1>1. UNCHANGED in
    BY DEF Next, vars, Collect, PopCandidate, LeavesDone, MatchInner, SkipTarget,
           NoPartner, ReportUnmatched, ReportMatched, Return
<1>2. /\ UNCHANGED <<Candidates, Source, Target>>
      /\ UNCHANGED {p \in Source \X Target : IsSameType(p[1], p[2])}
    BY <1>1, GivenStays DEF IsSameType
<1>3. CASE PopCandidate
    <2>1. PICK p \in candidates :
            IF p[1] \in unmatchedSource /\ p[2] \in unmatchedTarget
            THEN Pair(p[1], p[2])
            ELSE UNCHANGED <<matching, unmatchedSource, unmatchedTarget>>
        BY <1>3 DEF PopCandidate
    <2>2. UNCHANGED pc /\ pc = "leaves"
        BY <1>3 DEF PopCandidate
    <2>3. CASE p[1] \in unmatchedSource /\ p[2] \in unmatchedTarget
        <3>1. Matched!Free(<<p[1], p[2]>>) /\ Pairs' = Pairs \cup {<<p[1], p[2]>>}
            BY <1>1, <2>1, <2>3, PairIsTaken DEF IInv
        <3>2. p = <<p[1], p[2]>> /\ p \in Source \X Target /\ IsSameType(p[1], p[2])
            BY DEF IInv, TypeOK, CandidatesShareType
        <3>3. p \in Candidates
            BY <2>2 DEF RefusedAreTaken
        <3> QED
            BY <1>2, <2>2, <3>1, <3>2, <3>3 DEF Matched!Next, Matched!Take, Pairs
    <2>4. CASE ~(p[1] \in unmatchedSource /\ p[2] \in unmatchedTarget)
        BY <1>2, <2>1, <2>2, <2>4 DEF Matched!vars
    <2> QED
        BY <2>3, <2>4
<1>4. CASE LeavesDone
    <2>1. ASSUME NEW p \in Candidates PROVE ~Matched!Free(p)
        <3>1. p = <<p[1], p[2]>> /\ p[1] \in Source /\ p[2] \in Target
            BY DEF Candidates, Leaves, Source, Target
        <3>2. p[1] \notin unmatchedSource \/ p[2] \notin unmatchedTarget
            BY <1>4 DEF LeavesDone, RefusedAreTaken
        <3> QED
            BY <3>1, <3>2, UnmatchedAreFree DEF IInv
    <2>2. /\ pc = "leaves" /\ pc' = "inner"
          /\ UNCHANGED Pairs
        BY <1>4 DEF LeavesDone, Pairs
    <2> QED
        BY <1>2, <2>1, <2>2 DEF Matched!Next, Matched!EndOffers, Pairs
<1>5. ASSUME NEW s \in todo, NEW t \in unmatchedTarget, MatchInner(s, t)
      PROVE  Matched!Next
    <2>1. pc = "inner" /\ UNCHANGED pc /\ Pair(s, t) /\ IsSameType(s, t)
        BY <1>5 DEF MatchInner, Similar, Rendered
    <2>2. s \in unmatchedSource /\ s \in Source /\ t \in Target
        BY <2>1 DEF IInv, TodoIsUnmatched, TypeOK
    <2>3. Matched!Free(<<s, t>>) /\ Pairs' = Pairs \cup {<<s, t>>}
        BY <1>1, <2>1, <2>2, PairIsTaken DEF IInv
    <2>4. <<s, t>> \in {p \in Source \X Target : IsSameType(p[1], p[2])}
        BY <2>1, <2>2
    <2> QED
        BY <1>2, <2>1, <2>3, <2>4 DEF Matched!Next, Matched!Take, Pairs
<1>6. CASE ReportUnmatched
    BY <1>2, <1>6 DEF ReportUnmatched, Matched!Next, Matched!Settle
<1>7. CASE \/ Collect
           \/ \E s \in todo, t \in unmatchedTarget : SkipTarget(s, t)
           \/ \E s \in todo : NoPartner(s)
           \/ \E s \in todo : ReportMatched(s)
           \/ Return
           \/ UNCHANGED vars
    BY <1>2, <1>7
       DEF Collect, SkipTarget, NoPartner, ReportMatched, Return, vars, Matched!vars
<1> QED
    BY <1>3, <1>4, <1>5, <1>6, <1>7 DEF Next

(* Whatever the trees and the texts, the matching of Diff takes no pair    *)
(* back, refuses no leaf pair whose leaves are free and is settled before  *)
(* the edit script is written (diff.go:378, 418, 478).                     *)
THEOREM DiffMatchesGreedily == Spec => ImplementsGreedyMatching
<1>1. Init => RefusedAreTaken
    BY RefusedInit
<1> QED
    BY <1>1, Invariance, RefusedStep, MatchedInit, MatchedStep, PTL
       DEF Spec, ImplementsGreedyMatching, Matched!Spec

----------------------------------------------------------------------------
(* The order in which the leaf pairs are taken.                            *)

(* Pair p was taken, or lost an end to a pair that stood before it.        *)
Decided(p, taken) ==
    \/ p[1] \in DOMAIN taken /\ taken[p[1]] = p[2]
    \/ \E q \in Candidates :
         /\ Less(q, p)
         /\ q[1] \in DOMAIN taken /\ taken[q[1]] = q[2]
         /\ q[1] = p[1] \/ q[2] = p[2]

(* What left the heap stood before what is still in it, and all that was   *)
(* taken left the heap.                                                    *)
TakenBestFirst ==
    /\ pc = "collect" => DOMAIN matching = {}
    /\ pc = "leaves" =>
         /\ candidates \subseteq Candidates
         /\ \A q \in Candidates \ candidates, r \in candidates : Less(q, r)
         /\ \A s \in DOMAIN matching : <<s, matching[s]>> \in Candidates \ candidates
         /\ \A p \in Candidates \ candidates : Decided(p, matching)
    /\ pc \notin {"collect", "leaves"} => \A p \in Candidates : Decided(p, leafPairs)

LEMMA OrderStays == UNCHANGED in => \A p, q : Less(p, q)' <=> Less(p, q)
BY DEF Less, PushedBefore, ParentSimilarityScore

(* Whoever leaves the heap is decided by then: it is taken, or one of its  *)
(* leaves belongs to a pair that left before it (diff.go:378-391).         *)
LEMMA PopDecides ==
    ASSUME IInv, TakenBestFirst, PopCandidate
    PROVE  TakenBestFirst'
<1>1. pc = "leaves" /\ UNCHANGED <<in, pc, leafPairs>>
    BY DEF PopCandidate
<1>2. UNCHANGED Candidates /\ \A p, q : Less(p, q)' <=> Less(p, q)
    BY <1>1, GivenStays, OrderStays
<1> PICK p \in candidates :
        /\ \A q \in candidates \ {p} : Less(p, q)
        /\ candidates' = candidates \ {p}
        /\ IF p[1] \in unmatchedSource /\ p[2] \in unmatchedTarget
           THEN Pair(p[1], p[2])
           ELSE UNCHANGED <<matching, unmatchedSource, unmatchedTarget>>
    BY DEF PopCandidate
<1>3. /\ candidates \subseteq Candidates
      /\ \A q \in Candidates \ candidates, r \in candidates : Less(q, r)
      /\ \A s \in DOMAIN matching : <<s, matching[s]>> \in Candidates \ candidates
      /\ \A q \in Candidates \ candidates : Decided(q, matching)
    BY <1>1 DEF TakenBestFirst
<1>4. /\ candidates' \subseteq Candidates
      /\ \A q \in Candidates \ candidates', r \in candidates' : Less(q, r)
    BY <1>3
<1>5. p = <<p[1], p[2]>> /\ p[1] \in Source /\ p[2] \in Target
    BY DEF IInv, TypeOK
<1>6. CASE p[1] \in unmatchedSource /\ p[2] \in unmatchedTarget
    <2>1. /\ DOMAIN matching' = DOMAIN matching \cup {p[1]}
          /\ \A n \in DOMAIN matching : matching'[n] = matching[n]
          /\ matching'[p[1]] = p[2]
        BY <1>1, <1>6, PairKeepsBijection DEF IInv
    <2>2. \A s \in DOMAIN matching' : <<s, matching'[s]>> \in Candidates \ candidates'
        BY <1>3, <1>5, <2>1
    <2>3. ASSUME NEW q \in Candidates \ candidates' PROVE Decided(q, matching')
        BY <1>3, <2>1, <2>3 DEF Decided
    <2> QED
        BY <1>1, <1>2, <1>4, <2>2, <2>3 DEF TakenBestFirst, Decided
<1>7. CASE ~(p[1] \in unmatchedSource /\ p[2] \in unmatchedTarget)
    <2>1. UNCHANGED matching
        BY <1>7
    <2>2. \E s \in DOMAIN matching : s = p[1] \/ matching[s] = p[2]
        BY <1>5, <1>7 DEF IInv, MatchingIsBijection, Range
    <2>3. PICK s \in DOMAIN matching : s = p[1] \/ matching[s] = p[2]
        BY <2>2
    <2>4. Less(<<s, matching[s]>>, p) /\ <<s, matching[s]>> \in Candidates
        BY <1>3
    <2>5. Decided(p, matching)
        BY <2>3, <2>4 DEF Decided
    <2>6. \A q \in Candidates \ candidates' : Decided(q, matching)
        BY <1>3, <2>5
    <2>7. \A n \in DOMAIN matching' : <<n, matching'[n]>> \in Candidates \ candidates'
        BY <1>3, <2>1
    <2> QED
        BY <1>1, <1>2, <1>4, <2>1, <2>6, <2>7 DEF TakenBestFirst, Decided
<1> QED
    BY <1>6, <1>7

LEMMA BestFirstStep == IInv /\ TakenBestFirst /\ [Next]_vars => TakenBestFirst'
<1> SUFFICES ASSUME IInv, TakenBestFirst, [Next]_vars PROVE TakenBestFirst'
    OBVIOUS
<1>1. UNCHANGED in
    BY DEF Next, vars, Collect, PopCandidate, LeavesDone, MatchInner, SkipTarget,
           NoPartner, ReportUnmatched, ReportMatched, Return
<1>2. UNCHANGED Candidates /\ \A p, q : Less(p, q)' <=> Less(p, q)
    BY <1>1, GivenStays, OrderStays
<1>3. CASE PopCandidate
    BY <1>3, PopDecides
<1>4. CASE Collect
    BY <1>2, <1>4 DEF Collect, TakenBestFirst
<1>5. CASE LeavesDone
    BY <1>2, <1>5 DEF LeavesDone, TakenBestFirst, Decided
<1>6. CASE /\ pc \notin {"collect", "leaves"} /\ pc' \notin {"collect", "leaves"}
           /\ UNCHANGED leafPairs
    BY <1>2, <1>6 DEF TakenBestFirst, Decided
<1>7. CASE UNCHANGED vars
    BY <1>2, <1>7 DEF vars, TakenBestFirst, Decided
<1> QED
    BY <1>3, <1>4, <1>5, <1>6, <1>7
       DEF Next, MatchInner, SkipTarget, NoPartner, ReportUnmatched, ReportMatched, Return

(* "the candidates are then taken best-first" (diff.go:356), whatever the  *)
(* trees and the texts: a leaf pair that was passed over lost a leaf to a  *)
(* pair the heap orders before it.                                         *)
THEOREM BestPairsWin == Spec => []LeafPairsAreBestFirst
<1>1. Init => TakenBestFirst
    BY DEF Init, TakenBestFirst
<1>2. TakenBestFirst => LeafPairsAreBestFirst
    BY DEF TakenBestFirst, LeafPairsAreBestFirst, Decided
<1> QED
    BY <1>1, <1>2, Invariance, BestFirstStep, PTL DEF Spec

----------------------------------------------------------------------------
(* The edit script.                                                        *)

(* A node's rank in a set is how many of its nodes do not come after it.   *)
Rank(S, n) == Cardinality({m \in S : m <= n})

LEMMA Ranks ==
    ASSUME NEW S, S \subseteq Nat, IsFiniteSet(S)
    PROVE  /\ \A n \in S : Rank(S, n) \in 1 .. Cardinality(S)
           /\ \A m, n \in S : m < n => Rank(S, m) < Rank(S, n)
           /\ \A k \in 1 .. Cardinality(S) : \E n \in S : Rank(S, n) = k
<1> DEFINE below(n) == {m \in S : m <= n}
<1>0. \A n \in S : n \in Nat
    OBVIOUS
<1>1. Cardinality(S) \in Nat
    BY FS_CardinalityType
<1>2. ASSUME NEW n \in S
      PROVE  IsFiniteSet(below(n)) /\ Rank(S, n) \in Nat /\ Rank(S, n) <= Cardinality(S)
    <2>1. below(n) \in SUBSET S
        OBVIOUS
    <2> QED
        BY <2>1, FS_Subset, FS_CardinalityType DEF Rank
<1>3. ASSUME NEW m \in S, NEW n \in S, m < n
      PROVE  Rank(S, m) < Rank(S, n)
    <2>1. m \in Nat /\ n \in Nat /\ m <= n /\ ~ (n <= m) /\ n <= n
        BY <1>0, <1>3
    <2>2. \A x \in Nat : x <= m => x <= n
        BY <2>1
    <2>3. below(m) \in SUBSET below(n)
        BY <1>0, <2>2
    <2>4. n \in below(n) /\ n \notin below(m)
        BY <2>1
    <2>5. /\ Cardinality(below(m)) <= Cardinality(below(n))
          /\ Cardinality(below(m)) # Cardinality(below(n))
        BY <1>2, <2>3, <2>4, FS_Subset
    <2> QED
        BY <1>2, <2>5 DEF Rank
<1>4. ASSUME NEW n \in S PROVE Rank(S, n) \in 1 .. Cardinality(S)
    <2>1. n \in below(n)
        OBVIOUS
    <2>2. Cardinality(below(n)) # 0
        BY <1>2, <2>1, FS_EmptySet
    <2>3. Rank(S, n) # 0 /\ Rank(S, n) \in Nat /\ Rank(S, n) <= Cardinality(S)
        BY <1>2, <2>2 DEF Rank
    <2> QED
        BY <1>1, <2>3
<1> DEFINE f == [n \in S |-> Rank(S, n)]
<1>5. f \in Injection(S, 1 .. Cardinality(S))
    <2>1. f \in [S -> 1 .. Cardinality(S)]
        BY <1>4
    <2>2. ASSUME NEW m \in S, NEW n \in S, f[m] = f[n] PROVE m = n
        <3>1. Rank(S, m) = Rank(S, n) /\ Rank(S, m) \in Nat
            BY <1>2, <2>2
        <3>2. ~ (m < n) /\ ~ (n < m)
            BY <1>3, <3>1
        <3> QED
            BY <1>0, <3>2
    <2> QED
        BY <2>1, <2>2 DEF Injection, IsInjective
<1>6. IsFiniteSet(1 .. Cardinality(S)) /\ Cardinality(1 .. Cardinality(S)) = Cardinality(S)
    BY <1>1, FS_Interval
<1>7. f \in Surjection(S, 1 .. Cardinality(S))
    BY <1>5, <1>6, FS_Injection
<1>8. \A k \in 1 .. Cardinality(S) : \E n \in S : Rank(S, n) = k
    BY <1>7 DEF Surjection
<1> QED
    BY <1>3, <1>4, <1>8

LEMMA RankIsStrict ==
    ASSUME NEW S, S \subseteq Nat, IsFiniteSet(S), NEW m \in S, NEW n \in S,
           Rank(S, m) = Rank(S, n)
    PROVE  ~ (m < n) /\ ~ (n < m)
<1>1. Rank(S, m) \in Nat
    <2>1. Cardinality(S) \in Nat
        BY FS_CardinalityType
    <2>2. Rank(S, m) \in 1 .. Cardinality(S)
        BY Ranks
    <2> QED
        BY <2>1, <2>2
<1>2. m < n => Rank(S, m) < Rank(S, n)
    BY Ranks
<1>3. n < m => Rank(S, n) < Rank(S, m)
    BY Ranks
<1> QED
    BY <1>1, <1>2, <1>3

(* InOrder lists a set of nodes once each, from the first to the last.     *)
LEMMA Ordered ==
    ASSUME NEW S, S \subseteq Nat, IsFiniteSet(S)
    PROVE  LET o == InOrder(S) IN
           /\ o \in Seq(S) /\ Len(o) = Cardinality(S) /\ Len(o) \in Nat
           /\ DOMAIN o = 1 .. Len(o)
           /\ \A k \in DOMAIN o : o[k] \in S
           /\ \A n \in S : \E k \in DOMAIN o : o[k] = n
           /\ \A j, k \in DOMAIN o : j < k <=> o[j] < o[k]
<1> DEFINE o == InOrder(S)
           c == Cardinality(S)
<1>1. c \in Nat /\ DOMAIN o = 1 .. c
    BY FS_CardinalityType DEF InOrder
<1>2. ASSUME NEW k \in 1 .. c PROVE o[k] \in S /\ Rank(S, o[k]) = k
    <2>1. o[k] = CHOOSE n \in S : Rank(S, n) = k
        BY DEF InOrder, Rank
    <2>2. \E n \in S : Rank(S, n) = k
        BY Ranks
    <2> QED
        BY <2>1, <2>2
<1> HIDE DEF o, c
<1>3. o \in [1 .. c -> S]
    <2>1. o = [k \in 1 .. c |-> o[k]]
        BY DEF o, c, InOrder
    <2> QED
        BY <1>2, <2>1
<1>4. o \in Seq(S) /\ Len(o) = c
    BY <1>1, <1>3
<1>5. ASSUME NEW n \in S PROVE \E k \in DOMAIN o : o[k] = n
    <2>1. Rank(S, n) \in 1 .. c
        BY Ranks DEF c
    <2>2. o[Rank(S, n)] \in S /\ Rank(S, o[Rank(S, n)]) = Rank(S, n)
        BY <1>2, <2>1
    <2> DEFINE m == o[Rank(S, n)]
    <2> HIDE DEF m
    <2>3. m \in S /\ Rank(S, m) = Rank(S, n) /\ Rank(S, m) \in Nat
        BY <2>1, <2>2 DEF m
    <2>4. ~ (m < n) /\ ~ (n < m)
        BY <2>3, RankIsStrict
    <2>5. m \in Nat /\ n \in Nat
        BY <2>3
    <2>6. o[Rank(S, n)] = n
        BY <2>4, <2>5 DEF m
    <2> QED
        BY <1>1, <2>1, <2>6
<1>6. ASSUME NEW j \in 1 .. c, NEW k \in 1 .. c PROVE j < k <=> o[j] < o[k]
    <2>1. /\ o[j] \in S /\ o[k] \in S /\ o[j] \in Nat /\ o[k] \in Nat
          /\ Rank(S, o[j]) = j /\ Rank(S, o[k]) = k
        BY <1>2
    <2>2. o[j] < o[k] => j < k
        BY <2>1, Ranks
    <2>3. o[k] < o[j] => k < j
        BY <2>1, Ranks
    <2>4. o[k] = o[j] => k = j
        BY <2>1
    <2> QED
        BY <1>1, <2>1, <2>2, <2>3, <2>4
<1> QED
    BY <1>1, <1>2, <1>4, <1>5, <1>6 DEF o, c

Edits == [kind : {"Insert", "Remove", "Move", "Update", "Keep"}, source : Nat, target : Nat]

LEMMA NodesAreNumbers ==
    ASSUME TypeOK
    PROVE  /\ \A n \in Source \cup Target : n \in Nat /\ n # 0
           /\ \A S \in SUBSET Source : S \subseteq Nat /\ IsFiniteSet(S)
           /\ \A S \in SUBSET Target : S \subseteq Nat /\ IsFiniteSet(S)
<1>1. /\ Source = 1 .. Len(in.src) /\ Target = 1 .. Len(in.tgt)
      /\ Len(in.src) \in Nat /\ Len(in.tgt) \in Nat
    <2>1. ASSUME NEW xs \in Seq(TreeNodes)
          PROVE  DOMAIN xs = 1 .. Len(xs) /\ Len(xs) \in Nat
        OBVIOUS
    <2>2. in.src \in Seq(TreeNodes) /\ in.tgt \in Seq(TreeNodes)
        BY DEF TypeOK, WellFormed, WellFormedTree
    <2> QED
        BY <2>1, <2>2 DEF Source, Target
<1>2. IsFiniteSet(Source) /\ IsFiniteSet(Target)
    <2>1. \A m \in Nat : IsFiniteSet(1 .. m)
        BY FS_Interval
    <2> QED
        BY <1>1, <2>1
<1>3. \A n \in Source \cup Target : n \in Nat /\ n # 0
    <2>1. \A m \in Nat : \A n \in 1 .. m : n \in Nat /\ n # 0
        OBVIOUS
    <2> QED
        BY <1>1, <2>1
<1>4. \A S \in SUBSET Source : IsFiniteSet(S)
    BY <1>2, FS_Subset
<1>5. \A S \in SUBSET Target : IsFiniteSet(S)
    BY <1>2, FS_Subset
<1> QED
    BY <1>3, <1>4, <1>5

(* The edits of a node in two scripts one after the other.                 *)
LEMMA KindsAppended ==
    ASSUME NEW E \in Seq(Edits), NEW G \in Seq(Edits), NEW n, NEW end
    PROVE  Kinds(E \o G, n, end) = Kinds(E, n, end) \cup {Len(E) + k : k \in Kinds(G, n, end)}
<1> DEFINE EG == E \o G
<1>1. /\ EG \in Seq(Edits) /\ DOMAIN EG = 1 .. Len(E) + Len(G)
      /\ Len(E) \in Nat /\ Len(G) \in Nat /\ DOMAIN E = 1 .. Len(E) /\ DOMAIN G = 1 .. Len(G)
      /\ \A k \in 1 .. Len(E) : EG[k] = E[k]
      /\ \A k \in 1 .. Len(G) : EG[Len(E) + k] = G[k]
    OBVIOUS
<1> HIDE DEF EG
<1>2. ASSUME NEW k \in Kinds(EG, n, end)
      PROVE  k \in Kinds(E, n, end) \/ \E j \in Kinds(G, n, end) : k = Len(E) + j
    <2>1. k \in 1 .. Len(E) + Len(G)
        BY <1>1 DEF Kinds
    <2>2. CASE k <= Len(E)
        BY <1>1, <2>1, <2>2 DEF Kinds
    <2>3. CASE k > Len(E)
        <3>1. k - Len(E) \in 1 .. Len(G) /\ k = Len(E) + (k - Len(E))
            BY <1>1, <2>1, <2>3
        <3>2. EG[k] = G[k - Len(E)]
            BY <1>1, <3>1
        <3> QED
            BY <1>1, <3>1, <3>2 DEF Kinds
    <2> QED
        BY <1>1, <2>1, <2>2, <2>3
<1>3. ASSUME NEW k \in Kinds(E, n, end) PROVE k \in Kinds(EG, n, end)
    <2>1. k \in 1 .. Len(E) /\ k \in 1 .. Len(E) + Len(G)
        BY <1>1 DEF Kinds
    <2> QED
        BY <1>1, <2>1 DEF Kinds
<1>4. ASSUME NEW k \in Kinds(G, n, end) PROVE Len(E) + k \in Kinds(EG, n, end)
    <2>1. k \in 1 .. Len(G) /\ Len(E) + k \in 1 .. Len(E) + Len(G)
        BY <1>1 DEF Kinds
    <2> QED
        BY <1>1, <2>1 DEF Kinds
<1> QED
    BY <1>2, <1>3, <1>4 DEF EG

(* Moves account for no node.                                              *)
LEMMA NoKindsOfMoves ==
    ASSUME NEW G, \A k \in DOMAIN G : G[k].kind = "Move", NEW n, NEW end
    PROVE  Kinds(G, n, end) = {}
    BY DEF Kinds

LEMMA MovesOnly ==
    ASSUME IInv, NEW s \in DOMAIN matching
    PROVE  LET m == Moves(s, matching[s]) IN
           m \in Seq(Edits) /\ \A k \in DOMAIN m : m[k].kind = "Move"
<1> DEFINE t == matching[s]
<1>1. s \in Nat /\ t \in Nat /\ s \in Source
    BY NodesAreNumbers DEF IInv, TypeOK
<1>2. /\ <<>> \in Seq(Edits) /\ \A k \in DOMAIN <<>> : <<>>[k].kind = "Move"
    OBVIOUS
<1>3. LET m == <<Edit("Move", s, t)>> IN
      m \in Seq(Edits) /\ \A k \in DOMAIN m : m[k].kind = "Move"
    BY <1>1 DEF Edit, Edits
<1>4. LET m == GenerateMoveEdits(s, t) IN
      m \in Seq(Edits) /\ \A k \in DOMAIN m : m[k].kind = "Move"
    <2> DEFINE as == ExpressionOnlyArgs(in.src, s)
               lcs == LcsExpressions(as, ExpressionOnlyArgs(in.tgt, t))
               S == Kids(in.src, s) \ (Range(lcs) \cup unmatchedSource)
               moved == InOrder(S)
               m == [k \in 1 .. Len(moved) |-> Edit("Move", moved[k], matching[moved[k]])]
    <2>1. S \in SUBSET Source /\ S \subseteq DOMAIN matching
        BY DEF Kids, Source, IInv, MatchingIsBijection
    <2> HIDE DEF S
    <2>2. S \subseteq Nat /\ IsFiniteSet(S)
        BY <2>1, NodesAreNumbers DEF IInv
    <2>3. /\ Len(moved) \in Nat /\ DOMAIN moved = 1 .. Len(moved)
          /\ \A k \in DOMAIN moved : moved[k] \in S
        BY <2>2, Ordered
    <2> HIDE DEF moved
    <2>4. ASSUME NEW k \in 1 .. Len(moved)
          PROVE  Edit("Move", moved[k], matching[moved[k]]) \in Edits
        <3>1. moved[k] \in S
            BY <2>3
        <3>2. moved[k] \in DOMAIN matching /\ moved[k] \in Nat
            BY <2>1, <2>2, <3>1
        <3>3. matching[moved[k]] \in Nat
            BY <3>2, NodesAreNumbers DEF IInv, TypeOK
        <3> QED
            BY <3>2, <3>3 DEF Edit, Edits
    <2>5. m \in Seq(Edits) /\ \A k \in DOMAIN m : m[k].kind = "Move"
        <3>1. m \in [1 .. Len(moved) -> Edits]
            BY <2>4
        <3> QED
            BY <2>3, <3>1 DEF Edit
    <2>6. GenerateMoveEdits(s, t) = m
        BY DEF GenerateMoveEdits, m, moved, S
    <2> QED
        BY <2>5, <2>6
<1> QED
    BY <1>2, <1>3, <1>4 DEF Moves

(* The verdict on a pair is one edit of both its nodes.                    *)
LEMMA OneVerdict ==
    ASSUME IInv, NEW s \in DOMAIN matching, ~DeltaOnly
    PROVE  \E v \in Edits :
             /\ Verdict(s, matching[s]) = <<v>>
             /\ v.kind # "Move" /\ v.source = s /\ v.target = matching[s]
<1>1. s \in Nat /\ matching[s] \in Nat
    BY NodesAreNumbers DEF IInv, TypeOK
<1>2. \A kind \in {"Update", "Keep"} :
        LET v == Edit(kind, s, matching[s]) IN
        v \in Edits /\ v.kind # "Move" /\ v.source = s /\ v.target = matching[s]
    BY <1>1 DEF Edit, Edits
<1>3. Verdict(s, matching[s]) \in
        {<<Edit("Update", s, matching[s])>>, <<Edit("Keep", s, matching[s])>>}
    BY DEF Verdict
<1> QED
    BY <1>2, <1>3

(* One edit other than a Move is about the node once its turn came, and    *)
(* none before.                                                            *)
Accounted(E, n, end, waits) ==
    IF waits THEN Kinds(E, n, end) = {} ELSE \E k : Kinds(E, n, end) = {k}

ScriptSoFar(E, left) ==
    /\ E \in Seq(Edits)
    /\ left \subseteq DOMAIN matching
    /\ ~DeltaOnly =>
         /\ \A s \in Source : Accounted(E, s, "source", s \in left)
         /\ \A t \in Target : Accounted(E, t, "target", \E s \in left : matching[s] = t)

ScriptInv ==
    pc \in {"script", "done"} => ScriptSoFar(edits, todo) /\ (pc = "done" => todo = {})

(* The removals, or the insertions, that a script begins with.             *)
LEMMA Listed ==
    ASSUME NEW S, S \subseteq Nat, IsFiniteSet(S), NEW E \in Seq(Edits), NEW end,
           Len(E) = Len(InOrder(S)),
           \A k \in 1 .. Len(E) : E[k].kind # "Move" /\ E[k][end] = InOrder(S)[k],
           NEW n
    PROVE  IF n \in S THEN \E k : Kinds(E, n, end) = {k} ELSE Kinds(E, n, end) = {}
<1> DEFINE o == InOrder(S)
<1>1. /\ DOMAIN o = 1 .. Len(o) /\ Len(o) \in Nat /\ \A k \in DOMAIN o : o[k] \in S
      /\ \A m \in S : \E k \in DOMAIN o : o[k] = m
      /\ \A j, k \in DOMAIN o : j < k <=> o[j] < o[k]
    BY Ordered
<1> HIDE DEF o
<1>2. DOMAIN E = DOMAIN o /\ Kinds(E, n, end) = {k \in DOMAIN o : o[k] = n}
    BY <1>1 DEF Kinds, o
<1>3. ASSUME n \in S PROVE \E k : Kinds(E, n, end) = {k}
    <2>1. PICK k \in DOMAIN o : o[k] = n
        BY <1>1, <1>3
    <2>2. ASSUME NEW j \in DOMAIN o, o[j] = n PROVE j = k
        <3>1. ~ (o[j] < o[k]) /\ ~ (o[k] < o[j])
            BY <1>3, <2>1, <2>2
        <3>2. ~ (j < k) /\ ~ (k < j)
            BY <1>1, <3>1
        <3> QED
            BY <1>1, <3>2
    <2>3. Kinds(E, n, end) = {k}
        BY <1>2, <2>1, <2>2
    <2> QED
        BY <2>3
<1>4. ASSUME n \notin S PROVE Kinds(E, n, end) = {}
    BY <1>1, <1>2, <1>4
<1> QED
    BY <1>3, <1>4

LEMMA EditEnds ==
    ASSUME NEW kind, NEW s, NEW t
    PROVE  /\ Edit(kind, s, t).kind = kind
           /\ Edit(kind, s, t)["source"] = s /\ Edit(kind, s, t)["target"] = t
    BY DEF Edit

LEMMA ReportUnmatchedScript ==
    ASSUME IInv, ReportUnmatched
    PROVE  ScriptInv'
<1>1. /\ edits' = Unmatched /\ todo' = DOMAIN matching /\ pc' = "script"
      /\ UNCHANGED <<in, matching, unmatchedSource, unmatchedTarget>>
    BY DEF ReportUnmatched
<1> DEFINE R == InOrder(unmatchedSource)
           I == InOrder(unmatchedTarget)
           removes == [k \in 1 .. Len(R) |-> Edit("Remove", R[k], 0)]
           inserts == [k \in 1 .. Len(I) |-> Edit("Insert", 0, I[k])]
<1>2. /\ unmatchedSource \subseteq Nat /\ IsFiniteSet(unmatchedSource)
      /\ unmatchedTarget \subseteq Nat /\ IsFiniteSet(unmatchedTarget)
      /\ unmatchedSource \subseteq Source /\ unmatchedTarget \subseteq Target
    BY NodesAreNumbers DEF IInv, TypeOK
<1>3. /\ Len(R) \in Nat /\ DOMAIN R = 1 .. Len(R) /\ \A k \in DOMAIN R : R[k] \in unmatchedSource
      /\ Len(I) \in Nat /\ DOMAIN I = 1 .. Len(I) /\ \A k \in DOMAIN I : I[k] \in unmatchedTarget
    BY <1>2, Ordered
<1>4. Unmatched = removes \o inserts
    BY DEF Unmatched
<1>5. /\ removes \in Seq(Edits) /\ Len(removes) = Len(R) /\ DOMAIN removes = 1 .. Len(R)
      /\ \A k \in 1 .. Len(R) :
           removes[k].kind # "Move" /\ removes[k]["source"] = R[k] /\ removes[k]["target"] = 0
    <2>1. \A k \in 1 .. Len(R) : removes[k] = Edit("Remove", R[k], 0)
        OBVIOUS
    <2>2. removes \in [1 .. Len(R) -> Edits]
        BY <1>2, <1>3 DEF Edit, Edits
    <2>3. removes \in Seq(Edits) /\ Len(removes) = Len(R) /\ DOMAIN removes = 1 .. Len(R)
        BY <1>3, <2>2
    <2> QED
        BY <2>1, <2>3, EditEnds
<1>6. /\ inserts \in Seq(Edits) /\ Len(inserts) = Len(I) /\ DOMAIN inserts = 1 .. Len(I)
      /\ \A k \in 1 .. Len(I) :
           inserts[k].kind # "Move" /\ inserts[k]["target"] = I[k] /\ inserts[k]["source"] = 0
    <2>1. \A k \in 1 .. Len(I) : inserts[k] = Edit("Insert", 0, I[k])
        OBVIOUS
    <2>2. inserts \in [1 .. Len(I) -> Edits]
        BY <1>2, <1>3 DEF Edit, Edits
    <2>3. inserts \in Seq(Edits) /\ Len(inserts) = Len(I) /\ DOMAIN inserts = 1 .. Len(I)
        BY <1>3, <2>2
    <2> QED
        BY <2>1, <2>3, EditEnds
<1> HIDE DEF R, I, removes, inserts
<1>7. \A n, end : Kinds(removes \o inserts, n, end)
                    = Kinds(removes, n, end) \cup {Len(removes) + k : k \in Kinds(inserts, n, end)}
    BY <1>5, <1>6, KindsAppended
<1>8. ASSUME NEW s \in Source
      PROVE  Accounted(removes \o inserts, s, "source", s \in DOMAIN matching)
    <2>1. s # 0
        BY NodesAreNumbers DEF IInv
    <2>2. Kinds(inserts, s, "source") = {}
        BY <1>6, <2>1 DEF Kinds
    <2>3. Kinds(removes \o inserts, s, "source") = Kinds(removes, s, "source")
        <3>1. {Len(removes) + k : k \in Kinds(inserts, s, "source")} = {}
            BY <2>2
        <3> QED
            BY <1>7, <3>1
    <2>4. IF s \in unmatchedSource THEN \E k : Kinds(removes, s, "source") = {k}
          ELSE Kinds(removes, s, "source") = {}
        <3>1. \A k \in 1 .. Len(removes) :
                removes[k].kind # "Move" /\ removes[k]["source"] = InOrder(unmatchedSource)[k]
            BY <1>5 DEF R
        <3>2. removes \in Seq(Edits) /\ Len(removes) = Len(InOrder(unmatchedSource))
            BY <1>5 DEF R
        <3> QED
            BY <1>2, <3>1, <3>2, Listed
    <2>5. s \in DOMAIN matching <=> s \notin unmatchedSource
        BY DEF IInv, MatchingIsBijection
    <2> QED
        BY <2>3, <2>4, <2>5 DEF Accounted
<1>9. ASSUME NEW t \in Target
      PROVE  Accounted(removes \o inserts, t, "target", \E s \in DOMAIN matching : matching[s] = t)
    <2>1. t # 0
        BY NodesAreNumbers DEF IInv
    <2>2. Kinds(removes, t, "target") = {}
        BY <1>5, <2>1 DEF Kinds
    <2>3. Kinds(removes \o inserts, t, "target") =
            {Len(removes) + k : k \in Kinds(inserts, t, "target")}
        BY <1>7, <2>2
    <2>4. IF t \in unmatchedTarget THEN \E k : Kinds(inserts, t, "target") = {k}
          ELSE Kinds(inserts, t, "target") = {}
        <3>1. \A k \in 1 .. Len(inserts) :
                inserts[k].kind # "Move" /\ inserts[k]["target"] = InOrder(unmatchedTarget)[k]
            BY <1>6 DEF I
        <3>2. inserts \in Seq(Edits) /\ Len(inserts) = Len(InOrder(unmatchedTarget))
            BY <1>6 DEF I
        <3> QED
            BY <1>2, <3>1, <3>2, Listed
    <2>5. (\E s \in DOMAIN matching : matching[s] = t) <=> t \notin unmatchedTarget
        BY DEF IInv, MatchingIsBijection, Range
    <2>6. CASE t \in unmatchedTarget
        <3>1. PICK k : Kinds(inserts, t, "target") = {k}
            BY <2>4, <2>6
        <3>2. Kinds(removes \o inserts, t, "target") = {Len(removes) + k}
            BY <2>3, <3>1
        <3> QED
            BY <2>5, <2>6, <3>2 DEF Accounted
    <2>7. CASE t \notin unmatchedTarget
        BY <2>3, <2>4, <2>5, <2>7 DEF Accounted
    <2> QED
        BY <2>6, <2>7
<1>10. removes \o inserts \in Seq(Edits)
    BY <1>5, <1>6
<1>11. ScriptSoFar(Unmatched, DOMAIN matching)
    BY <1>4, <1>8, <1>9, <1>10 DEF ScriptSoFar
<1> QED
    BY <1>1, <1>11 DEF ScriptInv, ScriptSoFar, Source, Target

LEMMA ReportMatchedScript ==
    ASSUME IInv, ScriptInv, NEW s \in todo, ReportMatched(s)
    PROVE  ScriptInv'
<1> DEFINE t == matching[s]
           M == Moves(s, t)
           V == Verdict(s, t)
<1>1. /\ pc = "script" /\ pc' = pc
      /\ edits' = edits \o M \o V /\ todo' = todo \ {s}
      /\ UNCHANGED <<in, matching, unmatchedSource, unmatchedTarget>>
    BY DEF ReportMatched
<1>2. ScriptSoFar(edits, todo) /\ s \in DOMAIN matching /\ edits \in Seq(Edits)
    BY <1>1 DEF ScriptInv, ScriptSoFar
<1>3. M \in Seq(Edits) /\ \A k \in DOMAIN M : M[k].kind = "Move"
    BY <1>2, MovesOnly
<1>4. s \in Source /\ t \in Target /\ \A n \in DOMAIN matching : matching[n] = t => n = s
    BY <1>2 DEF IInv, TypeOK, MatchingIsBijection, IsInjective
<1> HIDE DEF M, V, t
<1>5. V \in Seq(Edits)
    <2>1. V \in {<<>>, <<Edit("Update", s, t)>>, <<Edit("Keep", s, t)>>}
        BY DEF V, t, Verdict
    <2>2. s \in Nat /\ t \in Nat
        BY <1>4, NodesAreNumbers DEF IInv
    <2>3. Edit("Update", s, t) \in Edits /\ Edit("Keep", s, t) \in Edits
        BY <2>2 DEF Edit, Edits
    <2>4. /\ <<>> \in Seq(Edits)
          /\ <<Edit("Update", s, t)>> \in Seq(Edits) /\ <<Edit("Keep", s, t)>> \in Seq(Edits)
        BY <2>3
    <2> QED
        BY <2>1, <2>4
<1>6. edits \o M \in Seq(Edits) /\ edits \o M \o V \in Seq(Edits)
    BY <1>2, <1>3, <1>5
<1>7. ASSUME NEW n, NEW end PROVE Kinds(edits \o M, n, end) = Kinds(edits, n, end)
    <2>1. Kinds(M, n, end) = {}
        BY <1>3, NoKindsOfMoves
    <2>2. {Len(edits) + k : k \in Kinds(M, n, end)} = {}
        BY <2>1
    <2>3. Kinds(edits \o M, n, end)
            = Kinds(edits, n, end) \cup {Len(edits) + k : k \in Kinds(M, n, end)}
        BY <1>2, <1>3, KindsAppended
    <2> QED
        BY <2>2, <2>3
<1>8. ASSUME ~DeltaOnly
      PROVE  /\ \A n \in Source : Accounted(edits \o M \o V, n, "source", n \in todo \ {s})
             /\ \A n \in Target :
                  Accounted(edits \o M \o V, n, "target", \E m \in todo \ {s} : matching[m] = n)
    <2>1. PICK v \in Edits :
            V = <<v>> /\ v.kind # "Move" /\ v.source = s /\ v.target = t
        BY <1>2, <1>8, OneVerdict DEF V, t
    <2>2. ASSUME NEW n, NEW end \in {"source", "target"}
          PROVE  Kinds(edits \o M \o V, n, end)
                   = Kinds(edits, n, end) \cup (IF v[end] = n THEN {Len(edits \o M) + 1} ELSE {})
        <3>1. Kinds(edits \o M \o V, n, end)
                = Kinds(edits, n, end) \cup {Len(edits \o M) + k : k \in Kinds(V, n, end)}
            <4>1. Kinds((edits \o M) \o V, n, end)
                    = Kinds(edits \o M, n, end) \cup {Len(edits \o M) + k : k \in Kinds(V, n, end)}
                <5> DEFINE G == edits \o M
                <5>1. G \in Seq(Edits)
                    BY <1>6
                <5> HIDE DEF G
                <5>2. Kinds(G \o V, n, end) =
                        Kinds(G, n, end) \cup {Len(G) + k : k \in Kinds(V, n, end)}
                    BY <1>5, <5>1, KindsAppended
                <5> QED
                    BY <5>2 DEF G
            <4> QED
                BY <1>7, <4>1
        <3>2. Kinds(V, n, end) = IF v[end] = n THEN {1} ELSE {}
            BY <2>1 DEF Kinds
        <3> QED
            BY <3>1, <3>2
    <2>3. v["source"] = s /\ v["target"] = t
        BY <2>1
    <2>4. ASSUME NEW n \in Source
          PROVE  Accounted(edits \o M \o V, n, "source", n \in todo \ {s})
        <3>1. Accounted(edits, n, "source", n \in todo)
            BY <1>2, <1>8 DEF ScriptSoFar
        <3>2. Kinds(edits \o M \o V, n, "source")
                = Kinds(edits, n, "source") \cup (IF s = n THEN {Len(edits \o M) + 1} ELSE {})
            BY <2>2, <2>3
        <3> QED
            BY <3>1, <3>2 DEF Accounted
    <2>5. ASSUME NEW n \in Target
          PROVE  Accounted(edits \o M \o V, n, "target", \E m \in todo \ {s} : matching[m] = n)
        <3>1. Accounted(edits, n, "target", \E m \in todo : matching[m] = n)
            BY <1>2, <1>8 DEF ScriptSoFar
        <3>2. Kinds(edits \o M \o V, n, "target")
                = Kinds(edits, n, "target") \cup (IF t = n THEN {Len(edits \o M) + 1} ELSE {})
            BY <2>2, <2>3
        <3>3. CASE t = n
            <4>1. (\E m \in todo : matching[m] = n) /\ ~ (\E m \in todo \ {s} : matching[m] = n)
                BY <1>2, <1>4, <3>3 DEF t, ScriptSoFar
            <4> QED
                BY <3>1, <3>2, <3>3, <4>1 DEF Accounted
        <3>4. CASE t # n
            <4>1. (\E m \in todo : matching[m] = n) <=> \E m \in todo \ {s} : matching[m] = n
                BY <3>4 DEF t
            <4> QED
                BY <3>1, <3>2, <3>4, <4>1 DEF Accounted
        <3> QED
            BY <3>3, <3>4
    <2> QED
        BY <2>4, <2>5
<1>9. ScriptSoFar(edits \o M \o V, todo \ {s})
    BY <1>2, <1>6, <1>8 DEF ScriptSoFar
<1> QED
    BY <1>1, <1>9 DEF ScriptInv, ScriptSoFar, Source, Target

LEMMA ScriptStep == IInv /\ ScriptInv /\ [Next]_vars => ScriptInv'
<1> SUFFICES ASSUME IInv, ScriptInv, [Next]_vars PROVE ScriptInv'
    OBVIOUS
<1>1. CASE ReportUnmatched
    BY <1>1, ReportUnmatchedScript
<1>2. ASSUME NEW s \in todo, ReportMatched(s) PROVE ScriptInv'
    BY <1>2, ReportMatchedScript
<1>3. CASE Return
    BY <1>3 DEF Return, ScriptInv, ScriptSoFar, Source, Target
<1>4. CASE UNCHANGED vars
    BY <1>4 DEF vars, ScriptInv, ScriptSoFar, Source, Target
<1>5. CASE \/ Collect \/ PopCandidate \/ LeavesDone
           \/ \E s \in todo, t \in unmatchedTarget : MatchInner(s, t) \/ SkipTarget(s, t)
           \/ \E s \in todo : NoPartner(s)
    <2>1. pc' \notin {"script", "done"}
        BY <1>5 DEF Collect, PopCandidate, LeavesDone, MatchInner, SkipTarget, NoPartner
    <2> QED
        BY <2>1 DEF ScriptInv
<1> QED
    BY <1>1, <1>2, <1>3, <1>4, <1>5 DEF Next

(* Whatever the trees, every node of either is removed, inserted, updated  *)
(* or kept by exactly one edit of the script (diff.go:478-522).            *)
THEOREM EveryNodeOnce == Spec => []EveryNodeAccountedOnce
<1>1. Init => ScriptInv
    BY DEF Init, ScriptInv
<1>2. ScriptInv => EveryNodeAccountedOnce
    <2> SUFFICES ASSUME ScriptInv, pc = "done", ~DeltaOnly
                 PROVE  /\ \A s \in Source : Cardinality(Kinds(edits, s, "source")) = 1
                        /\ \A t \in Target : Cardinality(Kinds(edits, t, "target")) = 1
        BY DEF EveryNodeAccountedOnce
    <2>1. /\ \A s \in Source : \E k : Kinds(edits, s, "source") = {k}
          /\ \A t \in Target : \E k : Kinds(edits, t, "target") = {k}
        BY DEF ScriptInv, ScriptSoFar, Accounted
    <2> QED
        BY <2>1, FS_Singleton
<1> QED
    BY <1>1, <1>2, Invariance, ScriptStep, PTL DEF Spec

----------------------------------------------------------------------------
(* The longest common subsequence.                                         *)

(* What the table of lcsExpressions holds at p, and a table that does.     *)
LcsStep(xs, ys, f, p) ==
    IF p[1] = 0 \/ p[2] = 0 THEN <<>>
    ELSE IF Partner(xs[p[1]]) = ys[p[2]]
    THEN Append(f[<<p[1] - 1, p[2] - 1>>], xs[p[1]])
    ELSE IF Len(f[<<p[1] - 1, p[2]>>]) > Len(f[<<p[1], p[2] - 1>>])
    THEN f[<<p[1] - 1, p[2]>>]
    ELSE f[<<p[1], p[2] - 1>>]

Places(a, b) == (0 .. a) \X (0 .. b)
IsTable(f, xs, ys, a, b) == f = [p \in Places(a, b) |-> LcsStep(xs, ys, f, p)]

Diagonal(p) == p[1] + p[2]

LessThan == {pair \in Nat \X Nat : pair[1] < pair[2]}

LEMMA LeastNumber ==
    ASSUME NEW S, S \subseteq Nat, S # {}
    PROVE  \E x \in S : \A y \in S : x <= y
<1>1. IsWellFoundedOn(LessThan, Nat)
    BY NatLessThanWellFounded DEF OpToRel, LessThan
<1>2. PICK x \in S : \A y \in S : ~ (<<y, x>> \in LessThan)
    BY <1>1, WFMin
<1>3. ASSUME NEW y \in S PROVE x <= y
    <2>1. x \in Nat /\ y \in Nat
        OBVIOUS
    <2>2. <<y, x>> \notin LessThan
        BY <1>2
    <2>3. ~ (y < x)
        BY <2>1, <2>2 DEF LessThan
    <2> QED
        BY <2>1, <2>3
<1> QED
    BY <1>3

(* The places an entry is computed from are nearer to the corner.          *)
LEMMA Earlier ==
    ASSUME NEW xs, NEW ys, NEW a \in Nat, NEW b \in Nat, NEW p \in Places(a, b),
           p[1] # 0, p[2] # 0
    PROVE  \A q \in {<<p[1] - 1, p[2] - 1>>, <<p[1] - 1, p[2]>>, <<p[1], p[2] - 1>>} :
             q \in Places(a, b) /\ Diagonal(q) < Diagonal(p)
<1>1. p[1] \in 0 .. a /\ p[2] \in 0 .. b
    BY DEF Places
<1>2. p[1] - 1 \in 0 .. a /\ p[2] - 1 \in 0 .. b
    BY <1>1
<1> QED
    BY <1>1, <1>2 DEF Places, Diagonal

LEMMA Diagonals ==
    ASSUME NEW a \in Nat, NEW b \in Nat, NEW p \in Places(a, b)
    PROVE  Diagonal(p) \in 0 .. a + b
<1>1. p[1] \in 0 .. a /\ p[2] \in 0 .. b
    BY DEF Places
<1> QED
    BY <1>1 DEF Diagonal

LEMMA StepLooksBack ==
    ASSUME NEW xs, NEW ys, NEW a \in Nat, NEW b \in Nat, NEW p \in Places(a, b),
           NEW f, NEW g,
           \A q \in Places(a, b) : Diagonal(q) < Diagonal(p) => f[q] = g[q]
    PROVE  LcsStep(xs, ys, f, p) = LcsStep(xs, ys, g, p)
<1>1. CASE p[1] = 0 \/ p[2] = 0
    BY <1>1 DEF LcsStep
<1>2. CASE p[1] # 0 /\ p[2] # 0
    <2>1. /\ f[<<p[1] - 1, p[2] - 1>>] = g[<<p[1] - 1, p[2] - 1>>]
          /\ f[<<p[1] - 1, p[2]>>] = g[<<p[1] - 1, p[2]>>]
          /\ f[<<p[1], p[2] - 1>>] = g[<<p[1], p[2] - 1>>]
        BY <1>2, Earlier
    <2> QED
        BY <1>2, <2>1 DEF LcsStep
<1> QED
    BY <1>1, <1>2

(* There is a table: one that is right up to a diagonal can be made right  *)
(* up to the next.                                                         *)
LEMMA TableExists ==
    ASSUME NEW xs, NEW ys, NEW a \in Nat, NEW b \in Nat
    PROVE  \E f : IsTable(f, xs, ys, a, b)
<1> DEFINE D == Places(a, b)
           Upto(f, d) == \A p \in D : Diagonal(p) < d => f[p] = LcsStep(xs, ys, f, p)
           S == {d \in Nat : ~ \E f : Upto(f, d)}
<1>1. \A p \in D : Diagonal(p) \in Nat /\ Diagonal(p) < a + b + 1
    BY Diagonals
<1>2. S = {}
    <2> SUFFICES ASSUME S # {} PROVE FALSE
        OBVIOUS
    <2>1. PICK d \in S : \A c \in S : d <= c
        <3>1. S \subseteq Nat
            OBVIOUS
        <3> HIDE DEF S
        <3> QED
            BY <3>1, LeastNumber
    <2>2. d # 0
        <3>1. \A p \in D : ~ (Diagonal(p) < 0)
            BY <1>1
        <3>2. Upto(xs, 0)
            BY <3>1
        <3> QED
            BY <3>2
    <2>3. d - 1 \in Nat /\ d - 1 \notin S
        <3>1. d \in Nat
            BY <2>1
        <3>2. d - 1 \in Nat /\ ~ (d <= d - 1)
            BY <2>2, <3>1
        <3> HIDE DEF S
        <3> QED
            BY <2>1, <3>2
    <2>4. PICK f : Upto(f, d - 1)
        BY <2>3
    <2> DEFINE g == [p \in D |-> IF Diagonal(p) < d - 1 THEN f[p] ELSE LcsStep(xs, ys, f, p)]
    <2>5. ASSUME NEW p \in D, Diagonal(p) < d PROVE g[p] = LcsStep(xs, ys, g, p)
        <3>1. \A q \in D : Diagonal(q) < Diagonal(p) => g[q] = f[q]
            <4>1. \A q \in D : Diagonal(q) < Diagonal(p) => Diagonal(q) < d - 1
                <5>1. d \in Nat
                    BY <2>1
                <5> QED
                    BY <1>1, <2>5, <5>1
            <4> QED
                BY <4>1
        <3>2. g[p] = LcsStep(xs, ys, f, p)
            BY <2>4
        <3> HIDE DEF g
        <3>3. LcsStep(xs, ys, g, p) = LcsStep(xs, ys, f, p)
            <4> HIDE DEF D
            <4>1. p \in Places(a, b) BY DEF D
            <4>2. \A q \in Places(a, b) : Diagonal(q) < Diagonal(p) => g[q] = f[q] BY <3>1 DEF D
            <4> QED BY <4>1, <4>2, StepLooksBack
        <3> QED
            BY <3>2, <3>3
    <2>6. Upto(g, d)
        <3> HIDE DEF g
        <3> QED
            BY <2>5
    <2> QED
        BY <2>1, <2>6
<1>3. a + b + 1 \in Nat
    OBVIOUS
<1>4. PICK f : Upto(f, a + b + 1)
    BY <1>2, <1>3
<1>5. ASSUME NEW p \in D PROVE f[p] = LcsStep(xs, ys, f, p)
    <2>1. Diagonal(p) < a + b + 1
        BY <1>1
    <2> QED
        BY <1>4, <2>1
<1> DEFINE e == [p \in D |-> f[p]]
<1>6. ASSUME NEW p \in D PROVE e[p] = LcsStep(xs, ys, e, p)
    <2>1. \A q \in D : f[q] = e[q]
        OBVIOUS
    <2> HIDE DEF e
    <2>2. LcsStep(xs, ys, f, p) = LcsStep(xs, ys, e, p)
        BY <2>1, StepLooksBack
    <2> QED
        BY <1>5, <2>1, <2>2
<1>7. e = [p \in D |-> e[p]]
    OBVIOUS
<1> HIDE DEF e
<1>8. e = [p \in D |-> LcsStep(xs, ys, e, p)]
    BY <1>6, <1>7
<1> QED
    BY <1>8 DEF IsTable

LEMMA LcsFromTable ==
    ASSUME NEW xs, NEW ys, NEW a \in Nat, NEW b \in Nat, a = Len(xs), b = Len(ys)
    PROVE  \E f : /\ \A p \in Places(a, b) : f[p] = LcsStep(xs, ys, f, p)
                 /\ LcsExpressions(xs, ys) = f[<<a, b>>]
<1> DEFINE f == CHOOSE f : IsTable(f, xs, ys, a, b)
<1>1. IsTable(f, xs, ys, a, b)
    BY TableExists
<1>2. LcsExpressions(xs, ys) = f[<<a, b>>]
    BY DEF LcsExpressions, IsTable, LcsStep, Places
<1> HIDE DEF f
<1>3. \A p \in Places(a, b) : f[p] = LcsStep(xs, ys, f, p)
    BY <1>1 DEF IsTable
<1> QED
    BY <1>2, <1>3

(* Lists of children, and the sets of the first i of one whose partners    *)
(* are among the first j of the other, in the same order.                  *)
Ascending(xs) == \A j, k \in DOMAIN xs : j < k <=> xs[j] < xs[k]

AreLists(xs, ys, a, b) ==
    /\ DOMAIN xs = 1 .. a /\ DOMAIN ys = 1 .. b
    /\ Ascending(xs) /\ Ascending(ys)
    /\ \A k \in 1 .. a : xs[k] \in Source
    /\ \A k \in 1 .. b : ys[k] \in Target

CommonIn(xs, ys, i, j) ==
    {C \in SUBSET {xs[k] : k \in 1 .. i} :
        /\ C \subseteq DOMAIN matching
        /\ \A c \in C : \E k \in 1 .. j : matching[c] = ys[k]
        /\ \A c, d \in C : c < d => matching[c] < matching[d]}

IsBest(l, xs, ys, i, j) ==
    /\ l \in Seq(Nat)
    /\ Range(l) \in CommonIn(xs, ys, i, j)
    /\ Cardinality(Range(l)) = Len(l)
    /\ \A C \in CommonIn(xs, ys, i, j) : Cardinality(C) <= Len(l)

(* Of nothing on one side nothing is common.                               *)
LEMMA BestOfNone ==
    ASSUME NEW xs, NEW ys, NEW i \in Nat, NEW j \in Nat, i = 0 \/ j = 0
    PROVE  IsBest(<<>>, xs, ys, i, j)
<1>1. \A C \in CommonIn(xs, ys, i, j) : C = {}
    BY DEF CommonIn
<1>2. Range(<<>>) = {} /\ Len(<<>>) = 0 /\ <<>> \in Seq(Nat)
    BY DEF Range
<1>3. {} \in CommonIn(xs, ys, i, j)
    BY DEF CommonIn
<1>4. Cardinality({}) = 0
    BY FS_EmptySet
<1>5. \A C \in CommonIn(xs, ys, i, j) : Cardinality(C) <= 0
    <2> SUFFICES ASSUME NEW C \in CommonIn(xs, ys, i, j) PROVE Cardinality(C) <= 0
        OBVIOUS
    <2>1. Cardinality(C) = 0
        BY <1>1, <1>4
    <2> QED
        BY <2>1
<1> QED
    BY <1>2, <1>3, <1>4, <1>5 DEF IsBest

LEMMA CommonSets ==
    ASSUME IInv, NEW a \in Nat, NEW b \in Nat, NEW xs, NEW ys, AreLists(xs, ys, a, b),
           NEW i \in 0 .. a, NEW j \in Nat, NEW C \in CommonIn(xs, ys, i, j)
    PROVE  /\ IsFiniteSet(C) /\ Cardinality(C) \in Nat
           /\ \A c \in C : c \in Nat /\ c \in DOMAIN matching /\ \E k \in 1 .. i : c = xs[k]
<1>1. C \subseteq {xs[k] : k \in 1 .. i} /\ C \subseteq DOMAIN matching
    BY DEF CommonIn
<1>2. DOMAIN matching \subseteq Source
    BY DEF IInv, TypeOK
<1>3. C \in SUBSET Source
    BY <1>1, <1>2
<1>4. IsFiniteSet(C) /\ C \subseteq Nat
    BY <1>3, NodesAreNumbers DEF IInv
<1>5. Cardinality(C) \in Nat
    BY <1>4, FS_CardinalityType
<1> QED
    BY <1>1, <1>4, <1>5

(* The last two nodes are partners: the best with both is one longer.      *)
LEMMA BestWithPartners ==
    ASSUME IInv, NEW a \in Nat, NEW b \in Nat, NEW xs, NEW ys, AreLists(xs, ys, a, b),
           NEW i \in 1 .. a, NEW j \in 1 .. b, Partner(xs[i]) = ys[j],
           NEW l, IsBest(l, xs, ys, i - 1, j - 1)
    PROVE  IsBest(Append(l, xs[i]), xs, ys, i, j)
<1> DEFINE c == xs[i]
           m == Append(l, c)
<1>1. /\ c \in Source /\ ys[j] \in Target /\ c \in Nat /\ ys[j] \in Nat /\ ys[j] # 0
    BY NodesAreNumbers DEF AreLists, IInv
<1>2. c \in DOMAIN matching /\ matching[c] = ys[j]
    BY <1>1 DEF Partner
<1>3. i - 1 \in 0 .. a /\ j - 1 \in Nat /\ i \in 0 .. a /\ j \in Nat
    OBVIOUS
<1>4. /\ l \in Seq(Nat) /\ Range(l) \in CommonIn(xs, ys, i - 1, j - 1)
      /\ Cardinality(Range(l)) = Len(l) /\ Len(l) \in Nat
      /\ \A C \in CommonIn(xs, ys, i - 1, j - 1) : Cardinality(C) <= Len(l)
    BY DEF IsBest
<1>5. /\ IsFiniteSet(Range(l))
      /\ \A e \in Range(l) : e \in Nat /\ e \in DOMAIN matching /\ \E k \in 1 .. (i - 1) : e = xs[k]
    BY <1>3, <1>4, CommonSets
<1>6. ASSUME NEW e \in Range(l) PROVE e < c /\ matching[e] < matching[c]
    <2>1. PICK k \in 1 .. (i - 1) : e = xs[k]
        BY <1>5
    <2>2. k \in 1 .. a /\ k < i
        BY <1>3, <2>1
    <2>3. e < c
        BY <2>1, <2>2 DEF AreLists, Ascending
    <2>4. PICK q \in 1 .. (j - 1) : matching[e] = ys[q]
        BY <1>4 DEF CommonIn
    <2>5. q \in 1 .. b /\ q < j
        BY <1>3, <2>4
    <2>6. ys[q] < ys[j]
        BY <2>5 DEF AreLists, Ascending
    <2> QED
        BY <1>2, <2>3, <2>4, <2>6
<1>7. m \in Seq(Nat) /\ Len(m) = Len(l) + 1 /\ Range(m) = Range(l) \cup {c}
    <2>1. /\ m \in Seq(Nat) /\ Len(m) = Len(l) + 1 /\ DOMAIN m = 1 .. Len(l) + 1
          /\ DOMAIN l = 1 .. Len(l)
          /\ \A k \in 1 .. Len(l) : m[k] = l[k]
          /\ m[Len(l) + 1] = c
        BY <1>1, <1>4
    <2> HIDE DEF m
    <2>2. \A k \in 1 .. Len(l) + 1 : k \in 1 .. Len(l) \/ k = Len(l) + 1
        BY <1>4
    <2>3. \A k \in 1 .. Len(l) : k \in 1 .. Len(l) + 1
        BY <1>4
    <2>4. Len(l) + 1 \in 1 .. Len(l) + 1
        BY <1>4
    <2> QED
        BY <2>1, <2>2, <2>3, <2>4 DEF Range
<1> HIDE DEF c, m
<1>8. c \notin Range(l)
    <2> SUFFICES ASSUME c \in Range(l) PROVE FALSE
        OBVIOUS
    <2>1. c < c
        BY <1>6
    <2> QED
        BY <1>1, <2>1
<1>9. Cardinality(Range(m)) = Len(m)
    <2>1. Cardinality(Range(l) \cup {c}) = Cardinality(Range(l)) + 1
        BY <1>5, <1>8, FS_AddElement
    <2> QED
        BY <1>4, <1>7, <2>1
<1>10. Range(m) \in CommonIn(xs, ys, i, j)
    <2>1. ASSUME NEW e \in Range(m)
          PROVE  /\ e \in {xs[k] : k \in 1 .. i} /\ e \in DOMAIN matching
                 /\ \E k \in 1 .. j : matching[e] = ys[k]
        <3>1. CASE e = c
            BY <1>2, <3>1 DEF c
        <3>2. CASE e \in Range(l)
            <4>1. \E k \in 1 .. i : e = xs[k]
                BY <1>3, <1>5, <3>2
            <4>2. PICK k \in 1 .. (j - 1) : matching[e] = ys[k]
                BY <1>4, <3>2 DEF CommonIn
            <4>3. k \in 1 .. j
                BY <1>3, <4>2
            <4> QED
                BY <1>5, <3>2, <4>1, <4>2, <4>3
        <3> QED
            BY <1>7, <3>1, <3>2
    <2>2. ASSUME NEW e \in Range(m), NEW d \in Range(m), e < d PROVE matching[e] < matching[d]
        <3>1. CASE e \in Range(l) /\ d \in Range(l)
            BY <1>4, <2>2, <3>1 DEF CommonIn
        <3>2. CASE e \in Range(l) /\ d = c
            BY <1>6, <3>2
        <3>3. CASE e = c
            <4>1. ~ (d < c) /\ d # c
                BY <1>1, <1>5, <1>7, <2>2, <3>3
            <4> QED
                BY <1>6, <1>7, <4>1
        <3> QED
            BY <1>7, <3>1, <3>2, <3>3
    <2> QED
        BY <2>1, <2>2 DEF CommonIn
<1>11. ASSUME NEW C \in CommonIn(xs, ys, i, j) PROVE Cardinality(C) <= Len(m)
    <2> DEFINE B == C \ {c}
    <2>1. IsFiniteSet(C) /\ Cardinality(C) \in Nat
        BY <1>3, CommonSets
    <2>2. Cardinality(C) <= Cardinality(B) + 1 /\ Cardinality(B) \in Nat
        <3>1. CASE c \in C
            <4>1. Cardinality(B) = Cardinality(C) - 1 /\ IsFiniteSet(B)
                BY <2>1, <3>1, FS_RemoveElement
            <4>2. Cardinality(B) \in Nat
                BY <4>1, FS_CardinalityType
            <4> QED
                BY <2>1, <4>1, <4>2
        <3>2. CASE c \notin C
            <4>1. B = C
                BY <3>2
            <4> QED
                BY <2>1, <4>1
        <3> QED
            BY <3>1, <3>2
    <2>3. ASSUME NEW e \in B
          PROVE  /\ e \in {xs[k] : k \in 1 .. (i - 1)} /\ e \in DOMAIN matching
                 /\ \E k \in 1 .. (j - 1) : matching[e] = ys[k]
        <3>1. e \in DOMAIN matching /\ e # c /\ e \in C
            BY DEF CommonIn
        <3>2. PICK k \in 1 .. i : e = xs[k]
            BY DEF CommonIn
        <3>3. k # i /\ k \in 1 .. (i - 1)
            BY <3>1, <3>2 DEF c
        <3>4. PICK q \in 1 .. j : matching[e] = ys[q]
            BY DEF CommonIn
        <3>5. q # j
            BY <1>2, <3>1, <3>4 DEF IInv, MatchingIsBijection, IsInjective
        <3>6. q \in 1 .. (j - 1)
            BY <3>4, <3>5
        <3> QED
            BY <3>1, <3>2, <3>3, <3>4, <3>6
    <2>4. \A e, d \in B : e < d => matching[e] < matching[d]
        BY DEF CommonIn
    <2>5. B \in CommonIn(xs, ys, i - 1, j - 1)
        <3> HIDE DEF B
        <3> QED
            BY <2>3, <2>4 DEF CommonIn
    <2>6. Cardinality(B) <= Len(l)
        BY <1>4, <2>5
    <2> QED
        BY <1>4, <1>7, <2>1, <2>2, <2>6
<1> QED
    BY <1>7, <1>9, <1>10, <1>11 DEF IsBest, m, c

(* The last two nodes are not partners: no common set has both, and the    *)
(* better of the bests without one of them is the best.                    *)
LEMMA CommonLacksOne ==
    ASSUME IInv, NEW a \in Nat, NEW b \in Nat, NEW xs, NEW ys, AreLists(xs, ys, a, b),
           NEW i \in 1 .. a, NEW j \in 1 .. b, Partner(xs[i]) # ys[j],
           NEW C \in CommonIn(xs, ys, i, j)
    PROVE  C \in CommonIn(xs, ys, i - 1, j) \/ C \in CommonIn(xs, ys, i, j - 1)
<1>1. /\ C \subseteq {xs[k] : k \in 1 .. i} /\ C \subseteq DOMAIN matching
      /\ \A c \in C : \E k \in 1 .. j : matching[c] = ys[k]
      /\ \A c, d \in C : c < d => matching[c] < matching[d]
    BY DEF CommonIn
<1>2. CASE xs[i] \notin C
    <2>1. ASSUME NEW c \in C PROVE c \in {xs[k] : k \in 1 .. (i - 1)}
        <3>1. PICK k \in 1 .. i : c = xs[k]
            BY <1>1
        <3>2. k # i
            BY <1>2, <3>1
        <3>3. k \in 1 .. (i - 1)
            BY <3>1, <3>2
        <3> QED
            BY <3>1, <3>3
    <2>2. C \subseteq {xs[k] : k \in 1 .. (i - 1)}
        BY <2>1
    <2> QED
        BY <1>1, <2>2 DEF CommonIn
<1>3. CASE xs[i] \in C
    <2>1. xs[i] \in DOMAIN matching /\ matching[xs[i]] # ys[j]
        BY <1>1, <1>3 DEF Partner
    <2>2. PICK q \in 1 .. j : matching[xs[i]] = ys[q]
        BY <1>1, <1>3
    <2>3. q # j
        BY <2>1, <2>2
    <2>4. q \in 1 .. b /\ q < j
        BY <2>2, <2>3
    <2>5. ys[q] < ys[j] /\ ys[q] \in Nat /\ ys[j] \in Nat
        BY <2>4, NodesAreNumbers DEF AreLists, Ascending, IInv
    <2>6. ASSUME NEW c \in C PROVE matching[c] # ys[j]
        <3>1. PICK k \in 1 .. i : c = xs[k]
            BY <1>1
        <3>2. CASE k = i
            BY <2>1, <3>1, <3>2
        <3>3. CASE k # i
            <4>1. k \in 1 .. a /\ k < i
                BY <3>1, <3>3
            <4>2. c < xs[i]
                BY <3>1, <4>1 DEF AreLists, Ascending
            <4>3. matching[c] < ys[q]
                BY <1>1, <1>3, <2>2, <4>2
            <4>4. ~ (ys[j] < ys[q])
                BY <2>5
            <4> QED
                BY <4>3, <4>4
        <3> QED
            BY <3>2, <3>3
    <2>7. ASSUME NEW c \in C PROVE \E k \in 1 .. (j - 1) : matching[c] = ys[k]
        <3>1. PICK k \in 1 .. j : matching[c] = ys[k]
            BY <1>1
        <3>2. k # j
            BY <2>6, <3>1
        <3>3. k \in 1 .. (j - 1)
            BY <3>1, <3>2
        <3> QED
            BY <3>1, <3>3
    <2> QED
        BY <1>1, <2>7 DEF CommonIn
<1> QED
    BY <1>2, <1>3

LEMMA CommonGrows ==
    ASSUME NEW xs, NEW ys, NEW i \in Nat, NEW j \in Nat,
           NEW h \in 0 .. i, NEW g \in 0 .. j
    PROVE  CommonIn(xs, ys, h, g) \subseteq CommonIn(xs, ys, i, j)
<1>1. 1 .. h \subseteq 1 .. i /\ 1 .. g \subseteq 1 .. j
    OBVIOUS
<1>2. {xs[k] : k \in 1 .. h} \subseteq {xs[k] : k \in 1 .. i}
    BY <1>1
<1>3. ASSUME NEW C \in CommonIn(xs, ys, h, g)
      PROVE  C \in CommonIn(xs, ys, i, j)
    <2>1. /\ C \subseteq {xs[k] : k \in 1 .. h} /\ C \subseteq DOMAIN matching
          /\ \A c \in C : \E k \in 1 .. g : matching[c] = ys[k]
          /\ \A c, d \in C : c < d => matching[c] < matching[d]
        BY DEF CommonIn
    <2>2. \A c \in C : \E k \in 1 .. j : matching[c] = ys[k]
        BY <1>1, <2>1
    <2>3. C \subseteq {xs[k] : k \in 1 .. i}
        BY <1>2, <2>1
    <2> QED
        BY <2>1, <2>2, <2>3 DEF CommonIn
<1> QED
    BY <1>3

LEMMA BestWithout ==
    ASSUME IInv, NEW a \in Nat, NEW b \in Nat, NEW xs, NEW ys, AreLists(xs, ys, a, b),
           NEW i \in 1 .. a, NEW j \in 1 .. b, Partner(xs[i]) # ys[j],
           NEW l, IsBest(l, xs, ys, i - 1, j), NEW m, IsBest(m, xs, ys, i, j - 1)
    PROVE  IsBest(IF Len(l) > Len(m) THEN l ELSE m, xs, ys, i, j)
<1> DEFINE best == IF Len(l) > Len(m) THEN l ELSE m
<1>1. i \in 0 .. a /\ j \in Nat /\ i \in Nat /\ i - 1 \in 0 .. i /\ j - 1 \in 0 .. j
      /\ i \in 0 .. i /\ j \in 0 .. j
    OBVIOUS
<1>2. /\ l \in Seq(Nat) /\ Len(l) \in Nat /\ Range(l) \in CommonIn(xs, ys, i - 1, j)
      /\ Cardinality(Range(l)) = Len(l)
      /\ \A C \in CommonIn(xs, ys, i - 1, j) : Cardinality(C) <= Len(l)
    BY DEF IsBest
<1>3. /\ m \in Seq(Nat) /\ Len(m) \in Nat /\ Range(m) \in CommonIn(xs, ys, i, j - 1)
      /\ Cardinality(Range(m)) = Len(m)
      /\ \A C \in CommonIn(xs, ys, i, j - 1) : Cardinality(C) <= Len(m)
    BY DEF IsBest
<1>4. Range(l) \in CommonIn(xs, ys, i, j) /\ Range(m) \in CommonIn(xs, ys, i, j)
    BY <1>1, <1>2, <1>3, CommonGrows
<1>5. /\ best \in Seq(Nat) /\ Range(best) \in CommonIn(xs, ys, i, j)
      /\ Cardinality(Range(best)) = Len(best)
    BY <1>2, <1>3, <1>4
<1>6. Len(l) <= Len(best) /\ Len(m) <= Len(best) /\ Len(best) \in Nat
    BY <1>2, <1>3
<1> HIDE DEF best
<1>7. ASSUME NEW C \in CommonIn(xs, ys, i, j) PROVE Cardinality(C) <= Len(best)
    <2>1. Cardinality(C) \in Nat
        BY <1>1, CommonSets
    <2>2. Cardinality(C) <= Len(l) \/ Cardinality(C) <= Len(m)
        BY <1>2, <1>3, CommonLacksOne
    <2>3. CASE Cardinality(C) <= Len(l)
        BY <1>2, <1>6, <2>1, <2>3
    <2>4. CASE Cardinality(C) <= Len(m)
        BY <1>3, <1>6, <2>1, <2>4
    <2> QED
        BY <2>2, <2>3, <2>4
<1>8. IsBest(best, xs, ys, i, j)
    BY <1>5, <1>7 DEF IsBest
<1> QED
    BY <1>8 DEF best

(* What lcsExpressions returns is a longest common subsequence: of the     *)
(* entries that are not, one would be nearest to the corner.               *)
LEMMA LcsIsBest ==
    ASSUME IInv, NEW a \in Nat, NEW b \in Nat, NEW xs, NEW ys, AreLists(xs, ys, a, b),
           a = Len(xs), b = Len(ys)
    PROVE  IsBest(LcsExpressions(xs, ys), xs, ys, a, b)
<1>1. PICK f : /\ \A p \in Places(a, b) : f[p] = LcsStep(xs, ys, f, p)
               /\ LcsExpressions(xs, ys) = f[<<a, b>>]
    BY LcsFromTable
<1> DEFINE Good(p) == IsBest(f[p], xs, ys, p[1], p[2])
           Bad == {p \in Places(a, b) : ~ Good(p)}
           S == {Diagonal(p) : p \in Bad}
<1>2. Bad = {}
    <2> SUFFICES ASSUME Bad # {} PROVE FALSE
        OBVIOUS
    <2>1. S \subseteq Nat /\ S # {}
        <3>1. \A p \in Bad : Diagonal(p) \in 0 .. a + b
            BY Diagonals
        <3> QED
            BY <3>1
    <2>2. PICK d \in S : \A e \in S : d <= e
        <3> HIDE DEF S
        <3> QED
            BY <2>1, LeastNumber
    <2>3. PICK p \in Bad : d = Diagonal(p)
        BY <2>2
    <2>4. ASSUME NEW q \in Places(a, b), Diagonal(q) < Diagonal(p) PROVE Good(q)
        <3>1. Diagonal(q) \in Nat /\ Diagonal(p) \in Nat
            BY <2>3, Diagonals
        <3>2. ~ (d <= Diagonal(q))
            BY <2>3, <2>4, <3>1
        <3>3. q \notin Bad
            BY <2>2, <3>2
        <3> HIDE DEF Good
        <3> QED
            BY <3>3
    <2> DEFINE i == p[1]
               j == p[2]
    <2>5. i \in 0 .. a /\ j \in 0 .. b /\ p = <<i, j>> /\ p \in Places(a, b)
        BY <2>3 DEF Places
    <2>6. f[p] = LcsStep(xs, ys, f, p) /\ ~ Good(p)
        BY <1>1, <2>3, <2>5
    <2>7. CASE i = 0 \/ j = 0
        <3>1. f[p] = <<>>
            BY <2>6, <2>7 DEF LcsStep
        <3>2. IsBest(<<>>, xs, ys, i, j)
            <4>1. i \in Nat /\ j \in Nat
                BY <2>5
            <4> HIDE DEF i, j
            <4> QED
                BY <2>7, <4>1, BestOfNone
        <3> QED
            BY <2>6, <3>1, <3>2
    <2>8. CASE i # 0 /\ j # 0
        <3>1. i \in 1 .. a /\ j \in 1 .. b
            <4> HIDE DEF i, j
            <4> QED
                BY <2>5, <2>8
        <3>2. \A q \in {<<i - 1, j - 1>>, <<i - 1, j>>, <<i, j - 1>>} : Good(q)
            <4>1. \A q \in {<<i - 1, j - 1>>, <<i - 1, j>>, <<i, j - 1>>} :
                    q \in Places(a, b) /\ Diagonal(q) < Diagonal(p)
                <5>1. p \in Places(a, b) /\ p[1] # 0 /\ p[2] # 0
                    BY <2>5, <2>8
                <5> QED
                    BY <5>1, Earlier
            <4> HIDE DEF Good, i, j
            <4> QED
                BY <2>4, <4>1
        <3>3. /\ IsBest(f[<<i - 1, j - 1>>], xs, ys, i - 1, j - 1)
              /\ IsBest(f[<<i - 1, j>>], xs, ys, i - 1, j)
              /\ IsBest(f[<<i, j - 1>>], xs, ys, i, j - 1)
            BY <3>2
        <3>4. f[p] = IF Partner(xs[i]) = ys[j] THEN Append(f[<<i - 1, j - 1>>], xs[i])
                     ELSE IF Len(f[<<i - 1, j>>]) > Len(f[<<i, j - 1>>])
                     THEN f[<<i - 1, j>>] ELSE f[<<i, j - 1>>]
            BY <2>6, <2>8 DEF LcsStep
        <3>5. ~ IsBest(f[p], xs, ys, i, j)
            BY <2>6
        <3> HIDE DEF i, j
        <3>6. CASE Partner(xs[i]) = ys[j]
            <4>1. IsBest(Append(f[<<i - 1, j - 1>>], xs[i]), xs, ys, i, j)
                BY <3>1, <3>3, <3>6, BestWithPartners
            <4> QED
                BY <3>4, <3>5, <3>6, <4>1
        <3>7. CASE Partner(xs[i]) # ys[j]
            <4>1. IsBest(IF Len(f[<<i - 1, j>>]) > Len(f[<<i, j - 1>>])
                         THEN f[<<i - 1, j>>] ELSE f[<<i, j - 1>>], xs, ys, i, j)
                BY <3>1, <3>3, <3>7, BestWithout
            <4> QED
                BY <3>4, <3>5, <3>7, <4>1
        <3> QED
            BY <3>6, <3>7
    <2> QED
        BY <2>7, <2>8
<1>3. <<a, b>> \in Places(a, b)
    BY DEF Places
<1>4. Good(<<a, b>>)
    <2> HIDE DEF Good
    <2> QED
        BY <1>2, <1>3
<1> QED
    BY <1>1, <1>4

(* The children listed on both sides are lists in this sense, and what     *)
(* can stay in place is what they have in common.                          *)
LEMMA ChildrenAreLists ==
    ASSUME IInv, NEW s \in DOMAIN matching
    PROVE  \E a, b \in Nat :
             LET xs == ExpressionOnlyArgs(in.src, s)
                 ys == ExpressionOnlyArgs(in.tgt, matching[s])
             IN  /\ AreLists(xs, ys, a, b) /\ a = Len(xs) /\ b = Len(ys)
                 /\ CommonIn(xs, ys, a, b) = InPlace(s, matching[s])
<1> DEFINE K == Kids(in.src, s)
           L == Kids(in.tgt, matching[s])
           xs == InOrder(K)
           ys == InOrder(L)
           a == Len(xs)
           b == Len(ys)
<1>1. K \in SUBSET Source /\ L \in SUBSET Target
    BY DEF Kids, Source, Target
<1>2. K \subseteq Nat /\ IsFiniteSet(K) /\ L \subseteq Nat /\ IsFiniteSet(L)
    BY <1>1, NodesAreNumbers DEF IInv
<1> HIDE DEF K, L
<1>3. /\ a \in Nat /\ DOMAIN xs = 1 .. a /\ (\A k \in DOMAIN xs : xs[k] \in K)
      /\ (\A n \in K : \E k \in DOMAIN xs : xs[k] = n)
      /\ \A j, k \in DOMAIN xs : j < k <=> xs[j] < xs[k]
    BY <1>2, Ordered
<1>4. /\ b \in Nat /\ DOMAIN ys = 1 .. b /\ (\A k \in DOMAIN ys : ys[k] \in L)
      /\ (\A n \in L : \E k \in DOMAIN ys : ys[k] = n)
      /\ \A j, k \in DOMAIN ys : j < k <=> ys[j] < ys[k]
    BY <1>2, Ordered
<1> HIDE DEF xs, ys, a, b
<1>5. AreLists(xs, ys, a, b)
    BY <1>1, <1>3, <1>4 DEF AreLists, Ascending
<1>6. {xs[k] : k \in 1 .. a} = K
    BY <1>3
<1>7. ASSUME NEW C \in SUBSET DOMAIN matching, NEW c \in C
      PROVE  (\E k \in 1 .. b : matching[c] = ys[k]) <=> in.tgt[matching[c]].parent = matching[s]
    <2>1. matching[c] \in Target
        BY DEF IInv, TypeOK
    <2>2. matching[c] \in L <=> in.tgt[matching[c]].parent = matching[s]
        BY <2>1 DEF L, Kids, Target
    <2> QED
        BY <1>4, <2>2
<1>8. InPlace(s, matching[s]) =
        {C \in SUBSET (K \cap DOMAIN matching) :
            /\ \A c \in C : in.tgt[matching[c]].parent = matching[s]
            /\ \A c, d \in C : c < d => matching[c] < matching[d]}
    BY DEF InPlace, K
<1>9. CommonIn(xs, ys, a, b) =
        {C \in SUBSET K :
            /\ C \subseteq DOMAIN matching
            /\ \A c \in C : \E k \in 1 .. b : matching[c] = ys[k]
            /\ \A c, d \in C : c < d => matching[c] < matching[d]}
    BY <1>6 DEF CommonIn
<1>10. CommonIn(xs, ys, a, b) = InPlace(s, matching[s])
    <2>1. ASSUME NEW C \in CommonIn(xs, ys, a, b) PROVE C \in InPlace(s, matching[s])
        <3>1. C \in SUBSET DOMAIN matching
            BY <1>9
        <3>2. \A c \in C : in.tgt[matching[c]].parent = matching[s]
            BY <1>7, <1>9, <3>1
        <3> QED
            BY <1>8, <1>9, <3>2
    <2>2. ASSUME NEW C \in InPlace(s, matching[s]) PROVE C \in CommonIn(xs, ys, a, b)
        <3>1. C \in SUBSET DOMAIN matching
            BY <1>8
        <3>2. \A c \in C : \E k \in 1 .. b : matching[c] = ys[k]
            BY <1>7, <1>8, <3>1
        <3> QED
            BY <1>8, <1>9, <3>2
    <2> QED
        BY <2>1, <2>2
<1>11. xs = ExpressionOnlyArgs(in.src, s) /\ ys = ExpressionOnlyArgs(in.tgt, matching[s])
    BY DEF ExpressionOnlyArgs, xs, ys, K, L
<1>12. a = Len(xs) /\ b = Len(ys)
    BY DEF a, b
<1> QED
    BY <1>3, <1>4, <1>5, <1>10, <1>11, <1>12

(* The sources of the Moves generated for a pair are its matched children  *)
(* outside the longest common subsequence.                                 *)
LEMMA MovedAreTheOthers ==
    ASSUME IInv, NEW s \in DOMAIN matching, NEW G, G = GenerateMoveEdits(s, matching[s])
    PROVE  Range([k \in DOMAIN G |-> G[k].source]) =
             (Kids(in.src, s) \cap DOMAIN matching) \
                 Range(LcsExpressions(ExpressionOnlyArgs(in.src, s),
                                      ExpressionOnlyArgs(in.tgt, matching[s])))
<1> DEFINE l == Range(LcsExpressions(ExpressionOnlyArgs(in.src, s),
                                     ExpressionOnlyArgs(in.tgt, matching[s])))
           S == Kids(in.src, s) \ (l \cup unmatchedSource)
           moved == InOrder(S)
<1>1. G = [k \in 1 .. Len(moved) |-> Edit("Move", moved[k], matching[moved[k]])]
    BY DEF GenerateMoveEdits
<1>2. S = (Kids(in.src, s) \cap DOMAIN matching) \ l
    BY DEF Kids, Source, IInv, MatchingIsBijection
<1>3. S \in SUBSET Source
    BY DEF Kids, Source
<1> HIDE DEF S, l
<1>4. S \subseteq Nat /\ IsFiniteSet(S)
    BY <1>3, NodesAreNumbers DEF IInv
<1>5. /\ DOMAIN moved = 1 .. Len(moved)
      /\ \A k \in DOMAIN moved : moved[k] \in S
      /\ \A n \in S : \E k \in DOMAIN moved : moved[k] = n
    BY <1>4, Ordered
<1> HIDE DEF moved
<1>6. DOMAIN G = 1 .. Len(moved) /\ \A k \in 1 .. Len(moved) : G[k].source = moved[k]
    BY <1>1 DEF Edit
<1>7. Range([k \in DOMAIN G |-> G[k].source]) = S
    BY <1>5, <1>6 DEF Range
<1> QED
    BY <1>2, <1>7 DEF l

(* Whatever the trees and however their nodes were matched, no script that *)
(* keeps more of a pair's children where they are is possible: the Moves   *)
(* generated for it leave a largest set in place (diff.go:524-607).        *)
THEOREM FewestMoves == Spec => []ReorderingMovesAreFewest
<1>1. ASSUME IInv, NEW s \in DOMAIN matching, NEW G, G = GenerateMoveEdits(s, matching[s]),
             NEW stays,
             stays = (Kids(in.src, s) \cap DOMAIN matching)
                         \ Range([k \in DOMAIN G |-> G[k].source])
      PROVE  /\ stays \in InPlace(s, matching[s])
             /\ \A S \in InPlace(s, matching[s]) : Cardinality(S) <= Cardinality(stays)
    <2> DEFINE xs == ExpressionOnlyArgs(in.src, s)
               ys == ExpressionOnlyArgs(in.tgt, matching[s])
               lcs == LcsExpressions(xs, ys)
    <2>1. PICK a \in Nat, b \in Nat :
            /\ AreLists(xs, ys, a, b) /\ a = Len(xs) /\ b = Len(ys)
            /\ CommonIn(xs, ys, a, b) = InPlace(s, matching[s])
        BY <1>1, ChildrenAreLists
    <2>2. stays = (Kids(in.src, s) \cap DOMAIN matching)
                    \ ((Kids(in.src, s) \cap DOMAIN matching) \ Range(lcs))
        BY <1>1, MovedAreTheOthers
    <2> HIDE DEF xs, ys
    <2>3. IsBest(lcs, xs, ys, a, b)
        BY <1>1, <2>1, LcsIsBest
    <2> HIDE DEF lcs
    <2>4. /\ Range(lcs) \in InPlace(s, matching[s])
          /\ Cardinality(Range(lcs)) = Len(lcs)
          /\ \A S \in InPlace(s, matching[s]) : Cardinality(S) <= Len(lcs)
        BY <2>1, <2>3 DEF IsBest
    <2>5. stays = Range(lcs)
        BY <2>2, <2>4 DEF InPlace
    <2> QED
        BY <2>4, <2>5
<1>2. IInv => ReorderingMovesAreFewest
    BY <1>1 DEF ReorderingMovesAreFewest
<1> QED
    BY <1>2, Invariance, PTL

----------------------------------------------------------------------------
(* Two equal trees.                                                        *)

(* What holds of a thing when it holds of all of lower rank holds of all.  *)
LEMMA InductionByRank ==
    ASSUME NEW D, NEW rank \in [D -> Nat], NEW Good,
           \A p \in D : (\A q \in D : rank[q] < rank[p] => q \in Good) => p \in Good
    PROVE  D \subseteq Good
<1> DEFINE S == {rank[p] : p \in D \ Good}
<1> SUFFICES ASSUME ~ (D \subseteq Good) PROVE FALSE
    OBVIOUS
<1>1. S \subseteq Nat /\ S # {}
    OBVIOUS
<1>2. PICK d \in S : \A e \in S : d <= e
    <2> HIDE DEF S
    <2> QED
        BY <1>1, LeastNumber
<1>3. PICK p \in D \ Good : d = rank[p]
    BY <1>2
<1>4. ASSUME NEW q \in D, rank[q] < rank[p] PROVE q \in Good
    <2>1. rank[q] \in Nat /\ rank[p] \in Nat
        OBVIOUS
    <2>2. ~ (rank[p] <= rank[q])
        BY <1>4, <2>1
    <2> QED
        BY <1>2, <1>3, <2>2
<1> QED
    BY <1>3, <1>4

(* A recursion on D: Fill makes of any table the one the right-hand sides  *)
(* give, which depend on entries of lower rank only.                       *)
IsRecursion(Fill, D, V, rank, top) ==
    /\ Fill \in [[D -> V] -> [D -> V]] /\ [D -> V] # {}
    /\ rank \in [D -> Nat] /\ top \in Nat /\ \A p \in D : rank[p] < top
    /\ \A f, g \in [D -> V] : \A p \in D :
         (\A q \in D : rank[q] < rank[p] => f[q] = g[q]) => Fill[f][p] = Fill[g][p]

HasTable(Fill, D, V) == \E f \in [D -> V] : Fill[f] = f

LEMMA RecursionHasTable ==
    ASSUME NEW Fill, NEW D, NEW V, NEW rank, NEW top, IsRecursion(Fill, D, V, rank, top)
    PROVE  HasTable(Fill, D, V)
<1> USE DEF IsRecursion
<1> PICK z \in [D -> V] : TRUE
    OBVIOUS
<1> DEFINE Upto(f, d) == \A p \in D : rank[p] < d => Fill[f][p] = f[p]
           S == {d \in Nat : ~ \E f \in [D -> V] : Upto(f, d)}
<1>1. S = {}
    <2> SUFFICES ASSUME S # {} PROVE FALSE
        OBVIOUS
    <2>1. PICK d \in S : \A e \in S : d <= e
        <3>1. S \subseteq Nat
            OBVIOUS
        <3> HIDE DEF S
        <3> QED
            BY <3>1, LeastNumber
    <2>2. d # 0
        <3>1. \A p \in D : rank[p] \in Nat
            OBVIOUS
        <3>2. \A p \in D : ~ (rank[p] < 0)
            BY <3>1
        <3>3. Upto(z, 0)
            BY <3>2
        <3> QED
            BY <2>1, <3>3
    <2>3. d - 1 \in Nat /\ d - 1 \notin S
        <3>1. d \in Nat
            BY <2>1
        <3>2. d - 1 \in Nat /\ ~ (d <= d - 1)
            BY <2>2, <3>1
        <3> HIDE DEF S
        <3> QED
            BY <2>1, <3>2
    <2>4. PICK f \in [D -> V] : Upto(f, d - 1)
        BY <2>3
    <2> DEFINE g == Fill[f]
    <2>5. g \in [D -> V]
        OBVIOUS
    <2>6. ASSUME NEW p \in D, rank[p] < d PROVE Fill[g][p] = g[p]
        <3>1. ASSUME NEW q \in D, rank[q] < rank[p] PROVE g[q] = f[q]
            <4>1. rank[q] \in Nat /\ rank[p] \in Nat /\ d \in Nat
                BY <2>1
            <4>2. rank[q] < d - 1
                BY <2>6, <3>1, <4>1
            <4> QED
                BY <2>4, <4>2
        <3> QED
            BY <2>5, <3>1
    <2>7. Upto(g, d)
        <3> HIDE DEF g
        <3> QED
            BY <2>6
    <2> HIDE DEF g
    <2> QED
        BY <2>1, <2>5, <2>7
<1>2. PICK f \in [D -> V] : Upto(f, top)
    BY <1>1
<1>3. Fill[f] \in [D -> V] /\ \A p \in D : Fill[f][p] = f[p]
    BY <1>2
<1> QED
    BY <1>3 DEF HasTable

(* A node's lineage is the node and its parent's lineage.                  *)
IsLineage(f, tree) ==
    f = [n \in DOMAIN tree |-> {n} \cup IF n = 1 THEN {} ELSE f[tree[n].parent]]

LEMMA TreeNodesAreNumbers ==
    ASSUME NEW tree, WellFormedTree(tree)
    PROVE  /\ Len(tree) \in Nat /\ Len(tree) # 0 /\ DOMAIN tree = 1 .. Len(tree)
           /\ \A n \in DOMAIN tree : n \in Nat /\ n # 0 /\ tree[n].parent \in Nat
           /\ \A n \in DOMAIN tree :
                n # 1 => tree[n].parent \in DOMAIN tree /\ tree[n].parent < n
<1>1. /\ Len(tree) \in Nat /\ Len(tree) # 0 /\ DOMAIN tree = 1 .. Len(tree)
      /\ \A n \in DOMAIN tree :
           tree[n].parent \in 0 .. n - 1 /\ ((tree[n].parent = 0) <=> (n = 1))
    <2>1. tree \in Seq(TreeNodes)
        BY DEF WellFormedTree
    <2> QED
        BY <2>1 DEF WellFormedTree
<1> DEFINE len == Len(tree)
<1> HIDE DEF len
<1>2. ASSUME NEW n \in DOMAIN tree, NEW p, p = tree[n].parent
      PROVE  /\ n \in Nat /\ n # 0 /\ p \in Nat
             /\ n # 1 => p \in DOMAIN tree /\ p < n
    <2>1. len \in Nat /\ DOMAIN tree = 1 .. len /\ n \in 1 .. len
        BY <1>1 DEF len
    <2>2. p \in 0 .. n - 1 /\ (p = 0 <=> n = 1)
        BY <1>1, <1>2
    <2> QED
        BY <2>1, <2>2
<1> QED
    BY <1>1, <1>2

LEMMA LineageUnfolds ==
    ASSUME NEW tree, WellFormedTree(tree)
    PROVE  \A n \in DOMAIN tree :
             Lineage(tree)[n] =
                 {n} \cup IF n = 1 THEN {} ELSE Lineage(tree)[tree[n].parent]
<1> DEFINE D == DOMAIN tree
           V == SUBSET D
           Entry(f, n) == {n} \cup IF n = 1 THEN {} ELSE f[tree[n].parent]
           Fill == [f \in [D -> V] |-> [n \in D |-> Entry(f, n)]]
           rank == [n \in D |-> n]
           top == Len(tree) + 1
           z == [n \in D |-> {}]
<1>1. /\ Len(tree) \in Nat /\ D = 1 .. Len(tree) /\ \A n \in D : n \in Nat
      /\ \A n \in D : n # 1 => tree[n].parent \in D /\ tree[n].parent < n
    BY TreeNodesAreNumbers
<1>2. Fill \in [[D -> V] -> [D -> V]]
    <2>1. ASSUME NEW f \in [D -> V], NEW n \in D PROVE Entry(f, n) \in V
        BY <1>1
    <2> HIDE DEF Entry, D, V
    <2> QED
        BY <2>1
<1>3. rank \in [D -> Nat] /\ top \in Nat /\ z \in [D -> V] /\ \A p \in D : rank[p] < top
    BY <1>1
<1>4. ASSUME NEW f \in [D -> V], NEW g \in [D -> V], NEW p \in D,
             \A q \in D : rank[q] < rank[p] => f[q] = g[q]
      PROVE  Fill[f][p] = Fill[g][p]
    <2>1. Entry(f, p) = Entry(g, p)
        BY <1>1, <1>4
    <2> HIDE DEF Entry, D, V
    <2> QED
        BY <2>1
<1>5. PICK f \in [D -> V] : Fill[f] = f
    <2> HIDE DEF Fill, D, V, rank, top, z
    <2>1. IsRecursion(Fill, D, V, rank, top)
        BY <1>2, <1>3, <1>4 DEF IsRecursion
    <2> QED
        BY <2>1, RecursionHasTable DEF HasTable
<1>6. \E g : IsLineage(g, tree)
    BY <1>5 DEF IsLineage
<1> DEFINE h == CHOOSE g : IsLineage(g, tree)
<1>7. IsLineage(h, tree)
    BY <1>6
<1>8. Lineage(tree) = h
    BY DEF Lineage, IsLineage
<1> HIDE DEF h
<1>9. h = [n \in DOMAIN tree |-> {n} \cup IF n = 1 THEN {} ELSE h[tree[n].parent]]
    BY <1>7 DEF IsLineage
<1> QED
    BY <1>8, <1>9

(* Ancestors come no later, all lineages begin at the root, and of two     *)
(* ancestors one is the other's.                                           *)
LEMMA Lineages ==
    ASSUME NEW tree, WellFormedTree(tree)
    PROVE  \A n \in DOMAIN tree :
             /\ n \in Lineage(tree)[n] /\ 1 \in Lineage(tree)[n]
             /\ Lineage(tree)[n] \subseteq DOMAIN tree
             /\ \A x \in Lineage(tree)[n] :
                  x <= n /\ Lineage(tree)[x] \subseteq Lineage(tree)[n]
             /\ \A x, y \in Lineage(tree)[n] :
                  x \in Lineage(tree)[y] \/ y \in Lineage(tree)[x]
<1> DEFINE D == DOMAIN tree
           up == Lineage(tree)
           Good == {n \in D :
                      /\ n \in up[n] /\ 1 \in up[n] /\ up[n] \subseteq D
                      /\ \A x \in up[n] : x <= n /\ up[x] \subseteq up[n]
                      /\ \A x, y \in up[n] : x \in up[y] \/ y \in up[x]}
           rank == [n \in D |-> n]
<1>1. \A n \in D : n \in Nat /\ (n # 1 => tree[n].parent \in D /\ tree[n].parent < n)
    BY TreeNodesAreNumbers
<1>2. \A n \in D : up[n] = {n} \cup IF n = 1 THEN {} ELSE up[tree[n].parent]
    BY LineageUnfolds
<1> HIDE DEF D, up
<1>3. ASSUME NEW n \in D, \A q \in D : rank[q] < rank[n] => q \in Good
      PROVE  n \in Good
    <2>1. CASE n = 1
        <3>1. up[n] = {n}
            BY <1>2, <2>1
        <3> QED
            BY <1>1, <2>1, <3>1
    <2>2. CASE n # 1
        <3> DEFINE p == tree[n].parent
        <3>1. p \in D /\ p < n /\ p \in Nat /\ n \in Nat
            BY <1>1, <2>2
        <3>2. p \in Good
            BY <1>3, <3>1
        <3>3. up[n] = {n} \cup up[p]
            BY <1>2, <2>2
        <3> HIDE DEF p
        <3>4. n \in up[n] /\ 1 \in up[n] /\ up[n] \subseteq D
            BY <3>2, <3>3
        <3>5. ASSUME NEW x \in up[n] PROVE x <= n /\ up[x] \subseteq up[n]
            <4>1. CASE x = n
                BY <3>1, <4>1
            <4>2. CASE x \in up[p]
                <5>1. x <= p /\ up[x] \subseteq up[p] /\ x \in D /\ x \in Nat
                    BY <1>1, <3>2, <4>2
                <5>2. x <= n
                    BY <3>1, <5>1
                <5> QED
                    BY <3>3, <5>1, <5>2
            <4> QED
                BY <3>3, <4>1, <4>2
        <3>6. \A x, y \in up[n] : x \in up[y] \/ y \in up[x]
            BY <3>2, <3>3
        <3> QED
            BY <3>4, <3>5, <3>6
    <2> QED
        BY <2>1, <2>2
<1>4. D \subseteq Good
    <2>1. rank \in [D -> Nat]
        BY <1>1
    <2> HIDE DEF rank, Good
    <2> QED
        BY <1>3, <2>1, InductionByRank
<1> QED
    BY <1>4 DEF D, up

(* The depth-first order is one: siblings' descendants follow each other.  *)
LEMMA ListedOnce ==
    ASSUME NEW tree, WellFormedTree(tree), NEW l \in DOMAIN tree
    PROVE  ~ ListedBefore(tree, l, l)
<1> SUFFICES ASSUME NEW x \in Lineage(tree)[l], NEW y \in Lineage(tree)[l],
                    tree[x].parent = tree[y].parent, x < y
             PROVE  FALSE
    BY DEF ListedBefore
<1>1. x \in DOMAIN tree /\ y \in DOMAIN tree /\ x \in Nat /\ y \in Nat /\ x # y
    BY Lineages, TreeNodesAreNumbers
<1>2. x \in Lineage(tree)[y] \/ y \in Lineage(tree)[x]
    BY Lineages
<1>3. CASE y \in Lineage(tree)[x]
    <2>1. y <= x
        BY <1>1, <1>3, Lineages
    <2> QED
        BY <1>1, <2>1
<1>4. CASE x \in Lineage(tree)[y]
    <2> DEFINE p == tree[y].parent
    <2>1. y # 1 /\ x # 1
        <3>1. (tree[x].parent = 0 <=> x = 1) /\ (tree[y].parent = 0 <=> y = 1)
            BY <1>1 DEF WellFormedTree
        <3> QED
            BY <1>1, <3>1
    <2>2. p \in DOMAIN tree /\ p < x /\ p \in Nat
        BY <1>1, <2>1, TreeNodesAreNumbers
    <2>3. x \in Lineage(tree)[p]
        BY <1>1, <1>4, <2>1, LineageUnfolds
    <2> HIDE DEF p
    <2>4. x <= p
        BY <2>2, <2>3, Lineages
    <2> QED
        BY <1>1, <2>2, <2>4
<1> QED
    BY <1>2, <1>3, <1>4

LEMMA ListedInOrder ==
    ASSUME NEW tree, WellFormedTree(tree),
           NEW l \in DOMAIN tree, NEW m \in DOMAIN tree, NEW n \in DOMAIN tree,
           ListedBefore(tree, l, m), ListedBefore(tree, m, n)
    PROVE  ListedBefore(tree, l, n)
<1> DEFINE up == Lineage(tree)
<1>1. PICK x \in up[l], y \in up[m] : tree[x].parent = tree[y].parent /\ x < y
    BY DEF ListedBefore
<1>2. PICK v \in up[m], w \in up[n] : tree[v].parent = tree[w].parent /\ v < w
    BY DEF ListedBefore
<1>3. /\ x \in DOMAIN tree /\ y \in DOMAIN tree /\ v \in DOMAIN tree /\ w \in DOMAIN tree
      /\ x \in Nat /\ y \in Nat /\ v \in Nat /\ w \in Nat
    BY Lineages, TreeNodesAreNumbers
<1>4. ASSUME NEW a \in DOMAIN tree, NEW b \in DOMAIN tree, NEW c \in DOMAIN tree,
             tree[a].parent = tree[b].parent, a # b, c \in up[a], c # a
      PROVE  c \in up[b]
    <2> DEFINE p == tree[a].parent
    <2>1. (tree[a].parent = 0 <=> a = 1) /\ (tree[b].parent = 0 <=> b = 1)
        BY DEF WellFormedTree
    <2>2. a # 1 /\ b # 1
        BY <1>4, <2>1
    <2>3. c \in up[p] /\ up[b] = {b} \cup up[p]
        BY <1>4, <2>2, LineageUnfolds
    <2> QED
        BY <2>3
<1>5. CASE y = v
    <2>1. tree[x].parent = tree[w].parent /\ x < w
        BY <1>1, <1>2, <1>3, <1>5
    <2> QED
        BY <2>1 DEF ListedBefore
<1>6. CASE y # v /\ y \in up[v]
    <2>1. v # w
        BY <1>2, <1>3
    <2>2. y \in up[w]
        BY <1>2, <1>3, <1>4, <1>6, <2>1
    <2>3. up[w] \subseteq up[n]
        BY Lineages
    <2> QED
        BY <1>1, <2>2, <2>3 DEF ListedBefore
<1>7. CASE y # v /\ v \in up[y]
    <2>1. x # y
        BY <1>1, <1>3
    <2>2. v \in up[x]
        BY <1>1, <1>3, <1>4, <1>7, <2>1
    <2>3. up[x] \subseteq up[l]
        BY Lineages
    <2> QED
        BY <1>2, <2>2, <2>3 DEF ListedBefore
<1>8. y \in up[v] \/ v \in up[y]
    BY Lineages
<1> QED
    BY <1>5, <1>6, <1>7, <1>8

LEMMA FirstListed ==
    ASSUME NEW tree, WellFormedTree(tree), NEW B, B \subseteq DOMAIN tree, B # {}
    PROVE  \E l \in B : \A m \in B : ~ ListedBefore(tree, m, l)
<1> DEFINE before(l) == {m \in B : ListedBefore(tree, m, l)}
           S == {Cardinality(before(l)) : l \in B}
<1>1. \A l \in B : IsFiniteSet(before(l)) /\ Cardinality(before(l)) \in Nat
    <2>1. IsFiniteSet(DOMAIN tree)
        BY TreeNodesAreNumbers, FS_Interval
    <2>2. \A l \in B : before(l) \in SUBSET DOMAIN tree
        OBVIOUS
    <2> HIDE DEF before
    <2> QED
        BY <2>1, <2>2, FS_Subset, FS_CardinalityType
<1>2. S \subseteq Nat /\ S # {}
    <2> HIDE DEF before
    <2> QED
        BY <1>1
<1>3. PICK d \in S : \A e \in S : d <= e
    <2> HIDE DEF S
    <2> QED
        BY <1>2, LeastNumber
<1>4. PICK l \in B : d = Cardinality(before(l))
    BY <1>3
<1>5. ASSUME NEW m \in B, ListedBefore(tree, m, l) PROVE FALSE
    <2>1. before(m) \in SUBSET before(l)
        BY <1>5, ListedInOrder
    <2>2. m \in before(l) /\ m \notin before(m)
        BY <1>5, ListedOnce
    <2> HIDE DEF before
    <2>3. Cardinality(before(m)) <= Cardinality(before(l))
          /\ Cardinality(before(m)) # Cardinality(before(l))
        BY <1>1, <2>1, <2>2, FS_Subset
    <2>4. Cardinality(before(l)) <= Cardinality(before(m))
        BY <1>3, <1>4
    <2> QED
        BY <1>1, <2>3, <2>4
<1> QED
    BY <1>5

(* What parentSimilarityScore computes from the parents' score.            *)
IsScore(f, src, tgt) ==
    f = [p \in Places(Len(src), Len(tgt)) |->
            IF p[1] = 0 \/ p[2] = 0 THEN 0
            ELSE IF src[p[1]].class # tgt[p[2]].class THEN 0
            ELSE 1 + f[<<src[p[1]].parent, tgt[p[2]].parent>>]]

LEMMA ScoreUnfolds ==
    ASSUME NEW src, NEW tgt, WellFormedTree(src), WellFormedTree(tgt),
           src = in.src, tgt = in.tgt
    PROVE  IsScore(ParentSimilarityScore, src, tgt)
<1> DEFINE D == Places(Len(src), Len(tgt))
           V == Nat
           Entry(f, p) == IF p[1] = 0 \/ p[2] = 0 THEN 0
                          ELSE IF src[p[1]].class # tgt[p[2]].class THEN 0
                          ELSE 1 + f[<<src[p[1]].parent, tgt[p[2]].parent>>]
           Fill == [f \in [D -> V] |-> [p \in D |-> Entry(f, p)]]
           rank == [p \in D |-> Diagonal(p)]
           top == Len(src) + Len(tgt) + 1
<1>1. /\ Len(src) \in Nat /\ DOMAIN src = 1 .. Len(src)
      /\ Len(tgt) \in Nat /\ DOMAIN tgt = 1 .. Len(tgt)
    BY TreeNodesAreNumbers
<1>2. ASSUME NEW p \in D, p[1] # 0, p[2] # 0, NEW q,
             q = <<src[p[1]].parent, tgt[p[2]].parent>>
      PROVE  q \in D /\ Diagonal(q) < Diagonal(p)
    <2>1. /\ p[1] \in DOMAIN src /\ p[2] \in DOMAIN tgt
          /\ p[1] \in 0 .. Len(src) /\ p[2] \in 0 .. Len(tgt)
        BY <1>1, <1>2 DEF Places
    <2>2. /\ src[p[1]].parent \in 0 .. p[1] - 1
          /\ tgt[p[2]].parent \in 0 .. p[2] - 1
        BY <2>1 DEF WellFormedTree
    <2>3. \A a, b \in Nat : \A i \in 0 .. a, j \in 0 .. b :
            \A h \in 0 .. i - 1, k \in 0 .. j - 1 :
              h \in 0 .. a /\ k \in 0 .. b /\ h + k < i + j
        OBVIOUS
    <2> DEFINE h == src[p[1]].parent
               k == tgt[p[2]].parent
               i == p[1]
               j == p[2]
               a == Len(src)
               b == Len(tgt)
    <2>5. /\ a \in Nat /\ b \in Nat /\ i \in 0 .. a /\ j \in 0 .. b
          /\ h \in 0 .. i - 1 /\ k \in 0 .. j - 1
        BY <1>1, <2>1, <2>2
    <2>6. q[1] = h /\ q[2] = k /\ q = <<h, k>>
        BY <1>2
    <2> HIDE DEF h, k, i, j, a, b
    <2>7. h \in 0 .. a /\ k \in 0 .. b /\ h + k < i + j
        BY <2>3, <2>5
    <2>4. /\ q[1] \in 0 .. Len(src) /\ q[2] \in 0 .. Len(tgt)
          /\ q[1] + q[2] < p[1] + p[2]
        BY <2>6, <2>7 DEF a, b, i, j
    <2> QED
        BY <2>4, <2>6 DEF Places, Diagonal
<1>3. \A p \in D : Diagonal(p) \in Nat /\ Diagonal(p) < top
    <2>1. \A p \in D : Diagonal(p) \in 0 .. Len(src) + Len(tgt)
        BY <1>1, Diagonals
    <2>2. ASSUME NEW a \in Nat, NEW b \in Nat, NEW d \in 0 .. a + b
          PROVE  d \in Nat /\ d < a + b + 1
        OBVIOUS
    <2> QED
        BY <1>1, <2>1, <2>2
<1> HIDE DEF D
<1>4. ASSUME NEW f \in [D -> V], NEW p \in D PROVE Entry(f, p) \in V
    <2>1. CASE p[1] = 0 \/ p[2] = 0
        BY <2>1
    <2>2. CASE p[1] # 0 /\ p[2] # 0
        <3>1. f[<<src[p[1]].parent, tgt[p[2]].parent>>] \in Nat
            BY <1>2, <2>2
        <3> QED
            BY <2>2, <3>1
    <2> QED
        BY <2>1, <2>2
<1>5. ASSUME NEW f \in [D -> V], NEW g \in [D -> V], NEW p \in D,
             \A q \in D : rank[q] < rank[p] => f[q] = g[q]
      PROVE  Fill[f][p] = Fill[g][p]
    <2>1. Entry(f, p) = Entry(g, p)
        <3>1. CASE p[1] = 0 \/ p[2] = 0
            BY <3>1
        <3>2. CASE p[1] # 0 /\ p[2] # 0
            <4> DEFINE q == <<src[p[1]].parent, tgt[p[2]].parent>>
            <4>1. q \in D /\ Diagonal(q) < Diagonal(p)
                BY <1>2, <3>2
            <4> HIDE DEF q
            <4>2. f[q] = g[q]
                BY <1>5, <4>1
            <4> QED
                BY <4>2 DEF q
        <3> QED
            BY <3>1, <3>2
    <2> HIDE DEF Entry
    <2> QED
        BY <2>1
<1>6. Fill \in [[D -> V] -> [D -> V]] /\ [D -> V] # {}
    <2>1. [p \in D |-> 0] \in [D -> V]
        OBVIOUS
    <2> HIDE DEF Entry, V
    <2> QED
        BY <1>4, <2>1
<1>7. rank \in [D -> Nat] /\ top \in Nat /\ \A p \in D : rank[p] < top
    <2>1. top \in Nat
        <3>1. \A a, b \in Nat : a + b + 1 \in Nat
            OBVIOUS
        <3>2. Len(src) \in Nat /\ Len(tgt) \in Nat
            BY <1>1
        <3> QED
            BY <3>1, <3>2
    <2> HIDE DEF top
    <2> QED
        BY <1>3, <2>1
<1>8. PICK f \in [D -> V] : Fill[f] = f
    <2> HIDE DEF Fill, V, rank, top
    <2>1. IsRecursion(Fill, D, V, rank, top)
        BY <1>5, <1>6, <1>7 DEF IsRecursion
    <2> QED
        BY <2>1, RecursionHasTable DEF HasTable
<1>9. \E g : IsScore(g, src, tgt)
    BY <1>8 DEF IsScore, D
<1> DEFINE h == CHOOSE g : IsScore(g, src, tgt)
<1>10. IsScore(h, src, tgt)
    BY <1>9
<1>11. ParentSimilarityScore = h
    BY DEF ParentSimilarityScore, IsScore, Places
<1> HIDE DEF h
<1> QED
    BY <1>10, <1>11

(* In one tree on both sides, no pair of a node scores more than the node  *)
(* with itself.                                                            *)
LEMMA OwnScoreIsBest ==
    ASSUME NEW tree, WellFormedTree(tree), tree = in.src, tree = in.tgt,
           NEW l \in DOMAIN tree, NEW m \in DOMAIN tree, NEW score, score = ParentSimilarityScore
    PROVE  /\ score[<<l, m>>] \in Nat /\ score[<<l, l>>] \in Nat /\ score[<<m, m>>] \in Nat
           /\ score[<<l, m>>] <= score[<<l, l>>] /\ score[<<l, m>>] <= score[<<m, m>>]
<1> DEFINE top == Len(tree)
           D == Places(top, top)
           up(n) == tree[n].parent
<1>1. top \in Nat /\ DOMAIN tree = 1 .. top
    BY TreeNodesAreNumbers
<1>2. ASSUME NEW n \in 0 .. top, n # 0
      PROVE  up(n) \in 0 .. top /\ up(n) \in Nat /\ n \in Nat /\ up(n) < n
    <2>1. n \in DOMAIN tree
        BY <1>1, <1>2
    <2>2. up(n) \in 0 .. n - 1
        BY <2>1 DEF WellFormedTree
    <2> HIDE DEF top, up
    <2> QED
        BY <1>1, <2>2
<1>3. \A p \in D : score[p] = IF p[1] = 0 \/ p[2] = 0 THEN 0
                              ELSE IF tree[p[1]].class # tree[p[2]].class THEN 0
                              ELSE 1 + score[<<up(p[1]), up(p[2])>>]
    BY ScoreUnfolds DEF IsScore
<1> HIDE DEF top, up
<1>4. ASSUME NEW n \in 0 .. top, NEW o \in 0 .. top
      PROVE  score[<<n, o>>] = IF n = 0 \/ o = 0 THEN 0
                               ELSE IF tree[n].class # tree[o].class THEN 0
                               ELSE 1 + score[<<up(n), up(o)>>]
    <2>1. <<n, o>> \in D
        BY DEF Places
    <2> QED
        BY <1>3, <2>1
<1> HIDE DEF D
<1> DEFINE N == 0 .. top
           rank == [n \in N |-> n]
           Numbers == {n \in N : \A o \in N : score[<<n, o>>] \in Nat}
           First == {n \in N : \A o \in N : score[<<n, o>>] <= score[<<n, n>>]}
           Second == {n \in N : \A o \in N : score[<<o, n>>] <= score[<<n, n>>]}
<1>5. rank \in [N -> Nat]
    BY <1>1
<1>6. N \subseteq Numbers
    <2>1. ASSUME NEW n \in N, \A q \in N : rank[q] < rank[n] => q \in Numbers
          PROVE  n \in Numbers
        <3>1. ASSUME NEW o \in N PROVE score[<<n, o>>] \in Nat
            <4>1. CASE n = 0 \/ o = 0 \/ tree[n].class # tree[o].class
                <5>1. score[<<n, o>>] = 0
                    BY <1>4, <4>1
                <5> QED
                    BY <5>1
            <4>2. CASE n # 0 /\ o # 0 /\ tree[n].class = tree[o].class
                <5>1. up(n) \in N /\ rank[up(n)] < rank[n] /\ up(o) \in N
                    BY <1>2, <4>2
                <5>2. score[<<up(n), up(o)>>] \in Nat
                    BY <2>1, <5>1
                <5>3. score[<<n, o>>] = 1 + score[<<up(n), up(o)>>]
                    BY <1>4, <4>2
                <5> QED
                    BY <5>2, <5>3
            <4> QED
                BY <4>1, <4>2
        <3> QED
            BY <3>1
    <2> HIDE DEF Numbers, rank, N
    <2> QED
        BY <1>5, <2>1, InductionByRank
<1>7. N \subseteq First
    <2>1. ASSUME NEW n \in N, \A q \in N : rank[q] < rank[n] => q \in First
          PROVE  n \in First
        <3>1. ASSUME NEW o \in N PROVE score[<<n, o>>] <= score[<<n, n>>]
            <4>1. score[<<n, n>>] \in Nat /\ score[<<n, o>>] \in Nat
                BY <1>6
            <4>2. CASE n = 0 \/ o = 0 \/ tree[n].class # tree[o].class
                <5>1. score[<<n, o>>] = 0
                    BY <1>4, <4>2
                <5> QED
                    BY <4>1, <5>1
            <4>3. CASE n # 0 /\ o # 0 /\ tree[n].class = tree[o].class
                <5>1. up(n) \in N /\ rank[up(n)] < rank[n] /\ up(o) \in N
                    BY <1>2, <4>3
                <5> DEFINE x == score[<<up(n), up(o)>>]
                           y == score[<<up(n), up(n)>>]
                <5>2. x <= y /\ x \in Nat /\ y \in Nat
                    BY <1>6, <2>1, <5>1
                <5>3. score[<<n, o>>] = 1 + x /\ score[<<n, n>>] = 1 + y
                    BY <1>4, <4>3
                <5> HIDE DEF x, y
                <5> QED
                    BY <5>2, <5>3
            <4> QED
                BY <4>2, <4>3
        <3> QED
            BY <3>1
    <2> HIDE DEF First, rank, N
    <2> QED
        BY <1>5, <2>1, InductionByRank
<1>8. N \subseteq Second
    <2>1. ASSUME NEW n \in N, \A q \in N : rank[q] < rank[n] => q \in Second
          PROVE  n \in Second
        <3>1. ASSUME NEW o \in N PROVE score[<<o, n>>] <= score[<<n, n>>]
            <4>1. score[<<n, n>>] \in Nat /\ score[<<o, n>>] \in Nat
                BY <1>6
            <4>2. CASE n = 0 \/ o = 0 \/ tree[n].class # tree[o].class
                <5>1. score[<<o, n>>] = 0
                    BY <1>4, <4>2
                <5> QED
                    BY <4>1, <5>1
            <4>3. CASE n # 0 /\ o # 0 /\ tree[n].class = tree[o].class
                <5>1. up(n) \in N /\ rank[up(n)] < rank[n] /\ up(o) \in N
                    BY <1>2, <4>3
                <5> DEFINE x == score[<<up(o), up(n)>>]
                           y == score[<<up(n), up(n)>>]
                <5>2. x <= y /\ x \in Nat /\ y \in Nat
                    BY <1>6, <2>1, <5>1
                <5>3. score[<<o, n>>] = 1 + x /\ score[<<n, n>>] = 1 + y
                    BY <1>4, <4>3
                <5> HIDE DEF x, y
                <5> QED
                    BY <5>2, <5>3
            <4> QED
                BY <4>2, <4>3
        <3> QED
            BY <3>1
    <2> HIDE DEF Second, rank, N
    <2> QED
        BY <1>5, <2>1, InductionByRank
<1>9. l \in N /\ m \in N
    BY <1>1
<1> QED
    BY <1>6, <1>7, <1>8, <1>9

(* The two trees are one, down to how its leaves read.                     *)
Twins ==
    /\ in.src = in.tgt
    /\ \A n \in Source : IsIdentical(n, n)
    /\ \A l \in Leaves(in.src, 1) : in.dice[<<l, l>>] = 10

(* Every leaf is matched to itself: of those that are not, the first one   *)
(* listed would have lost to one listed before it.                         *)
LEMMA LeavesFindThemselves ==
    ASSUME IInv, Twins, NEW taken, IsInjective(taken),
           \A p \in Candidates : Decided(p, taken)
    PROVE  \A l \in Leaves(in.src, 1) : l \in DOMAIN taken /\ taken[l] = l
<1> DEFINE tree == in.src
           L == Leaves(tree, 1)
           B == {l \in L : ~ (l \in DOMAIN taken /\ taken[l] = l)}
<1>1. WellFormedTree(tree) /\ tree = in.tgt /\ L \subseteq DOMAIN tree
    BY DEF IInv, TypeOK, WellFormed, Twins, Leaves
<1>2. \A p \in Candidates : p \in L \X L
    BY <1>1 DEF Candidates
<1>3. \A p \in L \X L : in.dice[p] \in 0 .. 10
    <2>1. in.dice \in [(DOMAIN in.src) \X (DOMAIN in.tgt) -> 0 .. 10]
        BY DEF IInv, TypeOK, WellFormed
    <2> QED
        BY <1>1, <2>1
<1>4. \A l \in L : in.dice[<<l, l>>] = 10 /\ <<l, l>> \in Candidates
    <2>1. \A l \in L : in.dice[<<l, l>>] = 10
        BY DEF Twins
    <2>2. Leaves(in.tgt, 1) = L
        BY <1>1
    <2>3. \A l \in L : IsSameType(l, l)
        BY <1>1 DEF IsSameType
    <2>4. 10 >= F
        BY DEF F
    <2>5. \A l \in L : <<l, l>> \in Candidates
        BY <2>1, <2>2, <2>3, <2>4 DEF Candidates
    <2> QED
        BY <2>1, <2>5
<1>5. ASSUME NEW l \in L, NEW a \in L, NEW b \in L, Less(<<a, b>>, <<l, l>>), a = l \/ b = l
      PROVE  ListedBefore(tree, a, l) \/ ListedBefore(tree, b, l)
    <2> DEFINE score == ParentSimilarityScore
    <2>1. ~ (in.dice[<<a, b>>] > in.dice[<<l, l>>])
        <3>1. in.dice[<<a, b>>] \in 0 .. 10 /\ in.dice[<<l, l>>] = 10
            BY <1>3, <1>4
        <3> QED
            BY <3>1
    <2>2. ~ (score[<<a, b>>] > score[<<l, l>>])
        <3> HIDE DEF tree, score
        <3>1. /\ score[<<a, b>>] \in Nat /\ score[<<a, a>>] \in Nat /\ score[<<b, b>>] \in Nat
              /\ score[<<a, b>>] <= score[<<a, a>>] /\ score[<<a, b>>] <= score[<<b, b>>]
            BY <1>1, OwnScoreIsBest DEF score, tree
        <3>2. /\ score[<<a, b>>] \in Nat /\ score[<<l, l>>] \in Nat
              /\ score[<<a, b>>] <= score[<<l, l>>]
            BY <1>5, <3>1
        <3> QED
            BY <3>2
    <2>3. PushedBefore(<<a, b>>, <<l, l>>)
        BY <1>5, <2>1, <2>2 DEF Less
    <2> QED
        BY <1>1, <2>3 DEF PushedBefore
<1> SUFFICES ASSUME B # {} PROVE FALSE
    OBVIOUS
<1> HIDE DEF tree, L
<1>6. PICK l \in B : \A m \in B : ~ ListedBefore(tree, m, l)
    BY <1>1, FirstListed
<1>7. ~ ListedBefore(tree, l, l)
    BY <1>1, ListedOnce
<1>8. PICK q \in Candidates :
        /\ Less(q, <<l, l>>)
        /\ q[1] \in DOMAIN taken /\ taken[q[1]] = q[2]
        /\ q[1] = l \/ q[2] = l
    BY <1>4 DEF Decided
<1>9. PICK a \in L, b \in L : q = <<a, b>>
    BY <1>2
<1>10. a \in DOMAIN taken /\ taken[a] = b /\ (a = l \/ b = l) /\ Less(<<a, b>>, <<l, l>>)
    BY <1>8, <1>9
<1>11. ListedBefore(tree, a, l) \/ ListedBefore(tree, b, l)
    BY <1>5, <1>10
<1>12. CASE a = l
    <2>1. b # l /\ ListedBefore(tree, b, l)
        BY <1>7, <1>10, <1>11, <1>12
    <2>2. ~ (b \in DOMAIN taken /\ taken[b] = b)
        BY <1>10, <1>12, <2>1 DEF IsInjective
    <2> QED
        BY <1>6, <2>1, <2>2
<1>13. CASE a # l
    <2>1. b = l /\ ListedBefore(tree, a, l)
        BY <1>7, <1>10, <1>11, <1>13
    <2>2. taken[a] # a
        BY <1>10, <1>13, <2>1
    <2> QED
        BY <1>6, <2>1, <2>2
<1> QED
    BY <1>12, <1>13

(* A node's children are listed by rank, and come after it.                *)
LEMMA KidsListed ==
    ASSUME NEW tree, WellFormedTree(tree), NEW n
    PROVE  LET K == Kids(tree, n)
               o == ExpressionOnlyArgs(tree, n)
           IN  /\ K \subseteq Nat /\ IsFiniteSet(K) /\ K \subseteq DOMAIN tree
               /\ o = InOrder(K) /\ Len(o) = Cardinality(K) /\ Len(o) \in Nat
               /\ \A k \in 1 .. Len(o) :
                    /\ o[k] \in K /\ Rank(K, o[k]) = k
                    /\ o[k] \in DOMAIN tree /\ tree[o[k]].parent = n
               /\ \A c \in K : \E k \in 1 .. Len(o) : o[k] = c
<1> DEFINE K == Kids(tree, n)
           o == ExpressionOnlyArgs(tree, n)
<1>1. K \subseteq Nat /\ IsFiniteSet(K) /\ K \in SUBSET DOMAIN tree
    <2>1. K \in SUBSET DOMAIN tree
        BY DEF Kids
    <2>2. IsFiniteSet(DOMAIN tree) /\ DOMAIN tree \subseteq Nat
        BY TreeNodesAreNumbers, FS_Interval
    <2> HIDE DEF K
    <2> QED
        BY <2>1, <2>2, FS_Subset
<1>2. o = InOrder(K)
    BY DEF ExpressionOnlyArgs
<1>3. \A c \in K : c \in DOMAIN tree /\ tree[c].parent = n
    BY DEF Kids
<1> HIDE DEF K, o
<1>4. /\ Len(o) = Cardinality(K) /\ Len(o) \in Nat /\ DOMAIN o = 1 .. Len(o)
      /\ \A k \in DOMAIN o : o[k] \in K
      /\ \A c \in K : \E k \in DOMAIN o : o[k] = c
    BY <1>1, <1>2, Ordered
<1>5. ASSUME NEW k \in 1 .. Len(o) PROVE Rank(K, o[k]) = k
    <2>1. k \in 1 .. Cardinality(K)
        BY <1>4
    <2>2. o[k] = CHOOSE c \in K : Rank(K, c) = k
        BY <1>2, <2>1 DEF InOrder, Rank
    <2>3. \E c \in K : Rank(K, c) = k
        BY <1>1, <2>1, Ranks
    <2> QED
        BY <2>2, <2>3
<1> QED
    BY <1>1, <1>2, <1>3, <1>4, <1>5 DEF K, o

LEMMA ParentsAreEarlier ==
    ASSUME NEW tree, WellFormedTree(tree), NEW n \in DOMAIN tree
    PROVE  tree[n].parent < n
<1> DEFINE p == tree[n].parent
<1>1. n \in Nat /\ n # 0 /\ p \in 0 .. n - 1
    BY TreeNodesAreNumbers DEF WellFormedTree
<1> HIDE DEF p
<1>2. p < n
    BY <1>1
<1> QED
    BY <1>2 DEF p

(* What Expression.Equal finds from what it finds of the children.         *)
EqualStep(f, src, tgt, p) ==
    LET xs == ExpressionOnlyArgs(src, p[1])
        ys == ExpressionOnlyArgs(tgt, p[2])
    IN  /\ src[p[1]].class = tgt[p[2]].class /\ src[p[1]].variant = tgt[p[2]].variant
        /\ src[p[1]].value = tgt[p[2]].value /\ src[p[1]].name = tgt[p[2]].name
        /\ Len(xs) = Len(ys)
        /\ \A k \in 1 .. Len(xs) : f[<<xs[k], ys[k]>>]

IsEquality(f, src, tgt) ==
    f = [p \in (DOMAIN src) \X (DOMAIN tgt) |-> EqualStep(f, src, tgt, p)]

LEMMA EqualUnfolds ==
    ASSUME NEW src, NEW tgt, WellFormedTree(src), WellFormedTree(tgt),
           src = in.src, tgt = in.tgt
    PROVE  IsEquality(EqualNodes, src, tgt)
<1> DEFINE a == Len(src)
           b == Len(tgt)
           D == (DOMAIN src) \X (DOMAIN tgt)
           V == BOOLEAN
           Fill == [f \in [D -> V] |-> [p \in D |-> EqualStep(f, src, tgt, p)]]
           rank == [p \in D |-> (a - p[1]) + (b - p[2])]
           top == a + b + 1
<1>1. a \in Nat /\ DOMAIN src = 1 .. a /\ b \in Nat /\ DOMAIN tgt = 1 .. b
    BY TreeNodesAreNumbers
<1> HIDE DEF a, b
<1>2. rank \in [D -> Nat] /\ top \in Nat /\ \A p \in D : rank[p] < top
    BY <1>1
<1>3. ASSUME NEW p \in D, NEW q \in D, p[1] < q[1], p[2] < q[2] PROVE rank[q] < rank[p]
    BY <1>1, <1>3
<1>4. ASSUME NEW f \in [D -> V], NEW p \in D PROVE EqualStep(f, src, tgt, p) \in V
    BY DEF EqualStep
<1>5. ASSUME NEW f \in [D -> V], NEW g \in [D -> V], NEW p \in D,
             \A q \in D : rank[q] < rank[p] => f[q] = g[q]
      PROVE  Fill[f][p] = Fill[g][p]
    <2> DEFINE xs == ExpressionOnlyArgs(src, p[1])
               ys == ExpressionOnlyArgs(tgt, p[2])
    <2>1. p[1] \in DOMAIN src /\ p[2] \in DOMAIN tgt
        OBVIOUS
    <2>2. ASSUME NEW k \in 1 .. Len(xs), Len(xs) = Len(ys)
          PROVE  f[<<xs[k], ys[k]>>] = g[<<xs[k], ys[k]>>]
        <3>1. /\ xs[k] \in DOMAIN src /\ src[xs[k]].parent = p[1]
              /\ ys[k] \in DOMAIN tgt /\ tgt[ys[k]].parent = p[2]
            BY <2>2, KidsListed
        <3>2. \A n \in DOMAIN src : src[n].parent < n
            BY ParentsAreEarlier
        <3>3. \A n \in DOMAIN tgt : tgt[n].parent < n
            BY ParentsAreEarlier
        <3> HIDE DEF xs, ys
        <3>4. p[1] < xs[k] /\ p[2] < ys[k]
            BY <3>1, <3>2, <3>3
        <3> DEFINE q == <<xs[k], ys[k]>>
        <3>5. q \in D /\ q[1] = xs[k] /\ q[2] = ys[k]
            BY <3>1
        <3> HIDE DEF q, D, rank
        <3>6. rank[q] < rank[p]
            BY <1>3, <3>4, <3>5
        <3> QED
            BY <1>5, <3>5, <3>6 DEF q
    <2>3. EqualStep(f, src, tgt, p) <=> EqualStep(g, src, tgt, p)
        BY <2>2 DEF EqualStep
    <2>4. EqualStep(f, src, tgt, p) = EqualStep(g, src, tgt, p)
        <3>1. EqualStep(f, src, tgt, p) \in BOOLEAN /\ EqualStep(g, src, tgt, p) \in BOOLEAN
            BY <1>4
        <3>2. \A x, y \in BOOLEAN : (x <=> y) => x = y
            OBVIOUS
        <3> QED
            BY <2>3, <3>1, <3>2, Zenon
    <2> HIDE DEF D, V
    <2> QED
        BY <2>4
<1>6. Fill \in [[D -> V] -> [D -> V]] /\ [D -> V] # {}
    <2>1. [p \in D |-> TRUE] \in [D -> V]
        OBVIOUS
    <2> HIDE DEF V, D
    <2> QED
        BY <1>4, <2>1
<1>7. PICK f \in [D -> V] : Fill[f] = f
    <2> HIDE DEF Fill, V, rank, top, D
    <2>1. IsRecursion(Fill, D, V, rank, top)
        BY <1>2, <1>5, <1>6 DEF IsRecursion
    <2> QED
        BY <2>1, RecursionHasTable DEF HasTable
<1>8. \E g : IsEquality(g, src, tgt)
    BY <1>7 DEF IsEquality
<1> DEFINE h == CHOOSE g : IsEquality(g, src, tgt)
<1>9. IsEquality(h, src, tgt)
    BY <1>8
<1>10. EqualNodes = h
    BY DEF EqualNodes, IsEquality, EqualStep
<1> HIDE DEF h
<1> QED
    BY <1>9, <1>10

(* Two trees agree before c: the parent of c in one has a child as late in *)
(* the other, if it has as many children there.                            *)
LEMMA KidsReach ==
    ASSUME NEW s, NEW t, WellFormedTree(s), WellFormedTree(t),
           NEW c \in DOMAIN s, c # 1, c - 1 \in DOMAIN t,
           \A b \in 1 .. (c - 1) : s[b].parent = t[b].parent,
           NEW p, p = s[c].parent, Cardinality(Kids(s, p)) = Cardinality(Kids(t, p))
    PROVE  c \in DOMAIN t /\ t[c].parent <= p
<1>1. /\ IsFiniteSet(Kids(s, p)) /\ Kids(s, p) \subseteq Nat
      /\ IsFiniteSet(Kids(t, p)) /\ Kids(t, p) \subseteq Nat
    BY KidsListed
<1> DEFINE a == Len(s)
           b == Len(t)
<1>2. /\ a \in Nat /\ DOMAIN s = 1 .. a /\ b \in Nat /\ DOMAIN t = 1 .. b
      /\ c \in Nat /\ c # 0 /\ p \in Nat
    BY TreeNodesAreNumbers
<1> HIDE DEF a, b
<1>3. PICK d \in Kids(t, p) : c <= d
    <2> SUFFICES ASSUME \A d \in Kids(t, p) : ~ (c <= d) PROVE FALSE
        OBVIOUS
    <2>1. c \in Kids(s, p) /\ c \notin Kids(t, p)
        BY <1>2 DEF Kids
    <2>2. ASSUME NEW d \in Kids(t, p) PROVE d \in Kids(s, p)
        <3>1. d \in DOMAIN t /\ t[d].parent = p /\ d \in Nat /\ ~ (c <= d)
            BY <1>1, <2>2 DEF Kids
        <3>2. d \in 1 .. (c - 1) /\ d \in DOMAIN s
            BY <1>2, <3>1
        <3> QED
            BY <3>1, <3>2 DEF Kids
    <2>3. Kids(t, p) \in SUBSET Kids(s, p) /\ Kids(t, p) # Kids(s, p)
        BY <2>1, <2>2
    <2> QED
        BY <1>1, <2>3, FS_Subset
<1>4. d \in DOMAIN t /\ t[d].parent = p
    BY DEF Kids
<1>5. c \in DOMAIN t
    BY <1>2, <1>3, <1>4
<1>6. CASE c = d
    BY <1>2, <1>4, <1>5, <1>6
<1>7. CASE c # d
    <2>1. c < d
        BY <1>2, <1>3, <1>4, <1>7
    <2> QED
        BY <1>4, <1>5, <2>1 DEF WellFormedTree
<1> QED
    BY <1>6, <1>7

(* What Equal's answer at two nodes says of them.                          *)
LEMMA EqualSays ==
    ASSUME NEW s, NEW t, WellFormedTree(s), WellFormedTree(t), s = in.src, t = in.tgt,
           NEW m \in DOMAIN s, NEW n \in DOMAIN t, IsIdentical(m, n)
    PROVE  /\ s[m].class = t[n].class /\ s[m].variant = t[n].variant
           /\ s[m].value = t[n].value /\ s[m].name = t[n].name
           /\ Cardinality(Kids(s, m)) = Cardinality(Kids(t, n))
           /\ \A k \in 1 .. Cardinality(Kids(s, m)) :
                IsIdentical(InOrder(Kids(s, m))[k], InOrder(Kids(t, n))[k])
<1>1. IsEquality(EqualNodes, s, t)
    BY EqualUnfolds
<1> DEFINE eq == EqualNodes
<1> HIDE DEF eq
<1>2. eq = [p \in (DOMAIN s) \X (DOMAIN t) |-> EqualStep(eq, s, t, p)]
    BY <1>1 DEF IsEquality, eq
<1>3. eq[<<m, n>>] = EqualStep(eq, s, t, <<m, n>>)
    BY <1>2
<1>4. EqualStep(eq, s, t, <<m, n>>)
    BY <1>3 DEF IsIdentical, eq
<1>5. /\ ExpressionOnlyArgs(s, m) = InOrder(Kids(s, m))
      /\ Len(InOrder(Kids(s, m))) = Cardinality(Kids(s, m))
      /\ ExpressionOnlyArgs(t, n) = InOrder(Kids(t, n))
      /\ Len(InOrder(Kids(t, n))) = Cardinality(Kids(t, n))
    BY KidsListed
<1> QED
    BY <1>4, <1>5 DEF EqualStep, IsIdentical, eq

(* Equal trees in breadth-first order are one tree, and each of its nodes  *)
(* equals itself: the first position at which they differ would have its   *)
(* parent before it in both, with as many children.                        *)
LEMMA EqualTreesAreOne ==
    ASSUME WellFormed(in), IsIdentical(1, 1)
    PROVE  in.src = in.tgt /\ \A n \in DOMAIN in.src : IsIdentical(n, n)
<1> DEFINE s == in.src
           t == in.tgt
           a == Len(s)
           b == Len(t)
           D == (DOMAIN s) \cup (DOMAIN t)
           rank == [n \in D |-> n]
           Good == {n \in D : /\ n \in DOMAIN s /\ n \in DOMAIN t
                              /\ s[n].parent = t[n].parent /\ IsIdentical(n, n)}
<1>1. WellFormedTree(s) /\ WellFormedTree(t)
    BY DEF WellFormed
<1> HIDE DEF s, t
<1>2. /\ a \in Nat /\ a # 0 /\ DOMAIN s = 1 .. a
      /\ b \in Nat /\ b # 0 /\ DOMAIN t = 1 .. b
    BY <1>1, TreeNodesAreNumbers
<1> HIDE DEF a, b
<1>3. \A n \in D : n \in Nat /\ n # 0
    BY <1>2
<1>4. ASSUME NEW c \in D, \A q \in D : rank[q] < rank[c] => q \in Good
      PROVE  c \in Good
    <2>1. CASE c = 1
        <3>1. 1 \in DOMAIN s /\ 1 \in DOMAIN t
            BY <1>2
        <3>2. s[1].parent = 0 /\ t[1].parent = 0
            BY <1>1, <3>1 DEF WellFormedTree
        <3> QED
            BY <2>1, <3>1, <3>2
    <2>2. CASE c # 1
        <3>1. c - 1 \in D /\ \A q \in 1 .. (c - 1) : q \in D /\ q < c
            BY <1>2, <2>2
        <3>2. \A q \in D : q < c => q \in Good
            BY <1>4
        <3>3. /\ c - 1 \in DOMAIN s /\ c - 1 \in DOMAIN t
              /\ \A q \in 1 .. (c - 1) : s[q].parent = t[q].parent
            <4>1. c - 1 < c
                BY <1>3
            <4> QED
                BY <3>1, <3>2, <4>1
        <3>4. ASSUME c \in DOMAIN s
              PROVE  /\ c \in DOMAIN t /\ t[c].parent <= s[c].parent
                     /\ IsIdentical(s[c].parent, s[c].parent)
            <4> DEFINE p == s[c].parent
            <4>1. p \in DOMAIN s /\ p < c
                BY <1>1, <2>2, <3>4, TreeNodesAreNumbers
            <4>2. p \in Good
                BY <3>2, <4>1
            <4>3. Cardinality(Kids(s, p)) = Cardinality(Kids(t, p))
                BY <1>1, <4>2, EqualSays DEF s, t
            <4> QED
                BY <1>1, <2>2, <3>3, <3>4, <4>2, <4>3, KidsReach
        <3>5. ASSUME c \in DOMAIN t
              PROVE  /\ c \in DOMAIN s /\ s[c].parent <= t[c].parent
            <4> DEFINE p == t[c].parent
            <4>1. p \in DOMAIN t /\ p < c
                BY <1>1, <2>2, <3>5, TreeNodesAreNumbers
            <4>2. p \in Good
                BY <3>2, <4>1
            <4>3. Cardinality(Kids(s, p)) = Cardinality(Kids(t, p))
                BY <1>1, <4>2, EqualSays DEF s, t
            <4> QED
                BY <1>1, <2>2, <3>3, <3>5, <4>2, <4>3, KidsReach
        <3>6. c \in DOMAIN s /\ c \in DOMAIN t
            BY <3>4, <3>5
        <3> DEFINE p == s[c].parent
        <3>7. p = t[c].parent
            <4>1. s[c].parent \in Nat /\ t[c].parent \in Nat
                BY <1>1, <3>6, TreeNodesAreNumbers
            <4>2. t[c].parent <= s[c].parent /\ s[c].parent <= t[c].parent
                BY <3>4, <3>5, <3>6
            <4> QED
                BY <4>1, <4>2
        <3>8. IsIdentical(p, p) /\ p \in DOMAIN s /\ p \in DOMAIN t
            <4>1. p \in DOMAIN s /\ p \in DOMAIN t
                BY <1>1, <2>2, <3>6, <3>7, TreeNodesAreNumbers
            <4> QED
                BY <3>4, <3>6, <4>1
        <3> DEFINE K == Kids(s, p)
                   J == Kids(t, p)
        <3>9. /\ Cardinality(K) = Cardinality(J)
              /\ \A k \in 1 .. Cardinality(K) : IsIdentical(InOrder(K)[k], InOrder(J)[k])
            BY <1>1, <3>8, EqualSays DEF s, t
        <3>10. c \in K /\ c \in J
            BY <3>6, <3>7 DEF Kids
        <3>11. Rank(K, c) = Rank(J, c)
            <4>1. ASSUME NEW m \in K, m <= c PROVE m \in J
                <5>1. m \in DOMAIN s /\ s[m].parent = p /\ m \in Nat /\ m # 0
                    BY <1>3 DEF Kids
                <5>2. m = c \/ m \in 1 .. (c - 1)
                    BY <1>3, <4>1, <5>1
                <5>3. CASE m \in 1 .. (c - 1)
                    <6>1. m \in Good
                        BY <3>1, <3>2, <5>3
                    <6> QED
                        BY <5>1, <6>1 DEF Kids
                <5> QED
                    BY <3>10, <5>2, <5>3
            <4>2. ASSUME NEW m \in J, m <= c PROVE m \in K
                <5>1. m \in DOMAIN t /\ t[m].parent = p /\ m \in Nat /\ m # 0
                    BY <1>3 DEF Kids
                <5>2. m = c \/ m \in 1 .. (c - 1)
                    BY <1>3, <4>2, <5>1
                <5>3. CASE m \in 1 .. (c - 1)
                    <6>1. m \in Good
                        BY <3>1, <3>2, <5>3
                    <6> QED
                        BY <5>1, <6>1 DEF Kids
                <5> QED
                    BY <3>10, <5>2, <5>3
            <4>3. {m \in K : m <= c} = {m \in J : m <= c}
                BY <4>1, <4>2
            <4> QED
                BY <4>3 DEF Rank
        <3> HIDE DEF K, J, p
        <3>12. PICK k \in 1 .. Cardinality(K) : InOrder(K)[k] = c /\ Rank(K, c) = k
            BY <1>1, <3>10, KidsListed DEF K
        <3>13. InOrder(J)[k] = c
            <4> DEFINE d == InOrder(J)[k]
            <4>1. d \in J /\ Rank(J, d) = k /\ J \subseteq Nat /\ IsFiniteSet(J)
                BY <1>1, <3>9, <3>12, KidsListed DEF J
            <4> HIDE DEF d
            <4>2. Rank(J, d) = Rank(J, c)
                BY <3>11, <3>12, <4>1
            <4>3. ~ (d < c) /\ ~ (c < d)
                BY <3>10, <4>1, <4>2, RankIsStrict
            <4>4. d \in Nat /\ c \in Nat
                BY <3>10, <4>1
            <4> QED
                BY <4>3, <4>4 DEF d
        <3>14. IsIdentical(c, c)
            BY <3>9, <3>12, <3>13
        <3> QED
            BY <3>6, <3>7, <3>14 DEF p
    <2> QED
        BY <2>1, <2>2
<1>5. D \subseteq Good
    <2>1. rank \in [D -> Nat]
        BY <1>3
    <2> HIDE DEF rank, Good, D
    <2> QED
        BY <1>4, <2>1, InductionByRank
<1>6. ASSUME NEW n \in DOMAIN s PROVE s[n] = t[n]
    <2>1. s \in Seq(TreeNodes) /\ t \in Seq(TreeNodes)
        BY <1>1 DEF WellFormedTree
    <2>2. s[n] \in TreeNodes /\ t[n] \in TreeNodes
        BY <1>5, <2>1
    <2>3. s[n].parent = t[n].parent
        BY <1>5
    <2>4. /\ s[n].class = t[n].class /\ s[n].variant = t[n].variant
          /\ s[n].value = t[n].value /\ s[n].name = t[n].name
        BY <1>1, <1>5, EqualSays DEF s, t
    <2> QED
        BY <2>2, <2>3, <2>4 DEF TreeNodes
<1>7. s = t
    <2>1. s \in Seq(TreeNodes) /\ t \in Seq(TreeNodes)
        BY <1>1 DEF WellFormedTree
    <2>2. DOMAIN s = DOMAIN t
        BY <1>5
    <2>3. s = [n \in DOMAIN s |-> s[n]] /\ t = [n \in DOMAIN t |-> t[n]]
        BY <2>1
    <2> QED
        BY <1>6, <2>2, <2>3
<1> QED
    BY <1>5, <1>7 DEF s, t

OnlyKeeps(E) == \A k \in DOMAIN E : E[k].kind = "Keep" /\ E[k].source = E[k].target

(* Twins are matched node by node: only leaves are compared by their text, *)
(* no target is skipped, and no node is left over.                         *)
TwinsInv ==
    Twins =>
        /\ stray.src = {} /\ stray.tgt = {}
        /\ pc \notin {"collect", "leaves"} =>
             /\ \A s \in DOMAIN matching : matching[s] = s
             /\ \A l \in Leaves(in.src, 1) : l \in DOMAIN leafPairs /\ leafPairs[l] = l
        /\ pc = "inner" => last = 0 /\ todo = unmatchedSource
        /\ pc \in {"script", "done"} => unmatchedSource = {} /\ OnlyKeeps(edits)

LEMMA TwinsStay == UNCHANGED in => (Twins' <=> Twins)
    BY DEF Twins, IsIdentical, EqualNodes, Source

LEMMA LeavesDoneTwins ==
    ASSUME IInv, TakenBestFirst, TwinsInv, LeavesDone
    PROVE  TwinsInv'
<1> SUFFICES ASSUME Twins
             PROVE  TwinsInv'
    BY TwinsStay DEF LeavesDone, TwinsInv
<1>1. /\ pc = "leaves" /\ candidates = {} /\ pc' = "inner" /\ last' = 0
      /\ UNCHANGED <<in, matching, unmatchedSource, stray>>
      /\ leafPairs' = matching /\ todo' = unmatchedSource
    BY DEF LeavesDone
<1>2. \A p \in Candidates : Decided(p, matching)
    BY <1>1 DEF TakenBestFirst
<1>3. \A l \in Leaves(in.src, 1) : l \in DOMAIN matching /\ matching[l] = l
    BY <1>2, LeavesFindThemselves DEF IInv, MatchingIsBijection
<1>4. ASSUME NEW s \in DOMAIN matching PROVE matching[s] = s
    <2>1. <<s, matching[s]>> \in Candidates
        BY <1>1 DEF TakenBestFirst
    <2>2. s \in Leaves(in.src, 1)
        BY <2>1 DEF Candidates
    <2> QED
        BY <1>3, <2>2
<1>5. \A l \in Leaves(in.src', 1) : l \in DOMAIN leafPairs' /\ leafPairs'[l] = l
    BY <1>1, <1>3
<1> QED
    BY <1>1, <1>4, <1>5 DEF TwinsInv

(* A node shares all its leaves with itself.                               *)
LEMMA OwnLeavesAreCommon ==
    ASSUME IInv, TwinsInv, Twins, pc = "inner", NEW s \in Source
    PROVE  Similar(s, s) /\ ~ Rendered(s, s)
<1> DEFINE L == Leaves(in.src, s)
<1>1. L = Leaves(in.tgt, s)
    BY DEF Twins
<1>2. \A l \in L : l \in Leaves(in.src, 1)
    <2>1. WellFormedTree(in.src)
        BY DEF IInv, TypeOK, WellFormed
    <2>2. \A l \in DOMAIN in.src : 1 \in Lineage(in.src)[l]
        BY <2>1, Lineages
    <2> QED
        BY <2>2 DEF Leaves
<1>3. {l \in L \cap DOMAIN leafPairs : leafPairs[l] \in L} = L
    BY <1>2 DEF TwinsInv
<1>4. Common(s, s) = Cardinality(L)
    BY <1>1, <1>3 DEF Common
<1>5. Cardinality(L) \in Nat
    <2>1. L \in SUBSET Source
        BY DEF Leaves, Source
    <2> HIDE DEF L
    <2> QED
        BY <2>1, NodesAreNumbers, FS_CardinalityType DEF IInv
<1>6. LeafSimilarity(s, s, Strong)
    <2> DEFINE c == Cardinality(L)
    <2>1. LeafSimilarity(s, s, Strong) <=> 10 * Common(s, s) >= Strong * Larger(c, c)
        BY <1>1 DEF LeafSimilarity
    <2> HIDE DEF c
    <2>2. c \in Nat /\ Common(s, s) = c /\ Larger(c, c) = c
        BY <1>4, <1>5 DEF c, Larger
    <2>3. 10 * c >= 8 * c
        BY <2>2
    <2> QED
        BY <2>1, <2>2, <2>3 DEF Strong
<1>7. IsSameType(s, s)
    BY DEF IsSameType, Twins
<1> QED
    BY <1>6, <1>7 DEF Similar, Rendered

(* The next target of a node is the node, and it is taken.                 *)
LEMMA InnerTwins ==
    ASSUME IInv, TwinsInv, NEW s \in todo,
           \/ NoPartner(s)
           \/ \E t \in unmatchedTarget : MatchInner(s, t) \/ SkipTarget(s, t)
    PROVE  TwinsInv'
<1> SUFFICES ASSUME Twins PROVE TwinsInv'
    BY TwinsStay DEF NoPartner, MatchInner, SkipTarget, TwinsInv
<1>1. /\ pc = "inner" /\ IsFirst(s, todo) /\ UNCHANGED in
      /\ last = 0 /\ todo = unmatchedSource
      /\ \A n \in DOMAIN matching : matching[n] = n
    BY DEF NoPartner, MatchInner, SkipTarget, TwinsInv
<1>2. unmatchedTarget = unmatchedSource
    <2>1. DOMAIN matching = Source \ unmatchedSource
        BY DEF IInv, MatchingIsBijection
    <2>2. Range(matching) = Target \ unmatchedTarget
        BY DEF IInv, MatchingIsBijection
    <2>3. Range(matching) = DOMAIN matching
        BY <1>1 DEF Range
    <2>4. Source = Target /\ unmatchedSource \subseteq Source /\ unmatchedTarget \subseteq Target
        BY DEF Source, Target, Twins, IInv, TypeOK
    <2> QED
        BY <2>1, <2>2, <2>3, <2>4
<1>3. /\ s \in Source /\ s \in Nat /\ s # 0
      /\ \A n \in unmatchedTarget : n \in Nat /\ n # 0
    <2>1. s \in Source /\ unmatchedTarget \subseteq Target
        BY DEF IInv, TypeOK
    <2> QED
        BY <2>1, NodesAreNumbers DEF IInv
<1>4. ASSUME NEW t \in unmatchedTarget, MatchInner(s, t) \/ SkipTarget(s, t)
      PROVE  t = s /\ MatchInner(s, t)
    <2>1. NextTarget(t)
        BY <1>4 DEF MatchInner, SkipTarget
    <2>2. \A n \in unmatchedTarget : n > last
        BY <1>1, <1>3
    <2>3. s \in unmatchedTarget /\ \A n \in unmatchedTarget : s <= n
        BY <1>1, <1>2 DEF IsFirst
    <2>4. \A n \in unmatchedTarget : t <= n
        BY <2>1, <2>2 DEF NextTarget, IsFirst
    <2>5. t <= s /\ s <= t
        BY <2>3, <2>4
    <2>6. t = s
        BY <1>3, <2>5
    <2>7. Similar(s, t)
        BY <1>1, <1>3, <2>6, OwnLeavesAreCommon
    <2> QED
        BY <1>4, <2>6, <2>7 DEF SkipTarget
<1>5. ~ NoPartner(s)
    <2>1. s \in unmatchedTarget /\ ~ (s <= last)
        BY <1>1, <1>2, <1>3
    <2> QED
        BY <2>1 DEF NoPartner
<1>6. s \in unmatchedTarget /\ MatchInner(s, s)
    BY <1>2, <1>4, <1>5
<1>7. /\ UNCHANGED <<in, pc, leafPairs>> /\ todo' = todo \ {s} /\ last' = 0
      /\ unmatchedSource' = unmatchedSource \ {s}
      /\ matching' = [n \in DOMAIN matching \cup {s} |-> IF n = s THEN s ELSE matching[n]]
    BY <1>6 DEF MatchInner, Pair
<1>8. UNCHANGED stray
    <2>1. ~ Rendered(s, s)
        BY <1>1, <1>3, OwnLeavesAreCommon
    <2> QED
        BY <1>6, <2>1 DEF MatchInner, Render
<1>9. \A n \in DOMAIN matching' : matching'[n] = n
    BY <1>1, <1>7
<1> QED
    BY <1>1, <1>7, <1>8, <1>9 DEF TwinsInv

(* Nothing is removed or inserted, and a pair of one node is kept.         *)
LEMMA ScriptTwins ==
    ASSUME IInv, ScriptInv, TwinsInv,
           ReportUnmatched \/ \E s \in todo : ReportMatched(s)
    PROVE  TwinsInv'
<1> SUFFICES ASSUME Twins PROVE TwinsInv'
    BY TwinsStay DEF ReportUnmatched, ReportMatched, TwinsInv
<1>1. CASE ReportUnmatched
    <2>1. /\ pc = "inner" /\ todo = {} /\ pc' = "script" /\ edits' = Unmatched
          /\ UNCHANGED <<in, matching, leafPairs, unmatchedSource, unmatchedTarget, stray>>
        BY <1>1 DEF ReportUnmatched
    <2>2. unmatchedSource = {} /\ \A s \in DOMAIN matching : matching[s] = s
        BY <2>1 DEF TwinsInv
    <2>3. unmatchedTarget = {}
        <3>1. DOMAIN matching = Source /\ Range(matching) = Target \ unmatchedTarget
            BY <2>2 DEF IInv, MatchingIsBijection
        <3>2. Range(matching) = DOMAIN matching
            BY <2>2 DEF Range
        <3>3. Source = Target /\ unmatchedTarget \subseteq Target
            BY DEF Source, Target, Twins, IInv, TypeOK
        <3> QED
            BY <3>1, <3>2, <3>3
    <2>4. OnlyKeeps(edits')
        <3>1. InOrder({}) = <<>>
            BY FS_EmptySet DEF InOrder
        <3>2. Len(InOrder({})) = 0
            BY <3>1
        <3>3. \A x : [k \in 1 .. 0 |-> x] = <<>>
            OBVIOUS
        <3>4. Unmatched = <<>> \o <<>>
            BY <2>2, <2>3, <3>2 DEF Unmatched
        <3> QED
            BY <2>1, <3>4 DEF OnlyKeeps
    <2> QED
        BY <2>1, <2>2, <2>4 DEF TwinsInv
<1>2. ASSUME NEW s \in todo, ReportMatched(s) PROVE TwinsInv'
    <2>1. /\ pc = "script" /\ edits' = edits \o Moves(s, matching[s]) \o Verdict(s, matching[s])
          /\ UNCHANGED <<in, pc, matching, leafPairs, unmatchedSource, stray>>
        BY <1>2 DEF ReportMatched
    <2>2. /\ edits \in Seq(Edits) /\ s \in DOMAIN matching /\ OnlyKeeps(edits)
          /\ unmatchedSource = {} /\ \A n \in DOMAIN matching : matching[n] = n
          /\ stray.src = {} /\ stray.tgt = {}
        BY <2>1 DEF ScriptInv, ScriptSoFar, TwinsInv
    <2>3. DOMAIN matching = Source /\ matching[s] = s /\ s \in Source
        BY <2>2 DEF IInv, MatchingIsBijection
    <2>4. IsIdentical(s, s)
        BY <2>3 DEF Twins
    <2>5. ParentsCorrespond(s, s)
        <3>1. s # 1 => in.src[s].parent \in Source
            BY <2>3, TreeNodesAreNumbers DEF IInv, TypeOK, WellFormed, Source
        <3>2. s # 1 => Partner(in.src[s].parent) = in.tgt[s].parent
            BY <2>2, <2>3, <3>1 DEF Partner, Twins
        <3> QED
            BY <2>2, <3>2 DEF ParentsCorrespond
    <2>6. Moves(s, s) = <<>>
        BY <2>4, <2>5 DEF Moves
    <2>7. Verdict(s, s) = <<>> \/ Verdict(s, s) = <<Edit("Keep", s, s)>>
        BY <2>4 DEF Verdict, Twins
    <2>8. Edit("Keep", s, s) \in Edits
        BY <2>3, NodesAreNumbers DEF Edit, Edits, IInv
    <2>9. \A v \in {<<>>, <<Edit("Keep", s, s)>>} : OnlyKeeps(edits \o <<>> \o v)
        <3>1. edits \o <<>> = edits
            BY <2>2
        <3>2. OnlyKeeps(edits \o <<>>)
            BY <2>2, <3>1
        <3> DEFINE e == Edit("Keep", s, s)
        <3>3. e.kind = "Keep" /\ e.source = e.target
            BY DEF Edit
        <3> HIDE DEF e
        <3>4. OnlyKeeps(edits \o <<e>>)
            <4>1. edits \o <<e>> = Append(edits, e)
                BY <2>2, <2>8 DEF e
            <4>2. ASSUME NEW k \in DOMAIN Append(edits, e)
                  PROVE  /\ Append(edits, e)[k].kind = "Keep"
                         /\ Append(edits, e)[k].source = Append(edits, e)[k].target
                <5>1. /\ k \in DOMAIN edits /\ Append(edits, e)[k] = edits[k]
                      \/ Append(edits, e)[k] = e
                    BY <2>2, <2>8 DEF e
                <5> QED
                    BY <2>2, <3>3, <5>1 DEF OnlyKeeps
            <4> QED
                BY <4>1, <4>2 DEF OnlyKeeps
        <3> QED
            BY <3>1, <3>2, <3>4 DEF e
    <2>10. OnlyKeeps(edits')
        BY <2>1, <2>3, <2>6, <2>7, <2>9
    <2> QED
        BY <2>1, <2>2, <2>10 DEF TwinsInv
<1> QED
    BY <1>1, <1>2

LEMMA TwinsStep == IInv /\ TakenBestFirst /\ ScriptInv /\ TwinsInv /\ [Next]_vars => TwinsInv'
<1> SUFFICES ASSUME IInv, TakenBestFirst, ScriptInv, TwinsInv, [Next]_vars PROVE TwinsInv'
    OBVIOUS
<1>1. CASE LeavesDone
    BY <1>1, LeavesDoneTwins
<1>2. ASSUME NEW s \in todo, NEW t \in unmatchedTarget, MatchInner(s, t) \/ SkipTarget(s, t)
      PROVE  TwinsInv'
    BY <1>2, InnerTwins
<1>3. ASSUME NEW s \in todo, NoPartner(s) PROVE TwinsInv'
    BY <1>3, InnerTwins
<1>4. CASE ReportUnmatched \/ \E s \in todo : ReportMatched(s)
    BY <1>4, ScriptTwins
<1>5. CASE Collect \/ PopCandidate
    <2>1. UNCHANGED <<in, stray>> /\ pc' = "leaves"
        BY <1>5 DEF Collect, PopCandidate
    <2> QED
        BY <2>1, TwinsStay DEF TwinsInv
<1>6. CASE Return
    <2>1. UNCHANGED <<in, stray, matching, leafPairs, unmatchedSource, edits>>
          /\ pc = "script" /\ pc' = "done"
        BY <1>6 DEF Return
    <2> QED
        BY <2>1, TwinsStay DEF TwinsInv
<1>7. CASE UNCHANGED vars
    BY <1>7, TwinsStay DEF vars, TwinsInv
<1> QED
    BY <1>1, <1>2, <1>3, <1>4, <1>5, <1>6, <1>7 DEF Next

(* Whatever the tree, and however alike its leaves: two equal trees whose  *)
(* leaves read the same have no delta (diff.go:306-520).                   *)
THEOREM NoDeltaOfEquals == Spec => []SelfDiffOnlyKeeps
<1>1. Init => TakenBestFirst /\ ScriptInv /\ TwinsInv
    BY DEF Init, TakenBestFirst, ScriptInv, TwinsInv
<1>2. IInv /\ TwinsInv => SelfDiffOnlyKeeps
    <2> SUFFICES ASSUME IInv, TwinsInv, pc = "done", IsIdentical(1, 1),
                        \A l \in Leaves(in.src, 1) : in.dice[<<l, l>>] = 10
                 PROVE  OnlyKeeps(edits)
        BY DEF SelfDiffOnlyKeeps, OnlyKeeps
    <2>1. Twins
        BY EqualTreesAreOne DEF Twins, Source, IInv, TypeOK
    <2> QED
        BY <2>1 DEF TwinsInv
<1> QED
    BY <1>1, <1>2, Invariance, BestFirstStep, ScriptStep, TwinsStep, PTL DEF Spec
=============================================================================
