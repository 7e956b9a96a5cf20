--------------------------- MODULE GreedyMatching ---------------------------
(***************************************************************************)
(* What the matching of sqlglot/diff.go promises, whatever it compares: it *)
(* pairs elements of two sets one to one and takes no decision back.  The  *)
(* pairs that are offered are taken as long as one has both ends free;     *)
(* then any comparable pair may be taken; then the matching is settled.    *)
(***************************************************************************)
VARIABLES
    given,   \* [offered, comparable]: sets of pairs
    pairs,   \* the pairs taken
    phase

vars == <<given, pairs, phase>>

Free(p) == \A q \in pairs : q[1] # p[1] /\ q[2] # p[2]

Init ==
    /\ given.offered \subseteq given.comparable
    /\ pairs = {}
    /\ phase = "offered"

Take(p) ==
    /\ Free(p)
    /\ \/ phase = "offered" /\ p \in given.offered
       \/ phase = "others" /\ p \in given.comparable
    /\ pairs' = pairs \cup {p}
    /\ UNCHANGED <<given, phase>>

(* No offer is left that could be taken.                                   *)
EndOffers ==
    /\ phase = "offered"
    /\ \A p \in given.offered : ~Free(p)
    /\ phase' = "others"
    /\ UNCHANGED <<given, pairs>>

Settle ==
    /\ phase = "others"
    /\ phase' = "settled"
    /\ UNCHANGED <<given, pairs>>

Next ==
    \/ \E p \in given.comparable : Take(p)
    \/ EndOffers
    \/ Settle

Spec == Init /\ [][Next]_vars

=============================================================================
