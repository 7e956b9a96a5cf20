------------------------- MODULE MCChangeDistiller -------------------------
(***************************************************************************)
(* Every pair of trees of up to MaxNodes nodes: a root, inner nodes of an  *)
(* updatable and of another class, leaves of an updatable class with two   *)
(* names, and leaves of another class with the names in AliasNames.        *)
(***************************************************************************)
EXTENDS ChangeDistiller

CONSTANTS MaxNodes, AliasNames, Rebuilding

InnerClasses == {"Alias", "StrToTime"}
Leafs == {<<"Column", "x">>, <<"Column", "y">>} \cup ({"TableAlias"} \X AliasNames)

(* Breadth-first positions: parents never decrease.                        *)
Shapes(n) ==
    {p \in [1 .. n -> 0 .. n - 1] :
        /\ \A k \in 1 .. n : p[k] < k /\ (p[k] = 0 <=> k = 1)
        /\ \A k \in 2 .. n : p[k - 1] <= p[k]}

Node(parent, class, value, name) ==
    [parent |-> parent, class |-> class, variant |-> "", value |-> value, name |-> name]

Nodes(shape, k) ==
    IF k = 1 /\ Len(shape) > 1 THEN {Node(0, "Select", "", "")}
    ELSE IF \E c \in DOMAIN shape : shape[c] = k
    THEN {Node(shape[k], c, "", "") : c \in InnerClasses}
    ELSE {Node(shape[k], l[1], "", l[2]) : l \in Leafs}

Trees ==
    UNION {UNION {{tree \in [1 .. n -> UNION {Nodes(shape, k) : k \in 1 .. n}] :
                      \A k \in 1 .. n : tree[k] \in Nodes(shape, k)}
                  : shape \in Shapes(n)} : n \in 1 .. MaxNodes}

(* Texts: equal subtrees read the same; leaves of another name are close   *)
(* or not as leafDice says, other subtrees as innerDice says.              *)
Same(src, tgt) ==
    LET kids(tree, n) == SelectSeq([c \in 1 .. Len(tree) |-> c],
                                   LAMBDA c : tree[c].parent = n)
        eq[p \in (DOMAIN src) \X (DOMAIN tgt)] ==
            LET as == kids(src, p[1])
                bs == kids(tgt, p[2])
            IN  /\ [src[p[1]] EXCEPT !.parent = 0] = [tgt[p[2]] EXCEPT !.parent = 0]
                /\ Len(as) = Len(bs)
                /\ \A k \in 1 .. Len(as) : eq[<<as[k], bs[k]>>]
    IN  eq

Dice(src, tgt, leafDice, innerDice) ==
    LET eq == Same(src, tgt)
    IN  [p \in (DOMAIN src) \X (DOMAIN tgt) |->
            IF eq[p] THEN 10
            ELSE IF \A c \in DOMAIN src : src[c].parent # p[1]
            THEN leafDice ELSE innerDice]

MCInstances ==
    {[src |-> src, tgt |-> tgt, dice |-> Dice(src, tgt, leafDice, innerDice),
      rebuilt |-> [src |-> IF Rebuilding
                           THEN {n \in DOMAIN src : src[n].class = "StrToTime"} ELSE {},
                   tgt |-> IF Rebuilding
                           THEN {n \in DOMAIN tgt : tgt[n].class = "StrToTime"} ELSE {}]] :
        src \in Trees, tgt \in Trees,
        <<leafDice, innerDice>> \in {<<5, 6>>, <<6, 5>>, <<6, 6>>}}
=============================================================================
