----------------------- MODULE DialectConfig_proofs -----------------------
(***************************************************************************)
(* The racing lazy initialisation of DialectConfig is benign where stores  *)
(* are seen in order, for any number of goroutines and dialects and any    *)
(* keyword tables.                                                         *)
(***************************************************************************)
EXTENDS DialectConfig, TLAPS

(* A goroutine that is still inserting does so into a root nobody reaches. *)
BuildsPrivately ==
    \A g \in Goroutines : pc[g] = "build" => trie[dialect[g]] # g

PastTrieCheck ==
    \A g \in Goroutines :
        pc[g] \in {"checkTables", "storeTables"} => trie[dialect[g]] # NoTrie

IInv ==
    /\ TypeOK
    /\ BuildsPrivately
    /\ PublishedIsFrozen
    /\ PastTrieCheck
    /\ ReturnedConfigIsComplete
    /\ StoreOrder => ScansWithCompleteTrie

LEMMA InitInv == Init => IInv
BY ConstantsAssumption
   DEF Init, IInv, TypeOK, Names, Steps, BuildsPrivately, PublishedIsFrozen,
       PastTrieCheck, ReturnedConfigIsComplete, ScansWithCompleteTrie

LEMMA StepInv == IInv /\ [Next]_vars => IInv'
<1> SUFFICES ASSUME IInv, [Next]_vars PROVE IInv'
    OBVIOUS
<1> USE ConstantsAssumption
    DEF IInv, TypeOK, Names, Steps, BuildsPrivately, PublishedIsFrozen,
        PastTrieCheck, ReturnedConfigIsComplete, ScansWithCompleteTrie, Goto
<1>1. ASSUME NEW g \in Goroutines, Lookup(g) PROVE IInv'
    BY <1>1 DEF Lookup
<1>2. ASSUME NEW g \in Goroutines, CheckTrie(g) PROVE IInv'
    BY <1>2 DEF CheckTrie
<1>3. ASSUME NEW g \in Goroutines, Insert(g) PROVE IInv'
    BY <1>3 DEF Insert
<1>4. ASSUME NEW g \in Goroutines, Publish(g) PROVE IInv'
    BY <1>4 DEF Publish, Built
<1>5. ASSUME NEW g \in Goroutines, CheckTables(g) PROVE IInv'
    BY <1>5 DEF CheckTables
<1>6. ASSUME NEW g \in Goroutines, StoreTables(g) PROVE IInv'
    BY <1>6 DEF StoreTables
<1>7. ASSUME NEW g \in Goroutines, Scan(g) PROVE IInv'
    BY <1>7 DEF Scan, Visible
<1>8. ASSUME NEW g \in Goroutines, Again(g) PROVE IInv'
    BY <1>8 DEF Again
<1>9. CASE UNCHANGED vars
    BY <1>9 DEF vars
<1> QED
    BY <1>1, <1>2, <1>3, <1>4, <1>5, <1>6, <1>7, <1>8, <1>9 DEF Next, Step

THEOREM Invariance == Spec => []IInv
BY InitInv, StepInv, PTL DEF Spec

(* The maps of trie roots, of inserted spellings and of goroutines keep    *)
(* their shape: a root is published by a goroutine that allocated it, and  *)
(* holds spellings of its own dialect only (config.go:70, trie.go:21).     *)
THEOREM TypeCorrect == Spec => []TypeOK
<1>1. IInv => TypeOK
    BY DEF IInv
<1> QED
    BY <1>1, Invariance, PTL

(* A published trie is finished and stays as published, whoever races: the *)
(* claim config.go:86 rests on by assigning only what buildTrie returned.  *)
THEOREM FrozenTries == Spec => []PublishedIsFrozen
<1>1. IInv => PublishedIsFrozen
    BY DEF IInv
<1> QED
    BY <1>1, Invariance, PTL

(* ConfigFor never hands out an entry with a lazy field still nil.         *)
THEOREM CompleteConfigs == Spec => []ReturnedConfigIsComplete
<1>1. IInv => ReturnedConfigIsComplete
    BY DEF IInv
<1> QED
    BY <1>1, Invariance, PTL

(* Where a goroutine's stores are seen in order, each scan uses the whole  *)
(* keyword trie; the run without that hypothesis shows it is needed.       *)
THEOREM CompleteTries == Spec => [](StoreOrder => ScansWithCompleteTrie)
<1>1. IInv => (StoreOrder => ScansWithCompleteTrie)
    BY DEF IInv
<1> QED
    BY <1>1, Invariance, PTL
=============================================================================
