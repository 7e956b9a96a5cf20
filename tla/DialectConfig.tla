--------------------------- MODULE DialectConfig ---------------------------
(***************************************************************************)
(* The lazily completed dialect configuration of sqlglot/config.go.        *)
(*                                                                         *)
(* dialectConfigs is a package-level map shared by every goroutine of the  *)
(* program.  ConfigFor fills two fields of an entry on first use: trie,    *)
(* built from the entry's keyword tables (trie.go), and Tables, taken from *)
(* parserTables.  There is no lock and no sync.Once.  NewTokenizer calls   *)
(* ConfigFor; Tokenize later reads c.trie in scanKeywords.                 *)
(*                                                                         *)
(* Every goroutine here follows the documented usage, "make one per        *)
(* goroutine": it owns its Tokenizer and shares nothing but the            *)
(* configuration.                                                          *)
(***************************************************************************)
EXTENDS Naturals, FiniteSets

CONSTANTS
    Goroutines,     \* the goroutines that tokenize
    Configured,     \* keys of dialectConfigs
    Unconfigured,   \* dialect names dialectConfigs lacks
    Keys,           \* keyword, comment, quote and format-string spellings
    Admitted,       \* Admitted[d]: the spellings buildTrie's admit accepts
    NoTrie,         \* the nil *trieNode
    StoreOrder      \* other goroutines see a goroutine's stores in its order

ASSUME ConstantsAssumption ==
    /\ Admitted \in [Configured -> SUBSET Keys]
    /\ NoTrie \notin Goroutines
    /\ StoreOrder \in BOOLEAN
    /\ Configured \cap Unconfigured = {}

VARIABLES
    trie,       \* trie[d]: c.trie, named by the goroutine that built it
    tables,     \* tables[d]: c.Tables is not nil
    node,       \* node[d][g]: the spellings inserted under the root g allocated
    pc,         \* the next shared access of each goroutine
    dialect,    \* the dialect each goroutine asked for
    seen        \* the spellings the last scan found in the trie it read

vars == <<trie, tables, node, pc, dialect, seen>>

Names == Configured \cup Unconfigured
Steps == {"idle", "checkTrie", "build", "checkTables", "storeTables",
          "scan", "done", "refused"}

TypeOK ==
    /\ trie \in [Configured -> Goroutines \cup {NoTrie}]
    /\ tables \in [Configured -> BOOLEAN]
    /\ node \in [Configured -> [Goroutines -> SUBSET Keys]]
    /\ pc \in [Goroutines -> Steps]
    /\ dialect \in [Goroutines -> Names]
    /\ seen \in [Goroutines -> SUBSET Keys]
    /\ \A g \in Goroutines :
         pc[g] \notin {"idle", "refused"} => dialect[g] \in Configured

Init ==
    /\ trie = [d \in Configured |-> NoTrie]
    /\ tables = [d \in Configured |-> FALSE]
    /\ node = [d \in Configured |-> [g \in Goroutines |-> {}]]
    /\ pc = [g \in Goroutines |-> "idle"]
    /\ dialect \in [Goroutines -> Names]
    /\ seen = [g \in Goroutines |-> {}]

Goto(g, step) == pc' = [pc EXCEPT ![g] = step]

(* Mutant of Lookup: the caller ignores ok.                                *)
LookupUnchecked(g) ==
    /\ pc[g] = "idle"
    /\ Goto(g, "checkTrie")
    /\ UNCHANGED <<trie, tables, node, dialect, seen>>

(* NewTokenizer(d): the map lookup of ConfigFor.                           *)
Lookup(g) ==
    /\ pc[g] = "idle"
    /\ Goto(g, IF dialect[g] \in Configured THEN "checkTrie" ELSE "refused")
    /\ UNCHANGED <<trie, tables, node, dialect, seen>>

(* Mutant of CheckTrie: a trie found is taken for a finished entry.        *)
CheckTrieOnly(g) ==
    /\ pc[g] = "checkTrie"
    /\ Goto(g, IF trie[dialect[g]] = NoTrie THEN "build" ELSE "scan")
    /\ UNCHANGED <<trie, tables, node, dialect, seen>>

(* Mutant of CheckTrie: spin while another goroutine is about to build.    *)
CheckTrieSpins(g) ==
    /\ pc[g] = "checkTrie"
    /\ IF \E h \in Goroutines \ {g} :
            dialect[h] = dialect[g] /\ pc[h] \in {"checkTrie", "build"}
       THEN UNCHANGED pc
       ELSE Goto(g, IF trie[dialect[g]] = NoTrie THEN "build" ELSE "checkTables")
    /\ UNCHANGED <<trie, tables, node, dialect, seen>>

(* if c.trie == nil { c.buildTrie() ...                                    *)
CheckTrie(g) ==
    /\ pc[g] = "checkTrie"
    /\ Goto(g, IF trie[dialect[g]] = NoTrie THEN "build" ELSE "checkTables")
    /\ UNCHANGED <<trie, tables, node, dialect, seen>>

(* root.insert(key): map iteration order is Go's, so any pending key.      *)
Insert(g) ==
    /\ pc[g] = "build"
    /\ \E key \in Admitted[dialect[g]] \ node[dialect[g]][g] :
         node' = [node EXCEPT ![dialect[g]][g] = @ \cup {key}]
    /\ UNCHANGED <<trie, tables, pc, dialect, seen>>

(* Mutant of Built: c.trie is assigned first and filled in place.          *)
BuiltEarly(g) == node[dialect[g]][g] # {} \/ Admitted[dialect[g]] = {}

(* buildTrie returns its root, and c.trie is assigned, once the loops over *)
(* Keywords, Comments, Quotes and FormatStrings have ended.                *)
Built(g) == node[dialect[g]][g] = Admitted[dialect[g]]

Publish(g) ==
    /\ pc[g] = "build"
    /\ Built(g)
    /\ trie' = [trie EXCEPT ![dialect[g]] = g]
    /\ Goto(g, "checkTables")
    /\ UNCHANGED <<tables, node, dialect, seen>>

CheckTables(g) ==
    /\ pc[g] = "checkTables"
    /\ Goto(g, IF tables[dialect[g]] THEN "scan" ELSE "storeTables")
    /\ UNCHANGED <<trie, tables, node, dialect, seen>>

StoreTables(g) ==
    /\ pc[g] = "storeTables"
    /\ tables' = [tables EXCEPT ![dialect[g]] = TRUE]
    /\ Goto(g, "scan")
    /\ UNCHANGED <<trie, node, dialect, seen>>

(* What a walk from the root c.trie points at may find.  The pointer is    *)
(* read with no synchronisation, so where stores may be reordered a trie   *)
(* of another goroutine can be seen before its nodes are.                  *)
Visible(g, d) ==
    IF trie[d] = NoTrie THEN {{}}
    ELSE IF StoreOrder \/ trie[d] = g THEN {node[d][trie[d]]}
    ELSE SUBSET node[d][trie[d]]

(* scanKeywords: trie := t.cfg.trie, then a walk through its nodes.        *)
Scan(g) ==
    /\ pc[g] = "scan"
    /\ \E found \in Visible(g, dialect[g]) : seen' = [seen EXCEPT ![g] = found]
    /\ Goto(g, "done")
    /\ UNCHANGED <<trie, tables, node, dialect>>

(* The goroutine drops its Tokenizer and makes another, for any dialect.   *)
Again(g) ==
    /\ pc[g] \in {"done", "refused"}
    /\ \E d \in Names : dialect' = [dialect EXCEPT ![g] = d]
    /\ Goto(g, "idle")
    /\ seen' = [seen EXCEPT ![g] = {}]
    /\ UNCHANGED <<trie, tables, node>>

Step(g) ==
    \/ Lookup(g) \/ CheckTrie(g) \/ Insert(g) \/ Publish(g)
    \/ CheckTables(g) \/ StoreTables(g) \/ Scan(g)

Next == \E g \in Goroutines : Step(g) \/ Again(g)

(* The Go scheduler runs every runnable goroutine; nothing makes a program *)
(* tokenize again.                                                         *)
Fairness == \A g \in Goroutines : WF_vars(Step(g))

Spec == Init /\ [][Next]_vars /\ Fairness

----------------------------------------------------------------------------
(* Properties.                                                             *)

(* A statement scanned with a dialect is scanned with all of its           *)
(* multi-character spellings, whoever built the trie and however many      *)
(* built it at once (config.go:85, trie.go:41).                            *)
ScansWithCompleteTrie ==
    \A g \in Goroutines : pc[g] = "done" => seen[g] = Admitted[dialect[g]]

(* Several goroutines may build and publish; from the first publication on *)
(* whoever reads c.trie gets a finished trie, and nobody inserts into a    *)
(* trie another goroutine can already reach.                               *)
PublishedIsFrozen ==
    \A d \in Configured : trie[d] # NoTrie => node[d][trie[d]] = Admitted[d]

(* ConfigFor has returned to a goroutine only a configuration with both    *)
(* lazy fields set, and no later racing store takes one away: the parser   *)
(* dereferences Tables without a check.                                    *)
ReturnedConfigIsComplete ==
    \A g \in Goroutines :
        pc[g] \in {"scan", "done"} =>
            trie[dialect[g]] # NoTrie /\ tables[dialect[g]]

(* A NewTokenizer/Tokenize never waits for another goroutine: it ends, in  *)
(* a token list or in the "no tokenizer for dialect" error.                *)
EveryCallReturns ==
    \A g \in Goroutines :
        (pc[g] = "idle") ~> (pc[g] \in {"done", "refused"})

=============================================================================
