# Verification of sqlglot-go

sqlglot-go is a Go port of the SQL transpiler sqlglot: a tokenizer, a recursive
descent parser, an expression tree, a generator that writes the tree in one of
some thirty dialects, and tools over the tree (Simplify, Diff, the type
annotator, the anonymizer). The repository tests it by differential comparison:
the same statement is given to the port and to the Python reference, and the
dumps are compared. That says little about what depends on *order* rather than
on one statement: goroutines that overlap, calls that follow each other on one
tree, a nested scan that undoes part of an outer one, a greedy matching; nor does it say
that the reference's answer is right: that a simplified condition means what the
written one meant, in rows with NULLs and at the ends of months. These modules
are about both.

Paths below are relative to the repository.

## 1. Inventory

| component | source | state it keeps | operations | status |
|---|---|---|---|---|
| dialect configuration | `sqlglot/config.go`, `trie.go` | package-level map of configurations, two fields of each filled lazily | `ConfigFor`, `buildTrie`, `NewTokenizer` | modelled |
| tokenizer | `sqlglot/tokenizer.go` | cursor, line, pending comments, token list, nested scans | `Tokenize` | partly |
| expression tree and the calls on it | `sqlglot/expression.go`, `simplify.go`, `generate.go`, `tsql_bools.go`, `hive_qualify.go` | nodes with arguments and a Parent pointer | `New`, `Set`, `Copy`, `shallowCopy`, `Equal`, `Simplify`, `Generate` | partly |
| tree diff | `sqlglot/diff.go` | matching, unmatched sets, candidate heap, edit script | `Diff` | modelled |
| parser core | `sqlglot/parser.go`, `comments.go`, `parse_builders.go` | cursor, errors, rule flags, the mark of the last comment given | `ParseOne`, `advance`, `retreat`, `takeComments` | not modelled |
| query, expression and statement grammars | `sqlglot/parse_*.go` and others | flags set around a rule (`inCallArgs`, `inAddColumns`, ...) | one function per rule | not modelled |
| dialect readers and writers | about 90 files of `sqlglot/` | none | token or node rewrites | not modelled |
| athena routing | `sqlglot/athena.go` | none | choice of reader and writer | not modelled |
| generator writers | `sqlglot/generate_nodes.go` | output buffer | one writer per class | the walk only |
| simplify rules | `sqlglot/simplify.go`, `date_arith.go`, `date_trunc.go` | none | local rewrites, the loop that applies them | partly |
| decimal arithmetic | `sqlglot/decimal.go` | a cache of powers of ten | add, multiply, divide, round | not modelled |
| annotator | `sqlglot/annotate.go` | per-node memo of types | `annotate` | not modelled |
| anonymizer | `sqlglot/anonymize.go` | tokens, alias table and counter of one call | `Anonymize` | modelled |
| JSON path parser | `sqlglot/jsonpath.go` | cursor | parse | not modelled |
| PRQL and DAX readers | `sqlglot/prql*.go`, `dax.go` | cursor | parse | not modelled |
| generated tables | `sqlglot/*_gen.go` | constants | none | not modelled |
| differential harness | `harness/` | none | run and compare | not modelled |

**How they interact.** `NewTokenizer` takes the shared configuration through
`ConfigFor`, which fills it on first use; `Tokenize` returns a token list; the
parser walks the list with a cursor it may set back and builds nodes with
`New` and `Set`; every node knows the node that holds it by its Parent pointer,
which `New` and `Set` move. `Generate` walks a tree and writes it, and where a
dialect lacks a construct it rewrites: on a copy for T-SQL, on shallow copies
for casts, on the tree itself for a QUALIFY. `Simplify` builds a new tree bottom
up until nothing changes. `Diff` copies two trees, matches their nodes by the
text `Generate` writes for them, and reports edits. `Anonymize` takes the tokens of a statement, also of one the
tokenizer could not finish, and writes the statement again by their places.
There is no lock in the
package and no goroutine of its own: concurrency comes from callers, who are
told to "make one [tokenizer] per goroutine" (`tokenizer.go:49`).

**What is hard**, component by component (each is a hazard of `PROJECT.json`,
at its line):

- *Configuration*: two goroutines fill one entry, two fields at a time, with no
  synchronisation. Correct means: whoever scans, scans with a whole trie.
- *Tokenizer*: a command word opens a nested scan over what follows, which may
  hold commands of its own, and whose tokens are then thrown away. A comment
  belongs to the token before or after it depending on lines, semicolons, hints
  and the end. The scan for a heredoc tag is undone. Correct means: nothing is
  lost, nothing settled is touched again, every comment reaches its token.
- *Expression tree*: a call that makes new nodes over old ones moves the old
  ones' Parent pointers, which another call then walks. Correct means: what a
  call returns is a tree, and what the caller held is what it was.
- *Tree diff*: three structures are kept in step by hand over two loops, ties
  are decided by order, and the texts compared are made by a call that changes
  the trees. Correct means: one partial bijection, every node in the script once,
  nothing moved that need not be.
- *Simplify rules*: some forty rules, each given what the one before it left,
  over a logic with three answers. Correct means: in every row the tree answers
  what the caller's answers, it is written so that it is read back as itself, and
  the loop ends because nothing is left to do.
- *Dates*: months of different lengths make a move by a month irreversible, and
  a truncated date stands for a span. Correct means the same: the same rows pass.
- *Anonymizer*: names are chosen token by token and written by place, and a
  token's text is not as long as the characters it was read from. Correct means:
  same text, same alias; different texts, different aliases while there are any;
  nothing of the statement left. The code's own doc adds that the result has the
  length of the statement, which it has not always (section 3).
- *Parser*: a rule that fails sets the cursor back but not always the flags and
  the comment mark. Correct means: what a rule did before it was given up leaves
  no trace. Not modelled (section 5).

## 2. Modules

| module | models | run from | proofs |
|---|---|---|---|
| `DialectConfig` | `ConfigFor`, the trie, the scan that reads it, by several goroutines | `MCDialectConfig` | `DialectConfig_proofs` |
| `Tokenizer` | the scan loop over lexemes | `MCTokenizer` | `Tokenizer_proofs` |
| `ExprTree` | nodes and the calls `Copy`, `Simplify`, `Generate` on them | `MCExprTree` | `ExprTree_proofs`, `ExprTreeSimplify_proofs`, `ExprTreeWriting_proofs` |
| `GreedyMatching` | what `Diff`'s matching promises, abstractly | instance in `ChangeDistiller` | `ChangeDistiller_proofs` |
| `ChangeDistiller` | `Diff` | `MCChangeDistiller` | `ChangeDistiller_proofs` |
| `ComparisonRules` | two comparisons of one operand, and the tables of comparisons | through `SimplifyRules` | `RuleTables_proofs` |
| `DateRules` | the calendar, intervals, truncated dates | through `SimplifyRules` | `RuleTables_proofs` |
| `SimplifyRules` | the rules of `Simplify` as functions on trees, and its loop | `MCSimplifyRules` | none (recursive operators) |
| `Anonymizer` | `Anonymize` | `MCAnonymizer` | `Anonymizer_proofs` |

`SimplifyRules` EXTENDS `DateRules`, which EXTENDS `ComparisonRules`: what is
about numbers and dates alone is kept apart from the trees, so that it can be
proved for all numbers and all calendars. `ExprTree` and `SimplifyRules` model
the same call from two sides: `ExprTree` which nodes and Parents it touches, with
three rules, `SimplifyRules` what its rules make of a tree, with plain values.

### DialectConfig

One action per access to shared memory. A goroutine looks the dialect up
(`Lookup`), tests `c.trie` (`CheckTrie`), inserts the admitted spellings one at
a time in any order, since Go randomises map iteration (`Insert`), assigns the
root (`Publish`), tests and assigns `c.Tables` (`CheckTables`, `StoreTables`)
and later scans (`Scan`). `node[d][g]` is the trie goroutine `g` allocated,
`trie[d]` says whose is published.

Go leaves open what a racing read of `c.trie` leads to, so the model chooses: with `StoreOrder`
other goroutines see stores in program order, without it a scan may find any
part of a trie another goroutine published. Everything but the run
`dialect_config_weak` assumes `StoreOrder`.

### Tokenizer

A statement is a sequence of lexemes of seventeen kinds: one element is what one
iteration of `scan` consumes, except that a number with a type's suffix (`7L` in
Hive), which one iteration adds as a number, a `::` and a type
(`tokenizer.go:626-635`), is three elements and three steps of `ScanToken`. No
other step can come between them, since the three always follow each other in a
statement (`WellFormed`); what differs is that they have positions of their own
here and one place in the code. `Anonymizer`, where the place matters, has all
three at one place. The text of a token is the set of positions it
spells, so "lost" and "in order" can be said. `frames` is the Go call stack of
`add` inside `scan(true)`: `ScanToken` on a command word pushes, `EndPayload`
pops, drops the nested tokens and adds the payload string. `ScanComment`,
`ScanHint`, `ScanParameter` (the heredoc tag that is backed over), `ScanBlank`,
`Fail` (the recovered panic) and `Return` are the other outcomes of an
iteration. How characters form a lexeme is not modelled.

### ExprTree

`heap` is a sequence of nodes: class, name, children, Parent. `New`, `Set`,
`ShallowCopy` and `Replace` are operators from heap to heap that do what the Go
functions do to Parents. The calls are state machines over it:

- `Copy` and `simplifyNode` recurse the same way and share `SkipChild`,
  `EnterChild`, `LeaveChild` with an explicit `stack`; `Copy` starts a node from
  `Blank` (no child), Simplify from `ShallowCopy` (the caller's children, whose
  Parents move). `Simplified` is what a node becomes on the way up: double
  negation, parentheses, `WHERE TRUE`. `NextPass` is the loop of `Simplify`,
  bounded by 32 passes as in the code.
- `Generate` for T-SQL is a `Copy`, then the walk that compares bare values in a
  condition with zero (`EnsureBools`), then the writing. For the other dialects,
  and where no dialect is named, `WriteNode` writes the caller's nodes; `Prepared`
  makes the shallow copies of `stripElidedCasts` (Fabric, T-SQL), of
  `withCoercions` (DuckDB) and of a FORMAT argument the dialect spells its own way
  (`SpellsFormat`: T-SQL, Fabric, Databricks, Hive). What is
  "written" is the class, the name and the line of ancestors of each node, which
  is all a writer can read of a node besides its children.
- `eliminateQualify` (Hive) is `BeginQualify`, one step per candidate of the
  filter, with `Copy` as a sub-call on the same stack, and `EndQualify`. A column
  a user named `_w` is the name the rewrite tries first, so that `NewName` goes on
  to `_w_2` where that column is projected, as `findNewName` does.

Calls follow each other on any tree the caller holds, also on what an earlier
call returned. The children of a node are visited in slot order, whereas
`simplifyNode` takes the order of a Go map: the modelled rules look at finished
children only, so the order does not matter to them.

### ChangeDistiller

A tree is the sequence of its nodes in breadth-first order. `dice`, the text
similarity in tenths, is an input, and so is the set of nodes the writers of the
dialect rebuild; `stray` is the set of nodes whose Parent points to such a
rebuilt copy after a comparison. `Collect` fills the heap, `PopCandidate` takes
the best pair, `MatchInner`, `SkipTarget` and `NoPartner` are the iterations of
the second matching, `ReportUnmatched` and `ReportMatched` write the script.
The longest common subsequence is `LcsExpressions`, the code's table.

`GreedyMatching` says what any such matching does: it takes offered pairs while
one has both ends free, then perhaps other comparable pairs, and takes nothing
back. `Matched` instantiates it with the pairs of leaves that are similar enough
as the offers, nodes of one type as the comparable pairs, and the phase read off
the program counter; `ImplementsGreedyMatching` is its `Spec`.

### SimplifyRules, ComparisonRules, DateRules

A tree is a value: class, children, and what a name, a number or a date is. Each
rule is an operator of the Go function's name and takes, as there, the class of
the parent. `simplifyNode` does the children first, then the dates, then
`ApplyRules`, the rules in the order of the code; `Pass` is a turn of
`Simplify`'s loop, so a state is the tree between two turns. `Text` is a sequence
of words that sorts as what the generator writes, which is all `uniqSort` and
`sortComparison` need of it. `Meaning` is what a tree answers in a row, by the
rules of SQL and not of the code: three-valued connectives, NULL-strict
comparisons and arithmetic, CASE and COALESCE that stop at the first match, and
the calendar. `Grouped` says, from the levels of `parse_expr.go:132-209`, whether
a node's text, with the parentheses its tree has and no others, is read back as
that node.

`DateRules` counts instants from the first of a year 0. How long a day, a week,
the months and a year are is given by constants: the rules do not depend on 24
hours or on leap years but on months of different lengths, on weeks that are no
part of a month, on a clock inside the day, and on clamping to the last day.
An interval of weeks, days or less is a `Duration`, which wraps at `DurationSpan`
as `time.Duration` does at 2^63 nanoseconds; `MovedBy`, the reference, does not.
`isExactIntervalMove`, `truncBound` and `mergedLows` decide what the rules of
`SimplifyRules` then write.

Two details of the code that abstraction must not lose, and that are kept: the
text of a `Neg` is not looked into by `isZero`, and integers go through
`float64`, which loses odd numbers past `ExactIntegers` (2^53 in the code).

### Anonymizer

A statement is its characters and the tokens the tokenizer made of them, each with
the places it was read from; a character is one of a few the code treats alike.
`UnknownDialect` is the early return of the statement as it is
(`anonymize.go:67-70`). `AddTail` makes the token for what the tokenizer could not
read. Blanking keeps the marks that open and close a comment, and not one inside
it unless the dialect nests comments (`MarkStays`). `BlankHint`,
`LeaveToken`, `UseAlias` and `NewAlias` are the outcomes of one iteration of
`anonymizeTokens`, `RenderToken` is one of `renderAnonymized`, `RenderRest` its
end. `AliasFor`, `NumberAlias`, `Blurred` and `Fitted` compute character by
character, by formula and not by recursion, so that they can be proved about;
`Power` is the one recursive function.

## 3. Runs

Passing:

| run | bounds | what it shows |
|---|---|---|
| `dialect_config` | 3 goroutines, 1 dialect and 1 unknown name, 2 spellings, any number of calls each | with ordered stores nobody scans with part of a trie, a published trie is never written, `ConfigFor` never returns a half-filled entry, and every call returns |
| `tokenizer` | every statement of up to 4 lexemes of 14 kinds; every continuation of a command by up to 6 of 6 kinds; a number of three tokens put into every statement of up to 3 | payloads stop at the first semicolon, no token is lost or reordered, each comment outside a payload is given once to the token it is about, lines count breaks, settled tokens stay, `Tokenize` returns |
| `trees` | 99 trees of up to 11 nodes, 2 calls of 8 kinds (`Copy`, `Simplify`, `Generate` for six dialects or none) on any root held | `Copy` is deep, results are trees, `Simplify` keeps the meaning and leaves nothing to do, no caller's argument changes, deep copies leave Parents alone, calls return |
| `rewrites` | 62 trees of up to 14 nodes, 35 of them queries (5 projections, 7 filters), 3 calls of `Copy`, `Generate` for T-SQL, Databricks and Hive | a tree written twice reads the same, whatever was copied or written in between; a query rewritten for Hive has no window in its WHERE, and everything the outer select reads is projected below it |
| `diff` | every pair of trees of up to 4 nodes, 2 inner classes, 3 leaf spellings, similarity just above and just below the threshold | the matching is a best-first partial bijection between nodes of one type and implements `GreedyMatching`, the script names each node once, equal trees give only keeps, reordering costs the fewest moves, `Diff` returns |
| `simplify_rules` | some 14,000 conditions: for each group of rules all combinations of their operands; columns of conditions, a number 0 to 3 and a date, each also NULL | after every pass the tree answers what the caller's answers in every row and is read back as itself; the loop ends by itself |
| `anonymizer` | every statement of up to 3 lexemes of 22, whole, cut off in a string, after Athena's marker, or in a dialect nobody knows; 2 letters, 3 digits, numbers of up to 4 characters | the length is kept where no token begins before the one before it ends; one text has one alias and two texts two while there are aliases of their width; nothing to hide is left but in the three places named below |

Violations, each a disagreement between the code and what the repository says
of it:

| run | property | what TLC shows |
|---|---|---|
| `dialect_config_weak` | `ScansWithCompleteTrie` | without ordered stores, the unsynchronised `c.trie` lets a goroutine tokenize with part of the keywords |
| `qualify_stale` | `FilterHoldsNoWindow` | after `Simplify(tree)` the window of `tree` has its Parent in a discarded copy, so `Generate(tree, "hive")` replaces nothing and writes a window into a WHERE |
| `diff_moves` | `MovesLeaveTheirParents` | comparing texts re-parents nodes, and nodes that stayed are reported moved |
| `simplify_denied_pair` | `SameAnswer` | `a IS NULL AND b IS NULL AND (NOT a IS NULL OR NOT b IS NULL)`, which no row passes, becomes `a IS NULL AND b IS NULL` |
| `anonymizer_length` | `SameLength` | `7L`, a number, a `::` and a type of one place, is written three times and grows from 2 characters to 6, the last four of them in clear; `anonymize.go:58-59` and `:420-421` say the length is always kept |

**Bounds, and why they are enough.** In `DialectConfig` a third goroutine is the
first that can overwrite one publication while another goroutine uses it; the
theorems cover any number. In `Tokenizer` four lexemes place a command, a
payload, a comment and what follows it; six after a command allow two nested
commands with a semicolon. In `ExprTree` the second call is the first that meets
Parents a former one moved, and the third the first that writes again after
something else was called; operators stacked three high (`MaxSpine`) are the
least that makes Simplify run a rule on the outcome of another (`rewrites`, which
calls no Simplify, has them one high); `MaxPasses` is
the code's own 32. In `ChangeDistiller` four nodes give an inner node with two
leaves under a root, the smallest tree whose inner nodes can be matched wrongly
and whose leaves can be reordered; similarities 5 and 6 are the two sides of the
threshold, and equal subtrees have 10. In `SimplifyRules` the constants 1 and 2
have a number below, between, at and above them among 0 to 3; chains of three
operands are the least in which a rule meets what another left; the year of four
months (4, 2, 3 and 2 days) has a longer month before a shorter one and a shorter
before a longer, quarters of two months, weeks of three days that straddle months
and years, and two instants a day; the dates span three years. `ExactIntegers` 16
is above every number the inputs can produce, and `DurationSpan` 64 above every
interval in them. In `Anonymizer` two letters and
three digits make the aliases of one character run out at the third text, so that
the boundary `DistinctWhileRoom` speaks of is met by three lexemes.

**What the passing properties leave out.**

- `ArgumentsKept` and `WritingIsRepeatable` do not speak of trees a QUALIFY
  rewrite was given: `Generate(tree, "hive")` replaces nodes inside the filter its
  caller holds, which is in the model and follows from `Replace` in
  `eliminateQualify`. `rewrites` makes no call of Simplify, for Fabric or DuckDB,
  or with no dialect: these move Parents too. With any of the first three beside Databricks
  TLC finds a tree the Databricks writer sees under other nodes the second time,
  and the same of a tree written with no dialect after Databricks wrote it: its
  FORMAT was respelled on a shallow copy, which took the other arguments'
  Parents (`generate.go:175-224`). T-SQL, which writes a copy, stays as it was
  beside all of them. `qualify_stale` shows what a Simplify does to a later
  QUALIFY rewrite.
- `findNewName` looks at the names the query projects and not at those its filter
  reads (`hive_qualify.go:24-28`): a column named `_w` that is only read in the
  filter is taken for the window's name. The queries have such a name among the
  projected ones, where it is avoided.
- `ResultIsATree` speaks of the tree a call just returned, not of older ones. The
  parsed trees have no LEN, BOOL_OR or TIME_TO_STR inside the amount of an INTERVAL:
  `Generate` for some dialects writes such a node through a shallow copy
  (`generate.go:175`, `:254`, `generate_nodes.go:4285`), which takes over the Parents of
  its children, and a later `Simplify` returns the amount as it is
  (`simplify.go:75`), so that a Parent in its result points outside of it.
- `LinesCountBreaks` excludes statements with a parameter's `$`: the scan for a
  heredoc tag counts line breaks and is backed over without taking them off
  (`tokenizer.go:700`). The model keeps a payload's start as the code computes
  it, which is that of the last lexeme and not of the payload
  (`tokenizer.go:397`). `CommentsReachTheirToken` excludes the comments a
  payload spells: one that stands first in it is given twice, to the command and
  to its payload (`tokenizer.go:262`).
- A column a filter reads twice is projected twice, and a star is given a name
  (`hive_qualify.go:33`, `:108`): the model does both, and `ReadsWhatIsProjected`
  holds nevertheless.
- `LengthKept` speaks of statements in which no token begins before the one before
  it ends. Where one does, the code does not keep the length (`anonymizer_length`):
  `POW(2S,3)` becomes `POW(012S2S,2)`, and Athena's marker, a token of character 0,
  doubles the first character.
- `NothingSpilled` has three exceptions, each a place in the result and no
  statement as a whole but the first: a statement in a dialect nobody knows is
  returned as it is; the token for what could not be read shows two characters of
  it (`anonymize.go:101-111`); and a token written as it stands, over characters
  the token before it was read from too, shows them: the type of `7L` is written
  `7L`. The first and the third are against `anonymize.go:63-65` ("safe to log").
  The property says there are no other places, also in statements of the third
  kind. Comments are of one kind, with a mark at each end: a line comment's end is
  not told from the gap behind it.
- `SelfDiffOnlyKeeps`, `LeafPairsAreBestFirst` and the other properties of `diff`
  take similarities as given, and say nothing of how the quotients of
  `diff.go:442-451` are rounded or of texts without bigrams.

The inputs of `simplify_rules` leave out eight shapes for which the code, and the
model with it, does not keep the answer or the text. They are departures from
`simplify.go:18` ("conservative throughout"), found while the inputs were chosen:

1. the denied pair of `simplify_denied_pair` (`simplify.go:1481`);
2. `1 BETWEEN 0 AND x AND x < 2` becomes `1 <= x`: two comparisons are folded
   although the shared operand stands right in one of them
   (`simplify.go:2164-2231`, reached from `rewriteBetween`, `:1190`);
3. `eliminateComplementPairs` can leave an OR bare under an AND
   (`simplify.go:1584`);
4. `-0` is a number that is not the literal zero, hence always true
   (`simplify.go:828-858`);
5. integers past 2^53 are rounded by `float64` before they are folded
   (`simplify.go:374-391`);
6. `INTERVAL 1 MONTH + x = CAST('2023-02-28' AS DATE)` becomes
   `x = CAST('2023-01-28' AS DATE)`, although 29, 30 and 31 January match too:
   whether a move is exact is asked of an interval on the right only
   (`simplify.go:717-723`);
7. a DATE literal moved by hours loses its clock (`date_arith.go:114-117`), so
   `x + INTERVAL 1 HOUR = CAST(... AS DATE)` is folded to another instant;
8. an interval past about 292 years wraps in a `time.Duration`
   (`date_arith.go:156`), and the folded date is another one: with inputs past
   `DurationSpan` TLC finds `SameAnswer` violated.

**Fairness.** A goroutine in `DialectConfig` is always runnable, and the Go
scheduler runs every runnable goroutine, so each has weak fairness on its own
steps but not on starting another call. `Tokenizer`, `ExprTree` and
`ChangeDistiller` are loops on the caller's goroutine: weak fairness on
everything but making a call. `SimplifyRules` and `Anonymizer` state none: that
Simplify's loop ends is bounded by `MaxPasses` and said by
`SettlesBeforeTheBound`, and Anonymize's loops run over a finite list.

**Deadlock** is checked for `DialectConfig`. The others are programs that end,
so `CHECK_DEADLOCK FALSE` there; that they end by returning is a property
(`TokenizeReturns`, `CallsReturn`, `DiffReturns`, `SettlesBeforeTheBound`).

## 4. Proofs

All are for every value of the constants, under the named assumptions of the
modules (which say that constants have the shape the code gives them).

- `DialectConfig_proofs`: for any number of goroutines, dialects and spellings,
  `TypeCorrect`, `FrozenTries` (a published trie is whole and stays), `CompleteConfigs`, and
  with `StoreOrder` `CompleteTries`. The invariant adds that a goroutine
  still inserting does so into a root nobody reaches (`BuildsPrivately`) and that
  past `CheckTrie` a trie is there (`PastTrieCheck`): without the first an
  insertion might be into a published trie, without the second a goroutine could
  return from `ConfigFor` with none.
- `Tokenizer_proofs`: `TypeCorrect`, `PayloadsEndAtSemicolon` and
  `SettledTokens` for statements of any length and commands nested to any
  depth. The invariant orders the frames: each counts no more tokens than there
  are, and inner frames count no fewer than outer ones (`FramesNest`), so that
  cutting the list back for an inner payload never reaches what the outermost one
  counts; no open payload has passed a semicolon, and none starts in front of one
  (`OpenPayloadsHaveNoSemicolon`, `NoEmptyPayload`). `NothingIsLost` and
  `LinesAreCounted` rest on a second invariant, `Spells`: every lexeme passed is
  spelled by a token, in order; an open payload begins after what the tokens it
  counts spell and holds what the others spell (`PayloadsApart`), so that the
  one string that replaces those spells as much; and without a `$` the counter
  and every token's line stand at the line breaks before them (`LinesCounted`).
- `Tokenizer_proofs`, of comments: `CommentsReach`, that every comment outside a
  payload is held once and by the token it is about. The scan decides by comparing
  two line counters, and the promise is about line breaks of the statement; the
  invariant `Gives` says why they agree even after a scan ahead has counted breaks
  it backs over: both counters have counted them, so that they are equal exactly
  when no break stands between the last token and the comment (`LineTells`). A
  comment still waiting is after every token and inside every open payload, and
  trails none (`PendingComments`); the tokens of an open payload hold comments of
  that payload only (`HeldComments`), so that dropping them for its string loses no
  other; after a string nothing but its semicolon is scanned (`StringIsLast`), so
  that the last token, when a comment is read, is a single lexeme. `OwnerIs` then
  says that the token so found is the `Owner` the property names.
- `ChangeDistiller_proofs`: `TypeCorrect`, `MatchingBijective` and `SameType`
  for all trees and similarities. The invariant is the bijection itself with
  the facts that candidates share a type and that a node waiting for its turn in
  the second loop is unmatched (`TodoIsUnmatched`), without which a source node
  could be paired twice. `DiffMatchesGreedily`: `Diff` implements
  `GreedyMatching`; the initial states map to initial states and every action to
  a step or a stutter. What the second phase's beginning needs is
  `RefusedAreTaken`: a candidate that left the heap has an end that is taken, so
  when the heap is empty no offer is open. `BestPairsWin`: a leaf pair that was
  passed over lost a leaf to a pair the heap orders before it. Its invariant
  `TakenBestFirst` says that what left the heap stood before what is still in
  it, that all that was taken left it, and that whoever left it was taken or
  lost an end to an earlier pair.
  `EveryNodeOnce`: its invariant `ScriptSoFar` says that, while the script is
  written, a node has exactly one edit other than a Move if it found no partner or
  its turn is over, and none while it waits. That no node is listed twice and none
  is skipped comes from `Ordered`: the rank of a node in a set, how many of the
  set are not after it, takes every number up to the set's size once.
  `FewestMoves`: the Moves of a reordering leave a largest set of children in
  place. The table of `lcsExpressions` exists because a table that is right on
  its first diagonals can be made right on the next (`TableExists`), and each of
  its entries is a longest common subsequence (`LcsIsBest`), since none can be
  the wrong one nearest to the corner: with two partners last, a common set less
  its last node is common to the shorter lists (`BestWithPartners`); otherwise no
  common set holds both (`CommonLacksOne`), as the partner of the one would stand
  before the partners of earlier nodes.
  `NoDeltaOfEquals`: the script of two equal trees whose leaves read the same
  only keeps. Equal trees in breadth-first order are one tree
  (`EqualTreesAreOne`): the first position where they differ would have the same
  parent in both, with as many children. Leaves find themselves
  (`LeavesFindThemselves`): a leaf of twins that is paired with another lost to a
  pair listed before it, because no pair of a node scores more than the node with
  itself (`OwnScoreIsBest`), so that the first such leaf in the depth-first order
  (`ListedInOrder`) could not have lost. Then the second loop finds each node
  itself first, without comparing a text (`TwinsInv`). The recursions these facts
  are about, lineage, score and equality, have a table because their entries depend
  on entries of lower rank (`RecursionHasTable`).
- `RuleTables_proofs`, of comparisons: `FoldIsSound` (two comparisons of one operand with
  any two integers fold to what answers as both do), `ComplementIsSound`,
  `InverseIsSound`. `FoldIsSound` assumes that of two bounds on one constant the
  strict one stands left; `uniqSort` has put it there before a pair is folded, as
  `<` sorts before `<=`, and without that the theorem is false.
- `RuleTables_proofs`, of dates, on every calendar of `CalendarAssumption` (months, weeks and
  days of any length, a week that begins on any day). `TruncatedComparisonIsSound`
  and `TruncatedEqualityIsSound` are about any way of cutting time into spans, given
  by a function to a span's beginning and one to the next span's (`CutsTime`), and
  `UnitsCutTime` says that years, quarters, months, weeks and days cut time so;
  `DateTruncComparisonIsSound` is the two together. `MergedSpansAreExact`: the
  merged ranges an IN list becomes hold what is cut to a date of the list, by the
  least instant that would not. `ExactMoveIsSound`: where the two tests of
  `isExactIntervalMove` hold, the interval may move to the other side of any
  comparison, if a `time.Duration` holds the interval (`NoWrap`). The tests say of the day that the month before the move has it, and
  that the day after it, if that month has one, is not clamped to it
  (`ExactMonths`), which is all the order of instants needs.
- `Anonymizer_proofs`: every invariant of the run, for any statements, alphabet
  and digits: `TypeCorrect`, `LengthIsKept`, `ConsistentAliases`,
  `NothingIsSpilled` and `DistinctAliases`. They assume what the code fixes and
  the module names: letters of an alphabet are distinct and none of the
  characters kept or hidden (`Separate`), a number begins with a digit
  (`scanNumber`), only names, values, hints and comments hold what is to be
  hidden (`SecretAssumption`). The invariant says that tokens keep their places,
  and differ from the given ones in their text only (`Placed`, `Kept`,
  `NotReached`); that every alias given is recorded under its text
  (`AliasesRecorded`); and how long the output is at each token: the place
  reached and, once more, every character that two tokens were read from
  (`Measured`, `Shared`). Lemmas say
  of each conversion what length it returns, and which letters.
  `NothingIsSpilled` adds that a token the naming loop has passed has nothing to
  hide in its text, and that the one it was not given is the token for what
  could not be read (`Hidden`); since it is known how long the output is at each
  token, so are the places of the two characters that token shows, and those of a
  token that is written over characters already read (`Clean`). `DistinctAliases` adds that an alias was made from the number of
  texts met before its own (`Ranked`): texts have ranks of their own, and two
  ranks that fit into the width of their texts differ in a digit that both
  aliases spell. What the recursive `Power` gives at the next number is shown
  from a least counterexample; from it follow digits, their places and the two
  parts of a number.
- `ExprTree_proofs`: `TypeCorrect`, `CallersTreesKept`, `DeepCopiesLeaveParents`,
  `CopiesAreDeep`, `CopiesAreTrees` and `ResultsAreTrees`, for all heaps a parser
  may build, any number of calls, and any recursion, where no call is a QUALIFY
  rewrite (`"hive" \notin Ops`). A parser's heap is one whose nodes are numbered
  from the root down, children and Parents (`RootDown` in `ParsedAssumption`),
  which is to say a heap without a cycle.
  The invariant of the first three says where a call may write: every frame of
  the stack writes to a node younger than the call (`StackInv`), and after a deep
  copy no younger node holds an older one and the walk visits younger nodes only
  (`ApartInv`); the heap stays well formed (`HeapInv`) and each phase belongs to
  the calls that have it (`CallInv`). `CopiesAreDeep` compares terms, which a node
  has only where no cycle is below it. So first no step closes one (`NoCycle`): a
  node that is still being copied into is held by none (`OpenInv`), and neither is
  a new one. Then a node of any heap without a cycle has one term (`TermsExist`,
  `TermsAgree`): the greatest set of nodes that has a table of terms is all of
  them, and two tables can differ at no node, since there is none below which they
  differ first. Last, the copy in every frame is like its original in the slots
  that are done and empty in the others, and each frame copies the child the
  frame before it is at (`Twinned`); a frame without slots left is a finished copy
  (`CopyDone`), and setting it one level up changes the term of no node a frame
  reads, as none of them holds what is being copied into. `CopiesAreTrees` says
  that the copy is a tree whatever it was copied from, which other calls may have
  left with Parents that point elsewhere: the finished nodes of a copy hold each
  other only and are linked to their children (`Built`), and a frame's copy joins
  them when its last slot is done (`TopJoins`).

  `ResultsAreTrees` is `ResultIsATree` with Simplify's results included, which are
  harder: the amounts of intervals are shared with the tree given, and a later
  pass, or a later call, may start from a tree whose Parents another call moved.
  What makes it go through is a set of amounts (`Amounts`): sound below
  themselves, and held by intervals only. A pass (`Pass`) has visited some nodes
  and finished some. The finished ones are new or in amounts, hold each other
  only, and fill the frames (`Finishes`); a frame's copy still holds what its
  original does in the slots to come (`Follows`); a node was visited from the one
  node that holds it, so never twice (`Visits`), which is why no two new nodes
  hold the same amount (`Takes`). `PassLeaves` is the way up, with the node
  dropped or replaced by what `Simplified` finds, and `PassReturns` makes the
  outcome what the next pass, or the caller, starts from. Between calls the nodes
  under the roots a caller knows are of that kind (`Live`): no child is held twice,
  and only the Parents of what Generate or Simplify was given may be elsewhere.
  The theorem takes two things of the parsed trees: that they are trees
  (`IsTree`), and that no amount in them holds a node a writer wraps
  (`AmountsPlain`). Every heap the run `trees` parses satisfies both. The second
  came out of the proof: without it TLC finds `Generate` for Fabric followed by
  `Simplify` on an INTERVAL of a LEN to return a node whose Parent is not in the
  result (section 3).
- `ExprTreeSimplify_proofs`: `SimplifyExact`, that `SimplifyIsExact` holds for
  all heaps a parser may build and any calls before, again without QUALIFY
  rewrites. What a node means (`Meaning`) exists once for every node of a heap
  without a cycle, as its term does (`MeaningsExist`, `MeaningsAgree`), is what
  its children's meanings make of it (`MeaningIs`), and stays while nothing below
  it is assigned (`MeaningKept`). That two negations cancel needs that a meaning
  which begins with a negation is the negation of something that does not
  (`SenseShaped`, `TwiceNegated`); so no rule changes a meaning
  (`SimplifiedMeans`). A node is `Plain` under a holder where no rule applies to
  it. `SimplifiedPlain`: what the rules make of a node over plain children is
  nothing, the node, or a node further down, and plain. It rests on the order:
  the child of a negation is plain before the negation is looked at, so that no
  parentheses stand between two negations, and what the second holds was
  simplified already.
  The invariant of a pass (`Passing`) names the nodes that are finished (`Done`:
  newer than the call, every slot empty, or plain and finished, or an amount), and
  says of every frame that its copy means what its original does, in the slots
  that are done and in those to come (`Working`). In the second pass it says more:
  what is copied was finished by the first and is plain where it stands, and the
  copy has its term. So no rule applies, the outcome's term is that of what the
  pass was given, and the loop ends (`PassingReturns`): for these rules two
  passes are enough (`Doing`), and the bound of 32 is never the reason to stop.

- `ExprTreeWriting_proofs`: `WritingRepeats`, that `WritingIsRepeatable` holds for
  all heaps a parser may build and any number of calls, where what is called is
  `Copy` and `Generate` for T-SQL and with no dialect named (beside others it may be
  false, section 3; for `Copy`, T-SQL and Databricks the run `rewrites` checks it). Its induction is over two executions,
  perhaps long apart, so one `Generate` is made a machine of its own: what it has
  at hand (`Hand`) and its one next step (`Succ`), and a `Run` is a sequence of
  such steps from the call (`Begin`). The second run starts over the same nodes,
  but other calls have added nodes since, so its own new nodes have other numbers.
  `Alike` says two heaps differ in that only, and `Same` the same of two machines:
  every primitive that builds a node keeps it (`NewAlike`, `SetAlike`,
  `ComparedAlike`, `ReadyAlike`, for the FORMATs T-SQL respells too), what stands above a node is read alike
  (`AncestorsAlike`), so every step does (`SuccSame`), and two runs that begin the
  same are of one length and write one text (`RunsSame`, `RunsEnd`). The invariant
  `Told` ties them to the specification: each kept text was written by such a run
  over nodes that stand in the heap unchanged, Parents included (`Stands`), and
  the call at hand is such a run so far. Reading upward needs that Parents have no
  cycle (`Rising`): of any set of nodes one has its Parent outside. A step could
  close one only by adopting under a node that already stands below; that a deep
  copy's open nodes have no Parent, and that its finished ones are linked to
  what they hold, excludes it (`Upright`).

Model-checked only: every liveness property; everything about whole trees in
`SimplifyRules`, whose operators are recursive, since it is induction over data;
the QUALIFY rewrite, which `FilterHoldsNoWindow` and `ReadsWhatIsProjected` are
about; and `WritingIsRepeatable` for other sets of calls than the theorem's, among them
those with Databricks.

## 5. Not modelled, and why

- The grammars, the dialect readers and writers and the generated tables are
  large, mostly stateless translations: their correctness is agreement with the
  reference's tables, which the corpus under `testdata/` compares statement by
  statement. They are also most of the lines of the repository.
- The parser core has state worth checking (the cursor, the rule flags, the
  once-only mark of `comments.go:7`, `inCallArgs` at `parse_expr.go:4291`), but
  which rule reads ahead after which is decided by the grammar, and a model
  without it would let through, or forbid, interleavings the parser does not have.
- Of Simplify: strings, CONCAT, STARTS_WITH, decimals and their casts, joins and
  the unit that a DATE_ADD leaves out. Of the tokenizer: how characters form a
  lexeme. Of the expression tree: the writers.
- Decimal arithmetic is a pure function at a fixed precision of 28 digits, beyond
  what TLC can enumerate; at a smaller one other branches would be taken.
- The annotator's answers come from generated tables; the memo that `replaceNode`
  does not clear (`expression.go:178`) is listed as a hazard.
- Athena's routing, JSON paths, PRQL and DAX are text-to-tree decisions without
  state between calls. The differential harness is test infrastructure.

## 6. What would come next

1. The rules of the expression grammar that read ahead, with the cursor
   below them: a rule given up leaves cursor, flags and comments as they were.
2. Strings in `SimplifyRules`: CONCAT's groups and STARTS_WITH.
3. `ExprTree` nodes with the marks `originalName` and `quotedTable` that `Copy`
   keeps and `shallowCopy` drops, and the annotator's memo over the same nodes.
4. Proofs: that a QUALIFY rewrite leaves no window in the filter, and that T-SQL
   is written the same whatever else is called.
