# A TLA+ development of libmarpa (Marpa::R2)

Marpa::R2 parses with libmarpa, a C library that implements Earley's algorithm
with Leo's treatment of right recursion and an "earleme" model of input in which
tokens may have any length, overlap and leave gaps. The library is
`src/cpan/engine/read_only/marpa.c`; `src/cpan/xs/R2.xs` and the Perl modules under
`src/cpan/lib` are its clients. Line numbers below are those of `marpa.c`.

The library has no threads and does no input or output. What is hard in it is
algorithmic: the order in which sets, links and Leo items are made, what an earlier
set must already contain when a later one reads it, and which of any order of calls
leave a state that the next call can be trusted with.

## 1. Inventory

| Part | State | Operations | What makes it correct |
|---|---|---|---|
| Grammar (g) 2578-6900 | XSYs, XRLs, rank and event flags, error, reference count | `marpa_g_*_new`, event and rank settings | frozen once precomputed; ids are dense; no duplicate rule |
| Precompute 7100-9770 | NSYs, IRLs, AHMs, bit matrices | census, sequence rewrite, CHAF rewrite, loop test, tables | the rewritten grammar has the language of the original, no nullable NSY but nulling ones |
| Recognizer (r) 10221-13301 | input phase, earlemes, alternatives, Earley sets, links, LIMs, event vectors | `start_input`, `alternative`, `earleme_complete`, event and Leo settings | the chart is Earley's, tokens are neither lost nor scanned twice, events are neither lost nor invented |
| Alternatives 11760-11854 | array sorted by end earleme, reversed | insertion by binary search, pop at an earleme | the array is the set of tokens not yet scanned |
| Progress report 13938-14199 | a tree of (rule, position, origin), a cursor | start, item, finish | each item of a set reported once, Leo completions included |
| Bocage (b) 14291-15626 | or-nodes, and-nodes | `marpa_b_new` from the links at an earleme | one and-node per way to derive each or-node reached |
| Order (o) 15713-16308 | and-node orders, ranks, frozen flag | `marpa_o_rank`, `high_rank_only_set` | every and-node kept or dropped by rank alone; frozen after the first tree |
| Tree (t) 16452-16986 | stack of nooks, parse count, pause count | `marpa_t_next` | every parse once, no parse with a cycle, paused while a valuator lives |
| Valuator (v) 17159-17970 | virtual stack, step type, valued bits | `marpa_v_step`, `*_valued_set` | steps are a post-order walk of the tree with consistent stack positions |
| Reference counts | one per object, parent pointers | `ref`, `unref` of six classes | an object outlives what points to it |
| Data structures 18241-19250 | bit vectors, matrices, CIL arena, per-set arrays | set operations, closure, interning | they are the sets, relations and functions they stand for |
| SLIF loop (`R2.xs` 951-2400) | input position, lexeme queue, event queue, two recognizers | `read`, `lexeme_read`, events | every position read once, longest acceptable lexemes, pauses and events in order |
| Perl layers | wrappers, semantics, forests | `SLR.pm`, `SLG.pm`, `Value.pm`, `ASF.pm` ... | values follow the steps |

**How the parts interact.** All calls are synchronous. An application makes a
grammar, precomputes it, makes a recognizer of it, calls `marpa_r_start_input`, then
`marpa_r_alternative` any number of times and `marpa_r_earleme_complete` once, in any
order it likes; each error return must leave the recognizer usable. A call leaves
events in the grammar (`MARPA_EVENT_*`), cleared by the next call that may make some.
At any earleme a bocage can be made from the chart, an order from it, trees from the
order, a valuator from a tree; each holds a reference to the one below. The SLIF loop
keeps two recognizers, one for lexemes, restarted at every position, and one for the
grammar, and turns libmarpa's events into its own.

**Where it is hard** (PROJECT.json lists each at its line): an error found after a
field was already changed (`t_furthest_earleme`, 12243), gaps and variable lengths
against exhaustion (12330), lookups in an earlier set that assume it complete
(12469, 13058), a failed precomputation that
may be tried again (7141), a rewrite whose pieces must neither double nor lose a parse
(8095), Leo items that depend on each other within a set (13120), completions
that are never made but must still trigger events (12695), a count that guards the
search for events (12644), binary search on a reversed order (11782), settings
whose effect depends on the order of calls (12173, 17496), a stack whose places are counted
across virtual rules (18130), and counts that tie objects of six classes (16603).

## 2. The modules

| Module | Models | State |
|---|---|---|
| `GrammarObjects`, `GrammarSymbols`, `GrammarRules` | the calls on a grammar, its symbols, its rules and its internal objects, with their tests in the order of the code (2564-7030, 10012-10215) | `g`, `error`, `result` |
| `BitMatrix` | the closure of a bit matrix (18832-18887) | none |
| `GrammarCensus` | what precomputation finds out of symbols and rules (7139-7862): productive, accessible, nullable, nulling, nulled with another, loop rules | none |
| `GrammarRewrite` | internal symbols and rules (7864-8953): sequences, rules with nullable symbols in pieces, plain rules, the augmented start | none |
| `GrammarPrecompute` | `marpa_g_precompute`, its checks and failures; AHMs and the tables that the recognizer reads, `EarleyRecord` (7037-9975) | that of `GrammarObjects` |
| `Grammar` | all these calls as one application makes them | and `calls`, what it may still do |
| `GrammarReference` | references and properties: the languages of the external and of the internal rules, the census and loops from the rules alone | |
| `EarleyGrammar` | the tables as the recognizer reads them (9084-9662): AHMs, predicted rules, right recursion, event lists, as operators over the internal rules of the constant `G` | none |
| `RulePositions` | the positions of right sides with their nulling symbols, and the virtual symbols in them (4834, 8142, 9110-9232) | none |
| `Recognizer` | `marpa_r_new`, `marpa_r_start_input`, `marpa_r_alternative`, `marpa_r_earleme_complete`, Leo items, events and the settings (10221-13301) | see below |
| `AlternativeStack` | the array of alternatives, its binary search one trial per step, `alternative_pop` (11767-11854) | `array`, the search's bounds |
| `AlternativeSet` | abstract: a set of tokens that takes a token once and gives back those that are due | `held` |
| `EarleyChart` | reference: the Earley sets, each saturated from the ones before, with no Leo item, no stack; recursive functions | none |
| `EarleyParser` | abstract: a parser whose state is the tokens it accepted, and whose answers follow from `EarleyChart` | `tokens` ... |
| `RecognizerRefinement` | `Recognizer` with the refinement mapping to `EarleyParser`, and the properties that compare with the reference | that of `Recognizer` |
| `ProgressReport` | the content of a progress report (13889-14151), and the one of Earley's algorithm | that of `Recognizer` |
| `Bocage` | `marpa_b_new` (14531-15472): the forest of the parses that end at an Earley set | that of `Recognizer`, `bocage` |
| `BocageReference` | reference: how each or-node divides according to `EarleyChart`, without Leo items | |
| `Order` | `marpa_o_new`, `marpa_o_rank`, `marpa_o_high_rank_only_set`, `marpa_o_ambiguity_metric` (15679-16351) | `order`, `metric` ... |
| `Tree` | `marpa_t_new`, `marpa_t_next`, and the pauses by `marpa_v_new` and `value_free` (16440-17241) | `nooks`, `worklist`, `inUse` ... |
| `TreeReference` | reference: the parse trees of a bocage by recursion; the ambiguity metric against their number | |
| `Value` | `marpa_v_new`, `marpa_v_step`, the settings of valued symbols (17059-18226); the evaluation of a tree as reference | that of `Tree`, `valuator`, `slots`, `trail` |
| `Lifecycle` | the reference counts of the six classes, from `..._new` to `..._free` | `class`, `maker`, `count`, `pauses` ... |
| `GrammarBuilding`, `Grammars`, `MC*` | grammars and bounds for TLC | |
| `RecognizerProofs` | proofs: types, the grammar tables, the count of active events, pending tokens, furthest earleme, exhaustion, rejection, values; what an item spans, finished sets are frozen, predecessors exist, Leo items are faithful, the chart is sound and complete | |
| `RecognizerRefinementProofs` | proofs: the reference chart is the least closed one, the recognizer's items and events are its, the refinement of `EarleyParser` | |
| `BocageProofs` | proofs: the links of the chart, the search for the items of a bocage, its or-nodes and and-nodes, and how they are ordered and ranked | |
| `TreeProofs` | proofs: the tree iterator's types, the or-nodes in use, paused trees; that every parse tree is returned once | |
| `ValueProofs` | proofs: the settings of a valuator; its steps are those of the tree; the places of the arguments of a rule | |
| `LifecycleProofs` | proofs: the reference counts and the pauses | |
| `GrammarProofs` | proofs: the closure of a bit matrix, the tree of rules, distinct rules, locks | |
| `AlternativeStackProofs` | proofs: the array is sorted, the search framed, the set implemented | |

**How they compose.** `Recognizer`, `Bocage`, `Order`, `Tree` and `Value` extend one
another: a run of `Value` makes calls of all five. The grammar side is a second
specification, because no call of a recognizer changes its grammar. The two meet in a
record: `EarleyRecord` makes of a precomputed grammar the tables that `Recognizer` takes as
its constant `G`, `BuiltGrammarIsLegal` says that it satisfies the assumptions that the
recognizer's theorems rest on, and the assumptions `...IsMade` of `MCGrammar`, which
TLC evaluates, that each grammar of `Grammars` that the runs below use is the one that calls
and `marpa_g_precompute` make of its external rules. `Lifecycle` takes from the other
modules only which call makes an object from which.

**Grammar.** A grammar is a record `g` of sequences: external symbols (`xsys`) and rules
(`xrls`), internal ones (`nsys`, `irls`) and assertions, each a record of the fields of its C
structure, its flags as a set `is`. IDs start at 1, and 0 (`NoId`) is the code's -1. One
action is one call; it tests in the order of the code, and leaves the code's error and
result. `marpa_g_precompute` is one action for each of its outcomes; one that fails keeps
the flags that the census has set, as the code does, and the tree of rules that it has
destroyed is `NoTree`: a further rule then ends the process (`RuleNewAbort`). The census and the
rewrite are operators in the order of the code's sections; loops over symbols and rules that
depend on no order are sets. `RhsClosure` keeps the stack of the code's `rhs_closure`: a symbol is
looked at when it is popped, and a rule that could not add its left side then is looked at again
only if another of its symbols is popped later (`SymbolVisited`).

**Recognizer.** A variable is a field of `struct marpa_r` (the declarations name it),
or the part of the chart that the Earley sets hold. One action is one call, except
that `marpa_r_earleme_complete` is one action per turn of its loops and `pc` says where
the call is:

    idle      --BeginEarleySet-->                       scan
    scan      --ScanToken (each token), EndScan-->      complete
    complete  --CompleteByEarley or CompleteByLeo
                (each completion), PredictAndPostdot--> leo
    leo       --PopulateLim (each Leo item), EndEarleySet--> idle

No call begins while `pc # "idle"`. Calls that return before any Earley set is made
(`CompleteRefused`, `CompletePastFurthest`, `CompleteGap`, `RefuseToken`, `RejectToken`)
are single actions with the code's order of tests. `ret` is the error code and value
that the call returned.

**What is abstracted.** Sets stand for the linked lists and stacks whose order the
results do not depend on: the postdot chains, the completion stack, the sources of an
item. The loops that walk them take their elements in every order, so what is checked
holds for the code's. Tokens are (symbol, start, end, valued or not). The grammar is
a constant, with at least one internal rule: a trivial grammar takes another path in
every function.

**Bocage.** `marpa_b_new` is one action: it reads the chart and changes nothing in it.
`Forest` follows the code's phases. `Reached` is the traversal from the item that
completes the start rule, `ItemOrs` and `PathOrs` are the or-nodes, and `NullingAnds`,
`TokenAnds`, `CompletionAnds` and `LeoAnds` the and-nodes, one definition per section of the
code. The code finds an or-node by set, origin and symbol instance; here it *is* these.
Left out are the or-nodes for nulling symbols on a Leo path, which section
902 puts where nothing looks for them (finding 2); and what happens when an item that a
Leo item skips is also scanned as a token, because its symbol is both a terminal and a
left side.

**Order and tree.** The bocage keeps no order of the and-nodes, so `marpa_o_new` takes
any. `marpa_t_next` is one action per turn of its two loops, and `turn` says where it is:

    idle    --TreeNextBegin (first call)--> expand
    idle    --TreeNextBegin (later)-------> iterate
    iterate --PopNook*, NextChoice--------> expand
    iterate --NoMoreTrees-----------------> idle, exhausted
    expand  --ExpandChild, ExpandDone*, TreeFinished--> idle
    expand  --ExpandCycle-----------------> iterate

`nooks` is the nook stack, `worklist` the indexes not yet expanded, `inUse` the bit vector
of or-nodes that guards against cycles. `parses` is a history variable: the trees that
were returned.

**Valuator.** `marpa_v_step` is one action: the loop over the nooks, which ends at the
next step that the application is told of, is the recursive function in `Found`, and one
turn of it `Visited`. A nook is popped from behind: first its token (`TokenVisited`), then, if it
is the last of its rule, the rule (`RuleVisited`), where a virtual rule only adds to the stack
of counts. `slots` is the stack that the application keeps, and `trail` the steps it was told
of. The settings (`SymbolSet`, `ValuedForce`) may be called between any two steps.

**Lifecycles.** One action is one call, except that giving back a reference is one action per
count that goes down (`Unref`, then `Release` or `Free` for each object of the cascade).
Objects are addresses that are used again. An application uses an object only as long as it
holds a reference to it, which is what the interface requires.

**Progress reports.** A report is the set that the AVL tree holds. `Owners` is the walk from a
virtual rule to the items that wait for it, with the return at a Leo item (finding 5).

## 3. Runs

Each grammar is there for a case of the code; each run takes at most about two and a half
minutes, most of them less than one.

| Run | Grammar, bounds | Question |
|---|---|---|
| `input` | right recursion, a rule that an assertion bars, one terminal forced to be valued; lengths 0, 1, 2 and 4 against a threshold of 4 | any order of calls, refused lengths, overlapping tokens; predecessors exist all the same; exhaustion exact; locked symbols keep their kind |
| `leo` | two right recursions whose Leo chains join; lengths 1 and 2; completion events, that of the recursive symbol not active; bocages at -2, -1, 1 and 5 | Leo tops and origins, merged event lists, refinement of `EarleyParser`; chart, progress reports and bocages are those of Earley's algorithm |
| `alternatives` | array of alternatives, all insertions and pops | the binary search and the set it implements |
| `tree` | a symbol ambiguous at two depths, with a cycle of unit rules, in a start symbol that is nullable, and one token that is ambiguous without a cycle; ranked, not ranked or high ranks only; one valuator; an event switched on and off that its symbol does not declare | trees that go round are given up, every other one is returned once, whatever is called between two of them; the loops of recognizer and iterator end; the ambiguity metric, with cycles and without; paused trees; the count that guards events |
| `values` | a rule with a nullable symbol and a sequence, rewritten; valued symbols and rules that are set at any time; trace on or off | or-nodes of nulling symbols, the nulling tree; each step of a valuator, and the places of the arguments of a rule over its virtual rules |
| `grammar` | see below | the calls, the census, the loop test, the rewrite, the tables |
| `lifecycle` | six objects | nothing freed too early, nothing kept, trees paused |
| `prediction_events` (violation) | a rewritten rule with a prediction event | finding 1 |
| `bocage_trailing_null` (violation) | a nulling symbol after a right recursion | finding 2 |
| `nulled_sequence` (violation) | the sequences of `grammar` | finding 3 |
| `lost_bocage` (violation) | six objects | finding 4 |
| `progress_virtual` (violation) | a right recursive rule in two pieces | finding 5 |

**Bounds of the recognizer.** `EarlemeThreshold` (the code's `JEARLEME_THRESHOLD`, INT_MAX/4)
is 3 to 5: the checks relate the current earleme, a token's length and the furthest
earleme, and three or four earlemes hold every relative order of these (before, at, one
past, in a gap, beyond). A Leo chain needs three sets to have a bottom, a middle and a
top, and joined chains four tokens. Lengths 1 and 2 are enough for overlaps and gaps; `input`
adds one that is not positive and one that is too long. Activations and expectation events
are switched for the symbols where a run is about them and for no other. The array of
alternatives holds up to eight tokens of two symbols, two starts and three ends, so that
every field of the comparison decides somewhere and the search takes up to four turns.

The bocage, tree and value runs stop calling the recognizer once there is a bocage, and asking
for bocages once there is an order: neither changes what the later object holds. There is
one order per bocage and one tree per order, because a second one would share nothing with
the first but counts of references. `MaxPauses` is 1: the pause count is only compared with
zero, and `lifecycle` has several valuators of a tree. The valuator may be set for one symbol
that is nullable and for one rule that is a sequence; tokens are all valued there.

**Bounds of the grammar.** A run begins with a grammar that calls have built and makes a
few calls (`calls`: of which kinds, and how many). Complete grammars are just precomputed: a
rule of up to four symbols, each of them nullable, nulling or a terminal, and of up to six
nullable ones, so that a rule is cut into up to four pieces and ends in each way; sequences
with and without separators, of any kind, proper or not; up to four rules from a pool of
twelve over two symbols that are recursive, nullable, unproductive or out of reach, with
terminals locked and not; ranks at both ends of their range. Others are changed with
arguments that exist, do not exist and are no IDs (0, 1, 2, 7), before a precomputation,
after one, and after one that failed. `IntMax` is 15 for INT_MAX, of which the code's limits are
fractions; `MaxRhsLength` is 6; languages are compared up to strings of `MaxString` = 3 symbols,
enough to tell a piece that is missing or too many. `LocksHold`, `CensusIsExact` and
`RewriteKeepsLanguage` are action properties: about a call, or the precomputation.

**Bounds of the lifecycles.** Six objects are a chain of grammar, bocage, order, tree and
valuator with one to spare: a second valuator, a recognizer or a lost bocage. The application
holds up to two references to one object (`MaxHandles`, `MaxShared`), and loses one bocage at
most (`MaxLost`). The objects are interchangeable, so they are declared symmetric; all
properties of these runs are invariants. Elsewhere nothing is symmetric.

**Fairness.** `WF_vars(InternalStep)`: once `marpa_r_earleme_complete` is entered it
runs to its end, as a C function does (`TreeSpec` repeats it); `WF_vars(Search)` says the
same of the binary search, `WF_allVars(Turn)` of `marpa_t_next`. Nothing makes the application call anything, and no property needs it to.

**Deadlock** is checked in every run but `grammar`, where the calls that are made run out: between calls the application may always call
something, and a call that has begun always has a step until it returns.

## 4. Proofs

TLC checks small grammars; the theorems hold for every grammar that satisfies
`GrammarAssumption` and every value of the bounds that satisfies `RecognizerAssumption`
(and `OrderAssumption` and `TreeAssumption`: ranks are integers, `MaxPauses` a number).
The first says what precomputation guarantees: rules are over symbols and have at least
one symbol that is not nulling, no rule but the start rule has its left side and no rule
uses it, the tables between external and internal symbols agree, external symbols and rules
are finitely many, and events that start active are declared. `PositionAssumption` of
`RulePositions`, which the bocage extends, adds how long external rules are and that a right side
has one virtual symbol at most. That precomputation makes such grammars is checked by TLC
(`BuiltGrammarIsLegal`). Neither bounds the number of symbols or rules, and right recursion, ambiguity
and cycles are not excluded.
Every theorem is proved as `Spec => []Inv` from an invariant `...Inv` that `Init` satisfies
and every action keeps, one step per action.

**Recognizer, input.**

* `TypeCorrect`. `TypeInv` adds to `TypeOK` that the chart is empty before input starts,
  that `pc` leaves "idle" only during input and which work sets are empty at which `pc`.
* `EventsAreCounted`. The count that guards `trigger_events` starts from the declared
  events and each switch changes it by what it changes of a set: `CountInv` says that it
  is never below the number of active events (it may stay above it for ever).
* `TokensStayPending`, `FurthestHasToken` and `ExhaustionCorrect` need each other, and all
  need `TypeInv`: `InputInv` is their conjunction, proved by one step per action. The
  second is the one that looks suspicious in the code (the furthest earleme is raised
  before a duplicate is found out): a duplicate's end is already the end of a pending
  token. `RejectionCorrect` and `ValuesCorrect` follow from these and from step lemmas of
  their own.

**Recognizer, chart.**

* `CompletionsSpan`: a completed item begins before the set it is in. The inductive
  `SpanInv` has to speak of every item whose dot has moved, of the bases of the Leo items,
  populated or not, and of the completion stack.
* `SetsFrozen`: finished sets never change. What a completion looks up in an earlier set,
  and what a Leo item was populated from, is then what is there for ever; every later
  argument uses it through `PimsFrozen` and `LimsFrozen`.
* `PredecessorsExist`: the lookup that the code dereferences without a test always finds
  an item. `WaitInv` has to promise the same for the top of every Leo item, whose item may
  be made many sets later.
* `LeoFaithful`: `LeoInv` says that the Leo item stands for the only item that waits for
  its symbol, and that one populated without a predecessor has none that is still pending.
  The second needs that a chain of pending Leo items never closes. The base of a pending
  item with a pending predecessor is a prediction, so the items of a circle would be
  predictions; `PredictInv` backs a prediction by an item whose dot has moved, and the rules
  that lead from that item into the circle enter it through an item outside of the circle
  that waits for one of its symbols, where only the base of the Leo item may wait. So
  `bv_ok_for_chain`, the guard of the code against circles, is never what ends a walk.
* `ChartIsSound`: any chart that is closed under what Earley's algorithm requires
  (`EarleyClosed`: start item, prediction, scan, completion) for the tokens scanned
  holds every item. In `SoundInv` a Leo item is a promise: where a completion of its base
  would be, its top is.
* `ChartComplete`: between calls the chart and the completions that Leo items hide are
  closed. `DoneInv` follows each completion from the stack to its effects and each token
  from the scan to its items, and shows that neither is ever out of date; that the hidden
  completions are closed too uses that the Leo item of the predecessor has the same top.

The last two pin the chart down: it lies between Earley's chart and that chart without
the completions that a Leo item skips on the way to a top that is there.

**Recognizer and reference** (`RecognizerRefinementProofs`).

* `ChartIsLeast`. `EarleyChart` computes its chart: rounds of prediction and completion at an
  earleme until one adds nothing. That this ends and gives the least set closed under the
  rounds is an induction over the items that are not yet in, which are finitely many
  (`AhmsAreFinite`, `ItemsAreFinite`); that the chart of all earlemes is closed, and within every
  closed chart (`EarleyClosed`), is one over earlemes.
* `ItemsAreThoseOfEarley`. Soundness, applied to the reference chart, and leastness, applied
  to items and hidden completions, put the chart between the reference and the reference without
  what Leo items hide (`ChartsAgree`). A hidden item is complete and begins after earleme 0, so
  that no expected terminal and no parse is missed.
* `RecognizerImplementsParser`. `ParserInv` says that the terminals expected, the earleme and
  exhaustion are those of the abstract parser; every action of the recognizer is `Start`,
  `Read`, `Pass`, `Begin` or `Finish` of the parser, or a stutter.
* `EventsCorrect`. An event of a completion that was never made must come from the list of the
  Leo item that skipped it. `LinkInv` says that each completion that met a Leo item has left a Leo
  link, so that the items together with the completions that links stand for are closed;
  `CilInv` that the list of a Leo item holds its own event and those of its predecessor. The
  code stops merging when a list is as long as the largest list of the group. That loses
  nothing: right recursion comes back to a rule only by way of right recursive rules
  (`LeoRulesRecur`), and so the lists along a chain are all within one group, which is finite.

**Array of alternatives.** For arrays and tokens of any size `ArrayIsSorted`,
`SearchStaysFramed` and `ArrayImplementsSet`. `StackInv` is sortedness with the frame of the
search: all below `lo` stands before the new token and all above `hi` after it, so that
where the bounds meet is its only place. `Compare` is a strict order on tokens because the
start, the end and the symbol identify one.

**Tree iterator.** `TreeSpec` includes the recognizer and the bocage, so these theorems
hold for every bocage that can be made of a chart, every order and every ranking.

* `InUseCorrect`: the bit vector of or-nodes in use is exact. `NookInv` follows the stack
  through every turn: a changed nook keeps its or-node and its parent, a popped one was the
  only nook of its or-node if that spans input, a pushed one passed the test for cycles.
  The first push makes no such test; it is right because the stack is empty then and because
  the top or-node spans input (`TopSpans`), which comes from the chart: its item completes
  the start rule in a later set than 0 and `TypeInv` holds below the bocage (`ForestInv`).
* `TreeTypeCorrect`: from the same invariant, and the ranges of pauses and metric.
* `PausedStaysStill`: `PauseInv` says that a paused tree is between calls and that its order
  is frozen.
* `EveryParseIsReturned`: the iterator returns the parse trees of its bocage and order, each
  once and none with a cycle, and is exhausted when there is no other. The reference is a
  recursion over the or-nodes (`TreesOf`), the code a backtracking search with flags. The
  argument has two parts.
  - *The search, over any sound forest.* `ForestIsSound` says what the code relies on: finitely
    many or-nodes, and-nodes that divide the span of their or-node without overlap, no or-node
    without an and-node, no and-node twice in an order. Since spans do not overlap, an or-node
    comes into a tree twice only below itself, or where it spans nothing; so a stack without a
    cycle is a part of a tree, and a full one is a tree. `SearchInv` says that the trees passed
    are those returned and that all others are ahead of the stack: every turn (expand, next
    choice, pop) splits what is ahead or moves a tree from one to the other.
  - *The forest, from the chart* (`BocageProofs`). `ChartInv` follows the links of the Earley
    items: the sources of a link are in the chart and divide its effect, every item whose dot has
    moved has a link, Leo items are finitely many and never follow each other in a circle. So the
    recursion over a chain of Leo items and the search for the items of the bocage end
    (`AboveIsChain`, `ReachedIs`), and each kind of and-node divides its or-node
    (`NullingDivides` ... `LeoDivides`). The insertion sort of `marpa_o_rank` moves and-nodes
    and loses none (`ByRankIs`), and of the highest ranked ones there is at least one.

  `EveryParseIsReturned` supposes `CausesExist` of the bocage, since finding 2 says that it need
  not hold. `CausesFound` says where it does: in every grammar without nulling symbols at the end
  of a right recursive rule (`NoNullsAfterRecursion`), because only there two sections of the code
  look for the or-node of a Leo path at two places. `EveryParseIsReturnedOnce` is the theorem for
  these grammars, that of the run `tree` among them.

**Bocage.** `BocageCorrect`: under the same hypothesis each or-node divides in just the ways that
Earley's algorithm without Leo items finds, once each, and there is no or-node that nothing leads
to. The code never sees what it is compared with: it follows the links of a chart in which Leo
items have left out the completions between the two ends of a right recursion, and makes up what they
skip. `DerivationInv` says what the chart has to have for that. The argument:
  - *The links are all there* (`TokensLinked`, `CompletionsLinked`). Every item that waits for a token
    that was read has its token link. Every completion has a link with each item that waits for it,
    or one with the Leo item that stands for the only one that does. Two Leo items of one set are
    never of one symbol, so a chain of them does not come back to a symbol at a set (`PredecessorOnce`,
    `ChainsDoNotReturn`).
  - *The reference chart from the code's* (`ChartUpTo`). Up to an earleme it is the items of the code
    and the items that the paths of the Leo links go through (`PathItems`). Both inclusions: the
    paths are derived step by step (`PathsBelow`), and the two together are closed (`PathsClosed`).
  - *What the search holds* (`HeldFromStart`, `OrsAreHeld`). It finds the start and only what leads
    back to it; the or-node of an item that is held is found again by its place, and the or-node
    of a step on a path belongs to the item or the path it was made for.
  - *Both directions for each kind of and-node.* Those of tokens, completions and Leo paths are divisions
    (`TokenAndsDivide`, `CompletionAndsDivide`, `LeoAndsDivide`), and each division of an or-node is one of
    them (`DivisionsAreThere`); nulling symbols have just one (`NullingAndIs`).
  - *Nothing superfluous* (`OrsAreLedTo`). An item that is held is the source of a link of another,
    and the and-node of this link leads to it.

**Valuator.** `SettledStays`, over the same specification with a valuator on top: a symbol that is
settled as valued or as not stays so, whatever is called. `ValuatorInv` is about the locks: the walk of
`marpa_v_step`, of any number of turns, changes no setting, and its first call locks them all.
`marpa_v_valued_force` refuses when a symbol is locked as not valued, and what it has forced
before it finds that out is no symbol that was settled otherwise.

`StepsAreOfTheTree` and `StepsAreOfTheParse`: the steps returned so far are a beginning of those
that the recursive `Evaluation` of the tree gives. The code does not recurse: it goes through the
stack of nooks of the tree iterator from the last to the first. The argument:
  - *The order of the nooks* (`OrderInv`). What is below a nook stands together on the stack, after
    it, the nooks of its cause after those of its predecessor: the iterator pushes in this order,
    and pops from the top.
  - *Walk and recursion.* By the number of nooks below one (`EvaluationIs`), the recursion over a
    nook gives what the walk from the last nook below it to itself gives.
  - *Between two calls* the trail of steps is the walk down to the nook where the valuator stands
    (`EvaluationInv`). One call passes all nooks that add no step, and settings made between two calls
    change nothing of what has been passed: a token read with a value has its step whatever is
    said of its symbol afterwards, and rules are settled by the first step.
  - *Tokens* (`TokensInv`, `ToldTokenWasRead`). A token link starts where its predecessor item ends and ends
    at its effect, so the token of an and-node of the bocage is one that was read there.

The first supposes `CausesExist`, the second `NoNullsAfterRecursion`, as for the tree iterator.

`ArgumentsAreOfTheRule`: at a rule the places from `arg_0` to `arg_n` of the application's stack hold the values
of its children, as many as the external rule has symbols. It holds of trees in which every token has a value (the
places of others are counted wrongly, see Findings), and supposes `NoNullsAfterRecursion`. The code knows
neither the children nor where they are: it moves the end of a stack, and keeps a second stack of counts for
the virtual rules whose symbols are part of a longer rule. The argument:
  - *Positions* (`FollowsInv`). Each and-node of the bocage leads one position on in its rule: its
    predecessor is the or-node of the position before, its cause a token, a nulling symbol or a completed rule of the
    symbol there. This comes from `BocageCorrect`, because the divisions of the reference do so. With
    `PositionAssumption` the nook at the end of a rule has as many places below it as the rule has symbols.
  - *The stacks of the recursion* (`PilesExist`). For each nook `Piles` says what has to be held
    when the walk comes to it: on the application's stack the values of all finished children, on the other
    the counts of the virtual rules that are not yet used. A rule with a virtual symbol uses exactly the
    count of that symbol (`ArgumentsFit`), because no other symbol of it is virtual.
  - *The walk* (`PlaceInv`). Between two calls both stacks of the code are those of the nook where it stands;
    the end of the first, `arg_n`, and the arguments that are still to be popped agree with them.
    Each turn of the walk keeps this (`PlaceStep`), whatever has been set in between, because a step that
    nobody is told of takes a place all the same.

**Lifecycles.** For any number of objects, handles and lost bocages. `LifecycleInv` balances
each count: the handles of the application, the objects made from this one that have not yet
given back their reference, the reference that a cascade is about to give back, and what was
lost. `NothingInUseFreed`, `NothingUnusedKept` and `TreesAreHeld` (a paused tree has as many
valuators as pauses) follow.

**Grammar.** These hold for all calls in any order, with any arguments.

* `ClosureIsLeast`: the three loops of `transitive_closure` compute the least transitive
  relation that holds the matrix. After the pass for k, all paths over the first k rows are
  single bits.
* `GrammarStaysBuilt`, `NoRuleTwice`: no rule is held twice, and a symbol with a sequence has
  no other rule. The code compares with no list of rules, but with a tree and a flag of the left side,
  and `BuiltGrammar` says that these tell of every rule; a failed precomputation that destroyed the
  tree keeps it, because no rule can be made any more. `Init` starts from `Beginnings`, which are
  assumed to be grammars that calls have built (`BeginningsAssumption`); `NewGrammarIsBuilt` and
  `GrammarStaysBuilt` are what this assumption stands for.
* `NoLockUndone`: no call, failed precomputations included, undoes a lock of a symbol. The proof
  goes through census and rewrite section by section: what each leaves alone.

**Only model-checked.** `CallsReturn`, `SearchEnds` and `TreeCallsReturn` are liveness under
fairness, which is out of the prover's reach. `ReportIsFull` does not hold of every grammar (finding 5), and
neither does `BocageIsExact` where the hypothesis of `BocageCorrect` fails (finding 2).
`MetricTellsAmbiguity` says that a metric of 1 means one parse at most, and that it is exact where the
and-nodes that the order keeps lead to no cycle. More would be false: an and-node that goes round
makes the metric 2 (see the end of Findings), and ranks that prefer one may leave no parse at a metric of 1. That an
ambiguous forest without a cycle has several trees is an induction over the forest. `GrammarTypeOK` and `BuiltGrammarIsLegal` are about a first precomputation: after one that
failed, flags of its census remain, and a second one may then meet a symbol that has no internal symbol
(7937), which the documentation rules out by allowing no further call after such a failure.
`GrammarTypeOK`, `BuiltGrammarIsLegal`, `EveryNullingOnce`, `LoopRulesAreExact`, `CensusIsExact` and
`RewriteKeepsLanguage` are about the tables and languages that precomputation makes, and
their references are RECURSIVE operators, which the prover does not take. The findings stay with
TLC too. **Only proved**, and so in no run: `CompletionsSpanInput`, `SetsAreFrozen`,
`SearchIsFramed`, `LifecycleTypeOK`, `ChartIsLeast`, `CausesFound`, `ClosureIsLeast` and `GrammarStaysBuilt`.

## 5. Findings

1. *Prediction events inside their own symbol* (`prediction_events`; code 9560-9565): the
   event of a left side whose rule was rewritten triggers at its virtual symbols too,
   where the symbol is not acceptable, against `Event.pod:442`.
2. *An and-node without a cause* (`bocage_trailing_null`; code 15025-15057 and 15240-15250):
   when a rule that ends with nulling symbols is on a Leo path, the or-nodes of these
   symbols go into the list of one set and are looked up in that of another. The assertion
   at 14425 says that this cannot be; without assertions the tree iterator follows the
   null pointer. The smallest case is `S ::= a S n | a` with `n` nulling and three tokens.
3. *Nulled events of sequence elements* (`nulled_sequence`; code 7684-7690): an element that
   cannot be null counts as nulled with its nullable sequence, and so its nulled event triggers
   where it has no nulled instance, against `Event.pod:388`.
4. *A lost bocage* (`lost_bocage`; code 14651-14660): `marpa_b_new` for an ordinal that does
   not exist returns without giving back the bocage it has made and its reference to the
   grammar, against `Thin.pod:128`.
5. *A progress report without a virtual rule's position* (`progress_virtual`; code 14141): the
   walk from a virtual rule to its owners stops at a Leo item, instead of unfolding it, against
   `Progress.pod:696`. The smallest case is `A ::= x B B B A | a`, `B` nullable, after one `x`.

Seen while modelling, and stated by no document: a terminal that is not locked takes a valued
token after an unvalued one (12159-12186; in the other order the call is refused); arguments of a
rule with unvalued tokens, which are deprecated, are counted from a wrong place (18164).

Seen while modelling too, against a document and in no run of its own: `R.pod:1501-1505` says of the
ambiguity metric that it is 1 "if there was exactly one parse tree" and 2 or greater "if there was
more than one". It is 2 as soon as an or-node has a second and-node (15406), and one that only
leads round a cycle counts, though the tree iterator gives up every tree that uses it (16912):
`S ::= A`, `A ::= B`, `B ::= A | b` has one parse of `b` and the metric 2. So `MetricTellsAmbiguity`
claims both directions only where nothing goes round (`GoesRound`).

## 6. Plan

1. Recognizer input and Earley sets, Leo items, events: **done**.
2. The array of alternatives and its refinement: **done**, checked and proved.
3. Proofs: types, input, event count, spans, frozen sets, predecessors, Leo items, soundness
   and completeness of the chart, events of hidden completions, the refinement of
   `EarleyParser`; the sorted array and its refinement: **done**.
4. Lifecycles: reference counts and pause counts of the six classes: **done**, checked and
   proved for any number of objects.
5. Bocage, order, tree and valuator over the chart: **done**, checked; types, the or-nodes in
   use, pauses and parses of the tree iterator, the divisions of the bocage, and the settings,
   steps and places of a valuator proved.
6. Grammar building and precomputation: **done**, checked against the languages of the
   original and rewritten grammars; locks, distinct rules and the closure proved. Left: proofs about the
   census and the rewrite of sequences.
7. Progress reports, bit matrices: **done** but for the traversal of a report. Left: a proof that
   reports are full, the CIL arena, the reuse of per-set arrays.

## 7. Not modelled

Memory allocation, obstacks and the vendored balanced trees (taken for what they
represent); names, messages and tracing, with the cursors of the trace functions; getters of
the recognizer, the forest and the valuator that change nothing; recognizers of trivial grammars,
which never read; the configuration object.

The SLIF loop (`R2.xs`) and the Perl layers: they drive the library with the text of an
application, regular expressions of characters and callbacks, and what they add is for the
most part a matter of strings. The Perl wrappers only translate names. Generated files, and the
HTML parser, which is an application of the library.
