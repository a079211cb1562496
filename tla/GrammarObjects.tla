--------------------------- MODULE GrammarObjects ---------------------------
(***************************************************************************)
(* The grammar object of libmarpa, struct marpa_g: the external symbols    *)
(* (XSYs) and rules (XRLs) that its methods build, and the internal        *)
(* symbols (NSYs) and rules (IRLs) that marpa_g_precompute makes of them.  *)
(*                                                                         *)
(* Ids and positions begin at 1, those of the code at 0; 0 is an id that   *)
(* stands for none (-1 in the code) and a negative one is malformed.  The  *)
(* flags of an object are the set of the names of those that are up.       *)
(***************************************************************************)
EXTENDS Integers, Sequences, FiniteSets

CONSTANTS
    IntMax,         \* INT_MAX
    MaxRhsLength,   \* MAX_RHS_LENGTH
    Beginnings      \* the grammars that the runs begin with, see Grammar!Init

ASSUME GrammarObjectsAssumption == IntMax \in Nat /\ MaxRhsLength \in Nat

VARIABLES
    g,          \* the grammar
    error,      \* t_error
    result,     \* what the last call returned
    calls       \* the kinds of each call that may still be made: a bound of the model

grammarVars == <<g, error, result, calls>>

MaximumRank == IntMax \div 4
MinimumRank == - ((IntMax + 1) \div 4)
ExternalRankFactor == 4
MaximumChafRank == 3

\* The types of the events of a grammar.
CountedNullable == 1
LoopRules       == 4
NullingTerminal == 5

EventKinds == {"completed", "nulled", "predicted"}

NoId == 0
NoTree == {<<"NO TREE">>}   \* the tree of the rules after it was destroyed

-----------------------------------------------------------------------------
(***************************************************************************)
(* New objects.                                                            *)
(***************************************************************************)
\* marpa_g_new.  xrlTree holds the rules by which a duplicate is found.
NewGrammar ==
    [xsys |-> <<>>, xrls |-> <<>>, xrlTree |-> {}, start |-> NoId,
     defaultRank |-> 0, forceValued |-> FALSE, zwas |-> <<>>, zwps |-> {},
     precomputed |-> FALSE, hasCycle |-> FALSE, events |-> <<>>,
     nsys |-> <<>>, irls |-> <<>>, startIrl |-> NoId]

\* symbol_new.
NewSymbol(h) ==
    [rank |-> h.defaultRank,
     is |-> IF h.forceValued THEN {"valued", "valuedLocked"} ELSE {},
     declared |-> {}, startsActive |-> {}, nulls |-> {},
     nsy |-> NoId, nullingNsy |-> NoId]

\* symbol_add.
WithSymbol(h) ==
    [h EXCEPT !.xsys = [x \in 1 .. Len(@) + 1 |-> IF x <= Len(@) THEN @[x] ELSE NewSymbol(h)]]

\* xrl_finish and rule_add; flags tell what the rule is.
NewRule(h, lhs, rhs, flags) ==
    [lhs |-> lhs, rhs |-> rhs, rank |-> h.defaultRank,
     is |-> {"accessible", "productive"} \cup flags, min |-> -1, separator |-> NoId]

Raise(h, x, flags) == [h EXCEPT !.xsys[x].is = @ \cup flags]

\* The symbols or the rules of s, with flags raised in those of X.
RaisedIn(s, X, flags) ==
    [x \in DOMAIN s |-> IF x \in X THEN [s[x] EXCEPT !.is = @ \cup flags] ELSE s[x]]

\* The key of duplicate_rule_cmp: the left side, the length and the right side.
RuleKey(lhs, rhs) == <<lhs, rhs>>

\* xrl_start, the insertion into the tree and xrl_finish, for a BNF rule.
WithRule(h, lhs, rhs) ==
    [Raise(h, lhs, {"lhs"}) EXCEPT
        !.xrlTree = @ \cup {RuleKey(lhs, rhs)},
        !.xrls = Append(@, NewRule(h, lhs, rhs, {"bnf"}))]

\* rule_new and the rest of marpa_g_sequence_new: no tree knows a sequence.
WithSequence(h, lhs, rhs, separator, min, flags) ==
    LET counted == {rhs, separator} \ {NoId}
        discard == IF "keep" \notin flags /\ separator # NoId THEN {"discard"} ELSE {}
        rule == NewRule(h, lhs, <<rhs>>, {"sequence"} \cup discard \cup (flags \cap {"proper"}))
        added == [Raise(h, lhs, {"lhs", "sequenceLhs"}) EXCEPT
                    !.xrls = Append(@, [rule EXCEPT !.separator = separator, !.min = min])]
    IN  [added EXCEPT !.xsys = RaisedIn(@, counted, {"counted"})]

-----------------------------------------------------------------------------
(***************************************************************************)
(* A call.  A problem is an error code and what the call then returns; the *)
(* first problem that a function finds refuses the call.                   *)
(***************************************************************************)
Ok == [code |-> "NONE", value |-> 0]
Hard(holds, code) == IF holds THEN [code |-> code, value |-> -2] ELSE Ok
Soft(holds, code) == IF holds THEN [code |-> code, value |-> -1] ELSE Ok

\* The first problem of a sequence of checks.
FirstOf(checks) ==
    LET found == {i \in 1 .. Len(checks) : checks[i] # Ok}
    IN  IF found = {} THEN Ok
        ELSE checks[CHOOSE i \in found : \A j \in found : i <= j]

\* A call returns its answer and leaves the grammar new, unless it is refused.
Call(problem, answer, new) ==
    /\ result' = IF problem = Ok THEN answer ELSE problem.value
    /\ error' = IF problem = Ok THEN error ELSE problem.code
    /\ g' = IF problem = Ok THEN new ELSE g

\* A call that clears the error first.
CallCleared(problem, answer, new) ==
    /\ result' = IF problem = Ok THEN answer ELSE problem.value
    /\ error' = problem.code
    /\ g' = IF problem = Ok THEN new ELSE g

Ask(problem, answer) == Call(problem, answer, g)

Boolean(b) == IF b THEN 1 ELSE 0

IsXsy(x) == x \in 1 .. Len(g.xsys)
IsXrl(r) == r \in 1 .. Len(g.xrls)

XsyIs(x, flag) == IsXsy(x) /\ flag \in g.xsys[x].is
RhsLength(r) == IF IsXrl(r) THEN Len(g.xrls[r].rhs) ELSE 0

NotOpen     == Hard(g.precomputed, "PRECOMPUTED")
NotClosed   == Hard(~ g.precomputed, "NOT_PRECOMPUTED")
BadSymbol(x)  == Hard(x < 1, "INVALID_SYMBOL_ID")
MissingSymbol(x) == Soft(x > Len(g.xsys), "NO_SUCH_SYMBOL_ID")
BadRule(r)  == Hard(r < 1, "INVALID_RULE_ID")
MissingRule(r)   == Soft(r > Len(g.xrls), "NO_SUCH_RULE_ID")
BadNsy(n)   == Hard(n \notin 1 .. Len(g.nsys), "INVALID_NSYID")
BadIrl(i)   == Hard(i \notin 1 .. Len(g.irls), "INVALID_IRLID")
BadBoolean(v) == Hard(v \notin {0, 1}, "INVALID_BOOLEAN")
RankTooLow(rank)  == Hard(rank < MinimumRank, "RANK_TOO_LOW")
RankTooHigh(rank) == Hard(rank > MaximumRank, "RANK_TOO_HIGH")

HasFlag(x, flag) == Boolean(flag \in g.xsys[x].is)
WithFlag(flags, flag, v) == IF v = 1 THEN flags \cup {flag} ELSE flags \ {flag}

-----------------------------------------------------------------------------
(***************************************************************************)
(* Methods of the grammar as a whole.                                      *)
(***************************************************************************)
HighestSymbolId == Ask(Ok, Len(g.xsys))
HighestRuleId   == Ask(Ok, Len(g.xrls))
IrlCount        == Ask(Ok, Len(g.irls))
NsyCount        == Ask(Ok, Len(g.nsys))
IsPrecomputed   == Ask(Ok, Boolean(g.precomputed))
HasCycle        == Ask(Ok, Boolean(g.hasCycle))
EventCount      == Ask(Ok, Len(g.events))

StartSymbol == Ask(Soft(g.start = NoId, "NO_START_SYMBOL"), g.start)

\* A mutant of StartSymbolSet: a symbol that does not exist is taken.
StartSymbolSetUnchecked(x) ==
    Call(FirstOf(<<NotOpen, BadSymbol(x)>>), x, [g EXCEPT !.start = x])

StartSymbolSet(x) ==
    Call(FirstOf(<<NotOpen, BadSymbol(x), MissingSymbol(x)>>), x, [g EXCEPT !.start = x])

DefaultRank == CallCleared(Ok, g.defaultRank, g)

DefaultRankSet(rank) ==
    CallCleared(FirstOf(<<NotOpen, RankTooLow(rank), RankTooHigh(rank)>>),
                rank, [g EXCEPT !.defaultRank = rank])

\* marpa_g_event answers with the type of an event.
Event(ix) ==
    Ask(FirstOf(<<Hard(ix < 1, "EVENT_IX_NEGATIVE"),
                  Hard(ix > Len(g.events), "EVENT_IX_OOB")>>),
        g.events[ix].type)

ErrorClear == CallCleared(Ok, 0, g)
=============================================================================
