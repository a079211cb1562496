---------------------------- MODULE GrammarRules ----------------------------
(***************************************************************************)
(* The methods of a grammar that make, change and ask for its rules, and   *)
(* those for its zero-width assertions.                                    *)
(***************************************************************************)
EXTENDS GrammarObjects

RuleChecks(r) == FirstOf(<<BadRule(r), MissingRule(r)>>)
ClosedRuleChecks(r) == FirstOf(<<NotClosed, RuleChecks(r)>>)
RankRuleChecks(r) ==
    FirstOf(<<BadRule(r), Hard(r > Len(g.xrls), "NO_SUCH_RULE_ID")>>)

RuleHas(r, flag) == Boolean(flag \in g.xrls[r].is)
IsSequence(r) == IsXrl(r) /\ "sequence" \in g.xrls[r].is

-----------------------------------------------------------------------------
(***************************************************************************)
(* New rules.                                                              *)
(***************************************************************************)
\* A mutant of RuleNewChecks: the left side may have a sequence.
RuleNewChecksBesideSequence(lhs, rhs) ==
    FirstOf(<<
        NotOpen,
        Hard(Len(rhs) > MaxRhsLength, "RHS_TOO_LONG"),
        Hard(~ IsXsy(lhs), "INVALID_SYMBOL_ID"),
        Hard(\E d \in 1 .. Len(rhs) : ~ IsXsy(rhs[d]), "INVALID_SYMBOL_ID"),
        Hard(RuleKey(lhs, rhs) \in g.xrlTree, "DUPLICATE_RULE")>>)

RuleNewChecks(lhs, rhs) ==
    FirstOf(<<
        NotOpen,
        Hard(Len(rhs) > MaxRhsLength, "RHS_TOO_LONG"),
        Hard(~ IsXsy(lhs), "INVALID_SYMBOL_ID"),
        Hard(\E d \in 1 .. Len(rhs) : ~ IsXsy(rhs[d]), "INVALID_SYMBOL_ID"),
        Hard(XsyIs(lhs, "sequenceLhs"), "SEQUENCE_LHS_NOT_UNIQUE"),
        Hard(RuleKey(lhs, rhs) \in g.xrlTree, "DUPLICATE_RULE")>>)

\* marpa_g_rule_new comes to the insertion into a tree that is not there.
RuleNewAborts(lhs, rhs) ==
    /\ g.xrlTree = NoTree
    /\ RuleNewChecks(lhs, rhs) = Ok

RuleNew(lhs, rhs) ==
    /\ ~ RuleNewAborts(lhs, rhs)
    /\ Call(RuleNewChecks(lhs, rhs), Len(g.xrls) + 1, WithRule(g, lhs, rhs))

\* The process ends in marpa_g_rule_new: no call is made after it.
RuleNewAbort(lhs, rhs) ==
    /\ RuleNewAborts(lhs, rhs)
    /\ error' = "ABORTED"
    /\ UNCHANGED <<g, result>>

\* marpa_g_sequence_new; flags is a set of "keep" and "proper".
SequenceNew(lhs, rhs, separator, min, flags) ==
    Call(FirstOf(<<
            NotOpen,
            Hard(separator # NoId /\ ~ IsXsy(separator), "BAD_SEPARATOR"),
            Hard(~ IsXsy(lhs), "INVALID_SYMBOL_ID"),
            Hard(XsyIs(lhs, "lhs"), "SEQUENCE_LHS_NOT_UNIQUE"),
            Hard(~ IsXsy(rhs), "INVALID_SYMBOL_ID")>>),
         Len(g.xrls) + 1,
         WithSequence(g, lhs, rhs, separator, min, flags))

-----------------------------------------------------------------------------
(***************************************************************************)
(* What a rule is.                                                         *)
(***************************************************************************)
RuleLhs(r)    == Ask(RuleChecks(r), g.xrls[r].lhs)
RuleLength(r) == Ask(RuleChecks(r), RhsLength(r))

RuleRhs(r, ix) ==
    Ask(FirstOf(<<RuleChecks(r), Hard(ix < 1, "RHS_IX_NEGATIVE"),
                  Hard(ix > RhsLength(r), "RHS_IX_OOB")>>),
        g.xrls[r].rhs[ix])

RuleRank(r) == CallCleared(RankRuleChecks(r), g.xrls[r].rank, g)

RuleRankSet(r, rank) ==
    CallCleared(FirstOf(<<NotOpen, RankRuleChecks(r),
                          RankTooLow(rank), RankTooHigh(rank)>>),
                rank, [g EXCEPT !.xrls[r].rank = rank])

RuleNullHigh(r) == Ask(RuleChecks(r), RuleHas(r, "nullHigh"))

RuleNullHighSet(r, v) ==
    Call(FirstOf(<<NotOpen, RuleChecks(r), BadBoolean(v)>>),
         v, [g EXCEPT !.xrls[r].is = WithFlag(@, "nullHigh", v)])

SequenceMin(r) ==
    Ask(FirstOf(<<RankRuleChecks(r), Soft(~ IsSequence(r), "NOT_A_SEQUENCE")>>),
        g.xrls[r].min)

SequenceSeparator(r) ==
    Ask(FirstOf(<<RankRuleChecks(r), Hard(~ IsSequence(r), "NOT_A_SEQUENCE")>>),
        g.xrls[r].separator)

RuleIsKeepSeparation(r)   == Ask(RuleChecks(r), 1 - RuleHas(r, "discard"))
RuleIsProperSeparation(r) == Ask(RuleChecks(r), RuleHas(r, "proper"))
RuleIsLoop(r)       == Ask(ClosedRuleChecks(r), RuleHas(r, "loop"))
RuleIsNulling(r)    == Ask(ClosedRuleChecks(r), RuleHas(r, "nulling"))
RuleIsNullable(r)   == Ask(ClosedRuleChecks(r), RuleHas(r, "nullable"))
RuleIsAccessible(r) == Ask(ClosedRuleChecks(r), RuleHas(r, "accessible"))
RuleIsProductive(r) == Ask(ClosedRuleChecks(r), RuleHas(r, "productive"))
RuleIsUsed(r)       == Ask(RuleChecks(r), RuleHas(r, "used"))

-----------------------------------------------------------------------------
(***************************************************************************)
(* Internal rules, as the methods for debugging show them.                 *)
(***************************************************************************)
ClosedIrlChecks(i) == FirstOf(<<NotClosed, BadIrl(i)>>)

\* A rule with a virtual left side has no equivalent.
IrlSemanticEquivalent(i) ==
    Ask(BadIrl(i), IF g.irls[i].virtualLhs THEN NoId ELSE g.irls[i].source)

IrlLhs(i)    == Ask(ClosedIrlChecks(i), g.irls[i].lhs)
IrlLength(i) == Ask(ClosedIrlChecks(i), Len(g.irls[i].rhs))

IrlRhs(i, ix) ==
    Ask(ClosedIrlChecks(i),
        IF ix > Len(g.irls[i].rhs) THEN NoId ELSE g.irls[i].rhs[ix])

IrlIsVirtualLhs(i) == Ask(ClosedIrlChecks(i), Boolean(g.irls[i].virtualLhs))
IrlIsVirtualRhs(i) == Ask(ClosedIrlChecks(i), Boolean(g.irls[i].virtualRhs))
RealSymbolCount(i) == Ask(ClosedIrlChecks(i), g.irls[i].realCount)
VirtualStart(i)    == Ask(ClosedIrlChecks(i), g.irls[i].virtualStart)
VirtualEnd(i)      == Ask(ClosedIrlChecks(i), g.irls[i].virtualEnd)
SourceXrl(i)       == Ask(BadIrl(i), g.irls[i].source)
IrlRank(i)         == Ask(BadIrl(i), g.irls[i].rank)

-----------------------------------------------------------------------------
(***************************************************************************)
(* Zero-width assertions.                                                  *)
(***************************************************************************)
ZwaNew(v) ==
    Call(FirstOf(<<NotOpen, BadBoolean(v)>>),
         Len(g.zwas) + 1, [g EXCEPT !.zwas = Append(@, v)])

HighestZwaId == Ask(Ok, Len(g.zwas))

\* marpa_g_zwa_place: NoId places an assertion after the last symbol.  Placing one
\* twice is told by the answer, and is no error.
ZwaPlace(zwa, r, ix) ==
    LET dot == IF ix = NoId THEN RhsLength(r) + 1 ELSE ix
        placement == [rule |-> r, dot |-> dot, zwa |-> zwa]
    IN  Call(FirstOf(<<
                NotOpen, RuleChecks(r),
                Hard(zwa < 1, "INVALID_ASSERTION_ID"),
                Hard(zwa > Len(g.zwas), "NO_SUCH_ASSERTION_ID"),
                Hard(ix < NoId, "RHS_IX_NEGATIVE"),
                Hard(ix > RhsLength(r), "RHS_IX_OOB")>>),
             IF placement \in g.zwps THEN -1 ELSE 0,
             [g EXCEPT !.zwps = @ \cup {placement}])
=============================================================================
