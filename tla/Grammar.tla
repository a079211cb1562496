------------------------------- MODULE Grammar -------------------------------
(***************************************************************************)
(* A grammar in use: an application calls the methods of libmarpa's        *)
(* grammar in any order, marpa_g_precompute among them.  A run begins with *)
(* a grammar of Beginnings, what earlier calls have built, and makes as    *)
(* many calls as that beginning allows, each of the kinds that it allows.  *)
(***************************************************************************)
EXTENDS GrammarSymbols, GrammarRules, GrammarPrecompute

CONSTANTS           \* the arguments that are tried
    Ids,            \* of symbols, rules, assertions, positions and the like
    Ranks,
    Booleans,       \* 0, 1, and what is neither
    RightSides,     \* sequences of Ids
    Minimums

ASSUME CallAssumption ==
    /\ Ids \subseteq Int /\ Ranks \subseteq Int /\ Booleans \subseteq Int
    /\ RightSides \subseteq Seq(Ids) /\ Minimums \subseteq Int

-----------------------------------------------------------------------------
(***************************************************************************)
(* What is true of a grammar after any calls, the new grammar first; the   *)
(* beginnings of the runs are such grammars.                               *)
(***************************************************************************)
SeqShape(s) == Len(s) \in Nat /\ s = [i \in 1 .. Len(s) |-> s[i]]

XsyShape(xsy) ==
    xsy = [rank |-> xsy.rank, is |-> xsy.is, declared |-> xsy.declared,
           startsActive |-> xsy.startsActive, nulls |-> xsy.nulls,
           nsy |-> xsy.nsy, nullingNsy |-> xsy.nullingNsy]

XrlShape(xrl) ==
    /\ xrl = [lhs |-> xrl.lhs, rhs |-> xrl.rhs, rank |-> xrl.rank, is |-> xrl.is,
              min |-> xrl.min, separator |-> xrl.separator]
    /\ Len(xrl.rhs) \in Nat

GrammarFields(h) ==
    h = [xsys |-> h.xsys, xrls |-> h.xrls, xrlTree |-> h.xrlTree, start |-> h.start,
         defaultRank |-> h.defaultRank, forceValued |-> h.forceValued,
         zwas |-> h.zwas, zwps |-> h.zwps, precomputed |-> h.precomputed,
         hasCycle |-> h.hasCycle, events |-> h.events, nsys |-> h.nsys,
         irls |-> h.irls, startIrl |-> h.startIrl]

GrammarShape(h) ==
    /\ GrammarFields(h)
    /\ SeqShape(h.xsys) /\ \A x \in XsysOf(h) : XsyShape(h.xsys[x])
    /\ SeqShape(h.xrls) /\ \A r \in XrlsOf(h) : XrlShape(h.xrls[r])

\* The tree of the rules and the flags of the left sides tell of every rule, as long
\* as a rule may be added.
RulesAreKnown(h) ==
    \A r \in XrlsOf(h) :
        LET xrl == h.xrls[r]
        IN  /\ xrl.lhs \in XsysOf(h) /\ "lhs" \in h.xsys[xrl.lhs].is
            /\ IF SequenceIn(h, r) THEN "sequenceLhs" \in h.xsys[xrl.lhs].is
               ELSE h.xrlTree # NoTree => RuleKey(xrl.lhs, xrl.rhs) \in h.xrlTree

RulesDiffer(h) ==
    \A q, r \in XrlsOf(h) : q # r =>
        /\ <<h.xrls[q].lhs, h.xrls[q].rhs>> # <<h.xrls[r].lhs, h.xrls[r].rhs>>
        /\ SequenceIn(h, q) => h.xrls[r].lhs # h.xrls[q].lhs

BuiltGrammar(h) == GrammarShape(h) /\ RulesAreKnown(h) /\ RulesDiffer(h)

ASSUME BeginningsAssumption == \A b \in Beginnings : BuiltGrammar(b.grammar)

Init ==
    \E b \in Beginnings :
        /\ g = b.grammar
        /\ calls = b.calls
        /\ error = "NONE"
        /\ result = 0

-----------------------------------------------------------------------------
(***************************************************************************)
(* The calls.                                                              *)
(***************************************************************************)
GrammarQuery ==
    \/ HighestSymbolId \/ HighestRuleId \/ HighestZwaId
    \/ IrlCount \/ NsyCount \/ AhmCount
    \/ IsPrecomputed \/ HasCycle
    \/ StartSymbol \/ DefaultRank
    \/ EventCount \/ \E ix \in Ids : Event(ix)
    \/ ErrorClear

GrammarChange ==
    \/ \E x \in Ids : StartSymbolSet(x)
    \/ \E rank \in Ranks : DefaultRankSet(rank)
    \/ ForceValued
    \/ SymbolNew
    \/ \E v \in Booleans : ZwaNew(v)

SymbolQuery(x) ==
    \/ SymbolIsStart(x) \/ SymbolRank(x) \/ SymbolIsValued(x)
    \/ SymbolIsAccessible(x) \/ SymbolIsCounted(x)
    \/ SymbolIsNulling(x) \/ SymbolIsNullable(x)
    \/ SymbolIsTerminal(x) \/ SymbolIsProductive(x)
    \/ SymbolIsCompletionEvent(x)
    \/ SymbolIsNulledEvent(x)
    \/ SymbolIsPredictionEvent(x)
    \/ XsyNsy(x) \/ XsyNullingNsy(x)

SymbolChange(x) ==
    \/ \E rank \in Ranks : SymbolRankSet(x, rank)
    \/ \E v \in Booleans :
          \/ SymbolIsValuedSet(x, v) \/ SymbolIsTerminalSet(x, v)
          \/ SymbolIsCompletionEventSet(x, v) \/ CompletionSymbolActivate(x, v)
          \/ SymbolIsNulledEventSet(x, v) \/ NulledSymbolActivate(x, v)
          \/ SymbolIsPredictionEventSet(x, v) \/ PredictionSymbolActivate(x, v)

RuleQuery(r) ==
    \/ RuleLhs(r) \/ RuleLength(r) \/ \E ix \in Ids : RuleRhs(r, ix)
    \/ RuleRank(r) \/ RuleNullHigh(r)
    \/ SequenceMin(r) \/ SequenceSeparator(r)
    \/ RuleIsKeepSeparation(r) \/ RuleIsProperSeparation(r)
    \/ RuleIsLoop(r) \/ RuleIsNulling(r) \/ RuleIsNullable(r)
    \/ RuleIsAccessible(r) \/ RuleIsProductive(r) \/ RuleIsUsed(r)

RuleChange(r) ==
    \/ \E rank \in Ranks : RuleRankSet(r, rank)
    \/ \E v \in Booleans : RuleNullHighSet(r, v)
    \/ \E zwa, ix \in Ids : ZwaPlace(zwa, r, ix)

NewRuleCall(lhs) ==
    \/ \E rhs \in RightSides : RuleNew(lhs, rhs) \/ RuleNewAbort(lhs, rhs)
    \/ \E rhs, separator \in Ids, min \in Minimums, flags \in SUBSET {"keep", "proper"} :
          SequenceNew(lhs, rhs, separator, min, flags)

\* The methods that show what precomputation has made.
InternalQuery(id) ==
    \/ NsyIsStart(id) \/ NsyIsLhs(id) \/ NsyIsNulling(id) \/ NsyIsSemantic(id)
    \/ SourceXsy(id) \/ NsyLhsXrl(id) \/ NsyXrlOffset(id) \/ NsyRank(id)
    \/ IrlSemanticEquivalent(id) \/ IrlLhs(id) \/ IrlLength(id)
    \/ \E ix \in {i \in Ids : i >= 1} : IrlRhs(id, ix)
    \/ IrlIsVirtualLhs(id) \/ IrlIsVirtualRhs(id) \/ RealSymbolCount(id)
    \/ VirtualStart(id) \/ VirtualEnd(id) \/ SourceXrl(id) \/ IrlRank(id)
    \/ IrlIsChaf(id)
    \/ AhmIrl(id) \/ AhmPosition(id) \/ AhmPostdot(id)

MayCall(kind) == kind \in Head(calls)

AskNext ==
    /\ MayCall("ask")
    /\ GrammarQuery \/ \E id \in Ids : SymbolQuery(id) \/ RuleQuery(id) \/ InternalQuery(id)

ChangeNext ==
    /\ MayCall("change")
    /\ GrammarChange \/ \E id \in Ids : SymbolChange(id) \/ RuleChange(id) \/ NewRuleCall(id)

PrecomputeNext ==
    /\ MayCall("precompute")
    /\ Precompute

Next ==
    /\ calls # <<>>
    /\ error # "ABORTED"
    /\ calls' = Tail(calls)
    /\ AskNext \/ ChangeNext \/ PrecomputeNext

Spec == Init /\ [][Next]_grammarVars

-----------------------------------------------------------------------------
(***************************************************************************)
(* Properties.                                                             *)
(***************************************************************************)
CallKinds == {"ask", "change", "precompute"}
XsyFlag ==
    {"lhs", "sequenceLhs", "valued", "valuedLocked", "accessible", "counted",
     "nulling", "nullable", "terminal", "terminalLocked", "productive"}
XrlFlag ==
    {"nullHigh", "bnf", "sequence", "discard", "proper", "loop", "nulling",
     "nullable", "accessible", "productive", "used"}
NsyFlag == {"semantic", "nulling", "start", "lhs"}

\* The type invariant: every id that an object holds is that of an object there is.
GrammarTypeOK ==
    /\ result \in Int /\ error \in STRING /\ calls \in Seq(SUBSET CallKinds)
    /\ g.start \in 0 .. Len(g.xsys)
    /\ g.defaultRank \in MinimumRank .. MaximumRank
    /\ \A x \in XsysOf(g) :
          LET xsy == g.xsys[x]
          IN  /\ xsy.rank \in MinimumRank .. MaximumRank
              /\ xsy.is \subseteq XsyFlag
              /\ xsy.declared \subseteq EventKinds /\ xsy.startsActive \subseteq EventKinds
              /\ xsy.nulls \subseteq XsysOf(g)
              /\ {xsy.nsy, xsy.nullingNsy} \subseteq 0 .. Len(g.nsys)
    /\ \A r \in XrlsOf(g) :
          LET xrl == g.xrls[r]
          IN  /\ xrl.rank \in MinimumRank .. MaximumRank
              /\ xrl.is \subseteq XrlFlag
              /\ {xrl.lhs} \cup RhsXsys(g, r) \subseteq XsysOf(g)
              /\ Len(xrl.rhs) <= MaxRhsLength
              /\ xrl.separator \in 0 .. Len(g.xsys) /\ xrl.min \in Int
    /\ \A n \in DOMAIN g.nsys :
          g.nsys[n].is \subseteq NsyFlag /\ g.nsys[n].source \in XsysOf(g)
    /\ \A i \in DOMAIN g.irls :
          LET irl == g.irls[i]
          IN  /\ irl.lhs \in DOMAIN g.nsys
              /\ \A d \in DOMAIN irl.rhs : irl.rhs[d] \in DOMAIN g.nsys
              /\ irl.source \in 0 .. Len(g.xrls)
    /\ \A p \in g.zwps : p.rule \in XrlsOf(g) /\ p.zwa \in DOMAIN g.zwas
    /\ g.startIrl \in 0 .. Len(g.irls)

\* A grammar does not hold a rule twice, and a symbol with a sequence has no other
\* rule: whatever the order in which rules and sequences are added
\* (marpa_g_rule_new asks the tree of the rules, 5425, and the left side, 5417;
\* marpa_g_sequence_new the left side, 5491).
RulesAreDistinct == RulesDiffer(g)

LocksKept ==
    \A x \in XsysOf(g) : \A flag \in {"terminal", "valued"} :
        LET lock == IF flag = "terminal" THEN "terminalLocked" ELSE "valuedLocked"
        IN  lock \in g.xsys[x].is =>
              /\ lock \in g'.xsys[x].is
              /\ (flag \in g'.xsys[x].is) = (flag \in g.xsys[x].is)

\* Once a symbol is locked as a terminal, as none, as valued or as not, it remains so:
\* no other setting of the symbol, no census that fails or succeeds and no
\* marpa_g_force_valued undoes it (3553, 3617, 3948, 7314).
LocksHold == [][LocksKept]_grammarVars
=============================================================================
