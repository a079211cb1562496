--------------------------- MODULE GrammarSymbols ---------------------------
(***************************************************************************)
(* The methods of a grammar that make, change and ask for its symbols.     *)
(***************************************************************************)
EXTENDS GrammarObjects

SymbolChecks(x) == FirstOf(<<BadSymbol(x), MissingSymbol(x)>>)
OpenSymbolChecks(x) == FirstOf(<<NotOpen, SymbolChecks(x)>>)
ClosedSymbolChecks(x) == FirstOf(<<NotClosed, SymbolChecks(x)>>)

\* The rank methods fail hard on a symbol that does not exist.
RankSymbolChecks(x) ==
    FirstOf(<<BadSymbol(x), Hard(x > Len(g.xsys), "NO_SUCH_SYMBOL_ID")>>)

\* marpa_g_symbol_new, which does not ask if the grammar is precomputed.
SymbolNew == Call(Ok, Len(g.xsys) + 1, WithSymbol(g))

SymbolIsStart(x) == Ask(SymbolChecks(x), Boolean(g.start = x))

SymbolRank(x) == CallCleared(RankSymbolChecks(x), g.xsys[x].rank, g)

SymbolRankSet(x, rank) ==
    CallCleared(FirstOf(<<NotOpen, RankSymbolChecks(x),
                          RankTooLow(rank), RankTooHigh(rank)>>),
                rank, [g EXCEPT !.xsys[x].rank = rank])

-----------------------------------------------------------------------------
(***************************************************************************)
(* Valued symbols, terminals, and what the census found of a symbol.       *)
(***************************************************************************)
\* The symbols that are locked as unvalued: none of them can be forced.
ForceBlocked ==
    {x \in 1 .. Len(g.xsys) :
        "valuedLocked" \in g.xsys[x].is /\ "valued" \notin g.xsys[x].is}

\* marpa_g_force_valued: a loop over the symbols that stops at the first that is
\* locked the other way, and leaves those before it forced.
ForceValued ==
    LET blocked == Hard(ForceBlocked # {}, "VALUED_IS_LOCKED")
        forced == {x \in 1 .. Len(g.xsys) : \A y \in ForceBlocked : x < y}
    IN  /\ result' = blocked.value
        /\ error' = IF blocked = Ok THEN error ELSE blocked.code
        /\ g' = [g EXCEPT
                    !.forceValued = @ \/ blocked = Ok,
                    !.xsys = RaisedIn(@, forced, {"valued", "valuedLocked"})]

SymbolIsValued(x) == Ask(SymbolChecks(x), HasFlag(x, "valued"))

SymbolIsValuedSet(x, v) ==
    Call(FirstOf(<<SymbolChecks(x), BadBoolean(v),
                   Hard(XsyIs(x, "valuedLocked") /\ v # HasFlag(x, "valued"),
                        "VALUED_IS_LOCKED")>>),
         v, [g EXCEPT !.xsys[x].is = WithFlag(@, "valued", v)])

SymbolIsAccessible(x) == Ask(ClosedSymbolChecks(x), HasFlag(x, "accessible"))
SymbolIsCounted(x)    == Ask(SymbolChecks(x), HasFlag(x, "counted"))
SymbolIsNulling(x)    == Ask(ClosedSymbolChecks(x), HasFlag(x, "nulling"))
SymbolIsNullable(x)   == Ask(ClosedSymbolChecks(x), HasFlag(x, "nullable"))
SymbolIsTerminal(x)   == Ask(SymbolChecks(x), HasFlag(x, "terminal"))
SymbolIsProductive(x) == Ask(ClosedSymbolChecks(x), HasFlag(x, "productive"))

\* A mutant of SymbolIsTerminalSet: the lock is not tested.
SymbolIsTerminalSetAnyway(x, v) ==
    Call(FirstOf(<<OpenSymbolChecks(x), BadBoolean(v)>>),
         v, [g EXCEPT !.xsys[x].is =
                WithFlag(@, "terminal", v) \cup {"terminalLocked"}])

SymbolIsTerminalSet(x, v) ==
    Call(FirstOf(<<OpenSymbolChecks(x), BadBoolean(v),
                   Hard(XsyIs(x, "terminalLocked") /\ v # HasFlag(x, "terminal"),
                        "TERMINAL_IS_LOCKED")>>),
         v, [g EXCEPT !.xsys[x].is =
                WithFlag(@, "terminal", v) \cup {"terminalLocked"}])

-----------------------------------------------------------------------------
(***************************************************************************)
(* Events.  A declaration sets both flags of its kind.  Activating a       *)
(* symbol that is not declared leaves an error, the same one for the three *)
(* kinds, and yet does what it is asked for: nothing returns after the     *)
(* error is set.                                                           *)
(***************************************************************************)
IsDeclared(kind, x) == Ask(SymbolChecks(x), Boolean(kind \in g.xsys[x].declared))

Declare(kind, x, v) ==
    Call(FirstOf(<<OpenSymbolChecks(x), BadBoolean(v)>>), v,
         [g EXCEPT !.xsys[x].declared = WithFlag(@, kind, v),
                   !.xsys[x].startsActive = WithFlag(@, kind, v)])

Activate(kind, x, v) ==
    LET problem == FirstOf(<<OpenSymbolChecks(x), BadBoolean(v)>>)
    IN  IF problem = Ok /\ v = 1 /\ kind \notin g.xsys[x].declared
          THEN /\ result' = 1
               /\ error' = "SYMBOL_IS_NOT_COMPLETION_EVENT"
               /\ g' = [g EXCEPT !.xsys[x].startsActive = @ \cup {kind}]
          ELSE Call(problem, v,
                    [g EXCEPT !.xsys[x].startsActive = WithFlag(@, kind, v)])

SymbolIsCompletionEvent(x)       == IsDeclared("completed", x)
SymbolIsCompletionEventSet(x, v) == Declare("completed", x, v)
CompletionSymbolActivate(x, v) == Activate("completed", x, v)

SymbolIsNulledEvent(x)       == IsDeclared("nulled", x)
SymbolIsNulledEventSet(x, v) == Declare("nulled", x, v)
NulledSymbolActivate(x, v) == Activate("nulled", x, v)

SymbolIsPredictionEvent(x)       == IsDeclared("predicted", x)
SymbolIsPredictionEventSet(x, v) == Declare("predicted", x, v)
PredictionSymbolActivate(x, v) == Activate("predicted", x, v)

-----------------------------------------------------------------------------
(***************************************************************************)
(* Internal symbols, as the methods for debugging show them.               *)
(***************************************************************************)
XsyNsy(x)        == Ask(SymbolChecks(x), g.xsys[x].nsy)
XsyNullingNsy(x) == Ask(SymbolChecks(x), g.xsys[x].nullingNsy)

NsyHas(n, flag) == Boolean(flag \in g.nsys[n].is)

NsyIsStart(n)    == Ask(FirstOf(<<NotClosed, BadNsy(n)>>), NsyHas(n, "start"))
NsyIsLhs(n)      == Ask(FirstOf(<<NotClosed, BadNsy(n)>>), NsyHas(n, "lhs"))
NsyIsNulling(n)  == Ask(FirstOf(<<NotClosed, BadNsy(n)>>), NsyHas(n, "nulling"))
NsyIsSemantic(n) == Ask(BadNsy(n), NsyHas(n, "semantic"))
SourceXsy(n)     == Ask(BadNsy(n), g.nsys[n].source)
NsyLhsXrl(n)     == Ask(BadNsy(n), g.nsys[n].lhsXrl)
NsyXrlOffset(n)  == Ask(BadNsy(n), g.nsys[n].offset)
NsyRank(n)       == Ask(BadNsy(n), g.nsys[n].rank)
=============================================================================
