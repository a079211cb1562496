--------------------------- MODULE GrammarCensus ---------------------------
(***************************************************************************)
(* The census of marpa_g_precompute: which symbols and rules of a grammar  *)
(* are terminal, nullable, productive, accessible, nulling or used, and    *)
(* which rules are in a cycle.  Every operator takes the grammar h; those  *)
(* that end in V are the bit vectors of the census, which begin empty,     *)
(* while a flag of a symbol that is raised is not taken back.              *)
(***************************************************************************)
EXTENDS GrammarObjects, BitMatrix

XsysOf(h) == 1 .. Len(h.xsys)
XrlsOf(h) == 1 .. Len(h.xrls)
XrlsWithLhs(h, x) == {r \in XrlsOf(h) : h.xrls[r].lhs = x}
SequenceIn(h, r) == "sequence" \in h.xrls[r].is
RhsXsys(h, r) == {h.xrls[r].rhs[d] : d \in 1 .. Len(h.xrls[r].rhs)}
Separators(h, r) == {h.xrls[r].separator} \ {NoId}

XsysWith(h, flag) == {x \in XsysOf(h) : flag \in h.xsys[x].is}

RaiseAll(h, X, flag) == [h EXCEPT !.xsys = RaisedIn(@, X, {flag})]

Ascending(X) ==
    LET sorted[S \in SUBSET X] ==
            IF S = {} THEN <<>>
            ELSE LET x == CHOOSE y \in S : \A z \in S : y <= z
                 IN  <<x>> \o sorted[S \ {x}]
    IN  sorted[X]

\* Events of one type, one for each symbol of X, the lowest first.
SymbolEvents(type, X) ==
    [k \in 1 .. Cardinality(X) |-> [type |-> type, value |-> Ascending(X)[k]]]

-----------------------------------------------------------------------------
(***************************************************************************)
(* The vectors.                                                            *)
(***************************************************************************)
LhsV(h) == {h.xrls[r].lhs : r \in XrlsOf(h)}

EmptyLhsV(h) ==
    {h.xrls[r].lhs : r \in {q \in XrlsOf(h) :
        IF SequenceIn(h, q) THEN h.xrls[q].min <= 0 ELSE h.xrls[q].rhs = <<>>}}

\* A mutant of TerminalV: what the application locked is not looked at.
TerminalVUnlocked(h) == {x \in XsysOf(h) : x \notin LhsV(h)}

\* A locked symbol is what it was set to, the others are if no rule makes them.
TerminalV(h) ==
    {x \in XsysOf(h) :
        IF "terminalLocked" \in h.xsys[x].is THEN "terminal" \in h.xsys[x].is
        ELSE x \notin LhsV(h)}

ReachMatrix(h) ==
    TransitiveClosure(
        UNION {{h.xrls[r].lhs} \X (RhsXsys(h, r) \cup Separators(h, r)) : r \in XrlsOf(h)},
        Len(h.xsys))

\* A rule adds its left side when its right side is there, and its separator where
\* the sequence must be long enough to have one.
Fires(h, r, bv) ==
    /\ RhsXsys(h, r) \subseteq bv
    /\ SequenceIn(h, r) /\ h.xrls[r].min >= 2 => Separators(h, r) \subseteq bv

(***************************************************************************)
(* rhs_closure.  A state w of its loop has the bits that are set and the   *)
(* symbols that are yet to be looked at, the last of them first.           *)
(***************************************************************************)
\* A mutant of RhSymsOf: a rule is listed by the symbol that it begins with.
RhSymsOfFirst(h, r) == {h.xrls[r].rhs[d] : d \in (1 .. Len(h.xrls[r].rhs)) \cap {1}}

\* xrl_list_x_rh_sym lists a rule for each symbol of its right side and its separator.
RhSymsOf(h, r) == RhsXsys(h, r) \cup Separators(h, r)

LeftSideAdded(h, r, w) ==
    IF h.xrls[r].lhs \notin w.bv /\ Fires(h, r, w.bv)
      THEN [bv |-> w.bv \cup {h.xrls[r].lhs}, stack |-> Append(w.stack, h.xrls[r].lhs)]
      ELSE w

\* The last symbol is popped, and the rules that are listed for it are looked at, in
\* the order of their IDs.
SymbolVisited(h, w) ==
    LET x == w.stack[Len(w.stack)]
        after[r \in 0 .. Len(h.xrls)] ==
            IF r = 0 THEN [w EXCEPT !.stack = SubSeq(@, 1, Len(@) - 1)]
            ELSE LET before == after[r - 1]
                 IN  IF x \in RhSymsOf(h, r)
                       THEN LeftSideAdded(h, r, before) ELSE before
    IN  after[Len(h.xrls)]

\* No symbol is pushed twice.
RhsClosure(h, bv) ==
    LET visited[n \in 0 .. Len(h.xsys)] ==
            IF n = 0 THEN [bv |-> bv, stack |-> Ascending(bv)]
            ELSE LET before == visited[n - 1]
                 IN  IF before.stack = <<>> THEN before ELSE SymbolVisited(h, before)
    IN  visited[Len(h.xsys)].bv

NullableV(h)   == RhsClosure(h, EmptyLhsV(h))
ProductiveV(h) == RhsClosure(h, NullableV(h) \cup TerminalV(h))
AccessibleV(h) == Row(ReachMatrix(h), h.start) \cup {h.start}

NullingV(h) ==
    LET reach == ReachMatrix(h)
        terminals == TerminalV(h)
    IN  {x \in LhsV(h) : Row(reach, x) \cap terminals = {}}

-----------------------------------------------------------------------------
(***************************************************************************)
(* The census of the symbols, up to the place where it may fail.  It       *)
(* begins with the end of the tree of the rules.                           *)
(***************************************************************************)
TerminalCensus(h) ==
    [RaiseAll(h, TerminalV(h), "terminal") EXCEPT !.xrlTree = NoTree, !.events = <<>>]

CountedNullables(h) == NullableV(h) \cap XsysWith(h, "counted")

NullableCensus(h) ==
    [RaiseAll(TerminalCensus(h), NullableV(h), "nullable") EXCEPT
        !.events = SymbolEvents(CountedNullable, CountedNullables(h))]

ProductiveCensus(h) == RaiseAll(NullableCensus(h), ProductiveV(h), "productive")

NullingTerminals(h) == NullingV(h) \cap XsysWith(TerminalCensus(h), "terminal")

SymbolCensus(h) ==
    [RaiseAll(RaiseAll(ProductiveCensus(h), AccessibleV(h), "accessible"),
              NullingV(h), "nulling")
        EXCEPT !.events = SymbolEvents(NullingTerminal, NullingTerminals(h))]

-----------------------------------------------------------------------------
(***************************************************************************)
(* The census of the rules, from the flags of the symbols.                 *)
(***************************************************************************)
\* XRL_is_Used and its like for a sequence.
SequenceFlags(h, r) ==
    LET xrl == h.xrls[r]
        item == h.xsys[xrl.rhs[1]].is
        sep == [flag \in {"nulling", "productive"} |->
                  \A s \in Separators(h, r) : flag \in h.xsys[s].is]
        nullable == xrl.min <= 0 \/ "nullable" \in item
        nulling == "nulling" \in item /\ sep["nulling"]
        accessible == "accessible" \in h.xsys[xrl.lhs].is
    IN  {flag \in {"accessible", "nullable", "nulling", "productive", "used"} :
            CASE flag = "accessible" -> accessible
              [] flag = "nullable"   -> nullable
              [] flag = "nulling"    -> nulling
              [] flag = "productive" ->
                    nullable \/ ("productive" \in item /\ sep["productive"])
              [] flag = "used"       ->
                    /\ accessible /\ "productive" \in item
                    /\ sep["productive"] /\ ~ nulling}

BnfFlags(h, r) ==
    LET all(flag) == \A x \in RhsXsys(h, r) : flag \in h.xsys[x].is
        accessible == "accessible" \in h.xsys[h.xrls[r].lhs].is
    IN  {flag \in {"accessible", "nullable", "nulling", "productive", "used"} :
            CASE flag = "accessible" -> accessible
              [] flag = "used" -> accessible /\ all("productive") /\ ~ all("nulling")
              [] OTHER -> all(flag)}

RuleCensus(h) ==
    [h EXCEPT !.xrls = [r \in DOMAIN @ |->
        [h.xrls[r] EXCEPT !.is =
            (@ \ {"accessible", "nullable", "nulling", "productive", "used"})
              \cup (IF SequenceIn(h, r) THEN SequenceFlags(h, r) ELSE BnfFlags(h, r))]]]

\* Nulled_XSYIDs_of_XSY: what is nulled with a symbol.
NulledCensus(h) ==
    LET nullableRules == {r \in XrlsOf(h) : "nullable" \in h.xrls[r].is}
        matrix ==
            {<<x, x>> : x \in XsysWith(h, "nullable")}
              \cup UNION {{h.xrls[r].lhs} \X RhsXsys(h, r) : r \in nullableRules}
        nulls == TransitiveClosure(matrix, Len(h.xsys))
    IN  [h EXCEPT !.xsys = [x \in DOMAIN @ |-> [h.xsys[x] EXCEPT !.nulls = Row(nulls, x)]]]

-----------------------------------------------------------------------------
(***************************************************************************)
(* Cycles.                                                                 *)
(***************************************************************************)
\* The positions of the symbols of rule r that can not be nulled.
ProperPositions(h, r, nullable) ==
    {d \in 1 .. Len(h.xrls[r].rhs) : h.xrls[r].rhs[d] \notin nullable}

\* A mutant of UnitSymbols: a rule that can be nulled as a whole has none.
UnitSymbolsOfProper(h, r, nullable) ==
    LET proper == ProperPositions(h, r, nullable)
    IN  IF Cardinality(proper) = 1 THEN {h.xrls[r].rhs[d] : d \in proper} ELSE {}

\* The symbols that rule r can derive in one step, all the others nulled.
UnitSymbols(h, r, nullable) ==
    LET proper == ProperPositions(h, r, nullable)
    IN  IF Cardinality(proper) = 1 THEN {h.xrls[r].rhs[d] : d \in proper}
        ELSE IF proper = {} THEN {x \in RhsXsys(h, r) : "nulling" \notin h.xsys[x].is}
        ELSE {}

UnitTransitions(h) ==
    LET nullable == NullableV(h)
        next(r) == UNION {XrlsWithLhs(h, x) : x \in UnitSymbols(h, r, nullable)}
    IN  UNION {{r} \X next(r) : r \in XrlsOf(h)}

LoopRulesOf(h) ==
    LET matrix == TransitiveClosure(UnitTransitions(h), Len(h.xrls))
    IN  {r \in XrlsOf(h) : <<r, r>> \in matrix}

LoopCensus(h) ==
    LET loops == LoopRulesOf(h)
    IN  IF loops = {} THEN h
        ELSE [h EXCEPT
                !.hasCycle = TRUE,
                !.events = Append(@, [type |-> LoopRules, value |-> Cardinality(loops)]),
                !.xrls = RaisedIn(@, loops, {"loop"})]

Census(h) == LoopCensus(NulledCensus(RuleCensus(SymbolCensus(h))))
=============================================================================
