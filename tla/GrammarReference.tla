-------------------------- MODULE GrammarReference --------------------------
(***************************************************************************)
(* What the precomputation of a grammar must give: the census against a    *)
(* definition by derivations, the cycles against those of the rewritten    *)
(* grammar, and the rewrite against the language and against the choices   *)
(* of what is nulled that it must offer.                                   *)
(***************************************************************************)
EXTENDS Grammar

CONSTANT MaxString    \* the length of the strings of the languages compared

RECURSIVE LeastFixpoint(_, _)
LeastFixpoint(Step(_), S) == IF Step(S) = S THEN S ELSE LeastFixpoint(Step, Step(S))

LocallyTerminal(h, x) ==
    IF "terminalLocked" \in h.xsys[x].is THEN "terminal" \in h.xsys[x].is
    ELSE \A r \in XrlsOf(h) : h.xrls[r].lhs # x

-----------------------------------------------------------------------------
(***************************************************************************)
(* Languages.  A language of a grammar is a set of pairs of a symbol and a *)
(* string of terminals of at most MaxString that the symbol derives.       *)
(***************************************************************************)
Concatenated(A, B) == {s \in {a \o b : a \in A, b \in B} : Len(s) <= MaxString}
StringsOf(L, x) == {p[2] : p \in {q \in L : q[1] = x}}

Strings(L, symbols) ==
    LET upTo[d \in 0 .. Len(symbols)] ==
            IF d = 0 THEN {<<>>} ELSE Concatenated(upTo[d - 1], StringsOf(L, symbols[d]))
    IN  upTo[Len(symbols)]

\* The right sides that a sequence stands for, as far as they matter here.
SequenceRhss(xrl) ==
    LET between == IF xrl.separator = NoId THEN <<>> ELSE <<xrl.separator>>
        items[n \in 1 .. MaxString] ==
            IF n = 1 THEN xrl.rhs ELSE items[n - 1] \o between \o xrl.rhs
        whole == {items[n] : n \in 1 .. MaxString}
    IN  (IF xrl.min <= 0 THEN {<<>>} ELSE {})
          \cup whole
          \cup (IF "proper" \in xrl.is THEN {} ELSE {s \o between : s \in whole})

Rhss(h, r) == IF SequenceIn(h, r) THEN SequenceRhss(h.xrls[r]) ELSE {h.xrls[r].rhs}

ExternalLanguage(h) ==
    LET step(L) ==
            L \cup {<<x, <<x>>>> : x \in {y \in XsysOf(h) : LocallyTerminal(h, y)}}
              \cup UNION {{h.xrls[r].lhs} \X UNION {Strings(L, rhs) : rhs \in Rhss(h, r)}
                            : r \in XrlsOf(h)}
    IN  LeastFixpoint(step, {})

InternalLanguage(h) ==
    LET terminal(n) == /\ "semantic" \in h.nsys[n].is
                       /\ h.xsys[h.nsys[n].source].nsy = n
                       /\ LocallyTerminal(h, h.nsys[n].source)
        step(L) ==
            L \cup {<<n, <<>>>> : n \in {m \in DOMAIN h.nsys : NsyNulls(h, m)}}
              \cup {<<n, <<h.nsys[n].source>>>> : n \in {m \in DOMAIN h.nsys : terminal(m)}}
              \cup UNION {{h.irls[i].lhs} \X Strings(L, h.irls[i].rhs) : i \in DOMAIN h.irls}
    IN  LeastFixpoint(step, {})

\* A sequence whose separator derives nothing is taken for unproductive as a whole,
\* the single item that needs no separator included (7570).
SeparatorsAreProductive(h) ==
    \A r \in XrlsOf(h) : \A x \in Separators(h, r) : x \in ProductiveV(h)

PrecomputedNow == ~ g.precomputed /\ g'.precomputed

\* The rewrite keeps the language: the internal equivalent of a symbol derives the
\* strings that the symbol derives, without the empty one, and the start rule those
\* of the start symbol; sequences, their separators and every piece of a rule with
\* nullable symbols included (7896 to 8953).
RewriteKeepsLanguage ==
    [][ PrecomputedNow /\ SeparatorsAreProductive(g) =>
          LET external == ExternalLanguage(g)
              internal == InternalLanguage(g')
              derived(x) == StringsOf(external, x) \ {<<>>}
          IN  /\ \A x \in XsysOf(g') :
                    LET nsy == g'.xsys[x].nsy
                    IN  nsy # NoId /\ ~ NsyNulls(g', nsy) =>
                          StringsOf(internal, nsy) = derived(x)
              /\ g'.startIrl # NoId =>
                    StringsOf(internal, g'.irls[g'.startIrl].lhs) = derived(g.start)
              /\ g'.startIrl = NoId => derived(g.start) = {} ]_grammarVars

-----------------------------------------------------------------------------
(***************************************************************************)
(* The census.  A symbol yields 0 if it derives the empty string, and 1 if *)
(* it derives another one.                                                 *)
(***************************************************************************)
Yields(h) ==
    LET most(f) == IF 1 \in {f[d] : d \in DOMAIN f} THEN 1 ELSE 0
        step(Y) ==
            Y \cup {<<x, 1>> : x \in {y \in XsysOf(h) : LocallyTerminal(h, y)}}
              \cup UNION {
                    {<<h.xrls[r].lhs, most(f)>> : f \in
                        UNION {{f \in [DOMAIN rhs -> {0, 1}] :
                                  \A d \in DOMAIN rhs : <<rhs[d], f[d]>> \in Y}
                                    : rhs \in Rhss(h, r)}}
                        : r \in XrlsOf(h)}
    IN  LeastFixpoint(step, {})

Reached(h, x) ==
    LET step(X) ==
            X \cup UNION {RhsXsys(h, r) \cup Separators(h, r)
                            : r \in {q \in XrlsOf(h) : h.xrls[q].lhs \in X}}
    IN  LeastFixpoint(step, {x})

\* Precomputation tells of each symbol what its derivations say, when no earlier
\* attempt has left flags behind: nullable if it derives the empty string,
\* productive if it derives any, accessible if the start symbol leads to it.  A
\* symbol that is called nulling derives the empty string only; one that derives
\* only the empty string is called nulling unless a rule of no use leads it to a
\* terminal (7314 to 7508).
CensusIsExact ==
    [][ PrecomputedNow /\ g.xrlTree # NoTree /\ SeparatorsAreProductive(g) =>
          LET yields == Yields(g)
              has(x, flag) == flag \in g'.xsys[x].is
              productive(x) == \E v \in {0, 1} : <<x, v>> \in yields
          IN  \A x \in XsysOf(g) :
                /\ has(x, "terminal") = LocallyTerminal(g, x)
                /\ has(x, "nullable") = (<<x, 0>> \in yields)
                /\ has(x, "productive") = productive(x)
                /\ has(x, "accessible") = (x \in Reached(g, g.start))
                /\ has(x, "nulling") => <<x, 1>> \notin yields
                /\ (has(x, "productive") /\ <<x, 1>> \notin yields
                      /\ \A y \in Reached(g, x) : productive(y)) => has(x, "nulling")
      ]_grammarVars

-----------------------------------------------------------------------------
(***************************************************************************)
(* The rewrite of rules with factors.                                      *)
(***************************************************************************)
\* The chains of rules that make a whole rule of the pieces of rule r.
RECURSIVE ChainsFrom(_, _, _)
ChainsFrom(h, r, lhs) ==
    UNION {IF h.irls[i].virtualRhs
             THEN {<<i>> \o chain : chain \in
                     ChainsFrom(h, r, h.irls[i].rhs[Len(h.irls[i].rhs)])}
             ELSE {<<i>>}
                : i \in {j \in DOMAIN h.irls : h.irls[j].source = r /\ h.irls[j].lhs = lhs}}

ChainText(h, chain) ==
    LET upTo[n \in 0 .. Len(chain)] ==
            IF n = 0 THEN <<>>
            ELSE upTo[n - 1] \o SubSeq(h.irls[chain[n]].rhs, 1, h.irls[chain[n]].realCount)
    IN  upTo[Len(chain)]

\* Every way to null some of the factors of r, and not all of r.
Choices(h, r) ==
    LET rhs == h.xrls[r].rhs
        factors == {d \in DOMAIN rhs : /\ XsyHas(h, rhs[d], "nullable")
                                       /\ ~ XsyHas(h, rhs[d], "nulling")}
        text(nulled) == [d \in DOMAIN rhs |->
                            IF d \in nulled THEN NullingNsyOf(h, rhs[d]) ELSE NsyOf(h, rhs[d])]
    IN  {t \in {text(nulled) : nulled \in SUBSET factors} :
            \E d \in DOMAIN rhs : ~ NsyNulls(h, t[d])}

\* The pieces of a rule with factors make each choice of the factors that are nulled
\* exactly once, so that no parse is lost and none is doubled, except the choice that
\* nulls the whole right side, which no internal rule may make (8073 to 8905).
EveryNullingOnce ==
    \A r \in XrlsOf(g) :
        g.precomputed /\ "used" \in g.xrls[r].is /\ ~ SequenceIn(g, r)
            /\ Factors(g, r) # <<>> =>
          LET chains == ChainsFrom(g, r, NsyOf(g, g.xrls[r].lhs))
          IN  /\ {ChainText(g, c) : c \in chains} = Choices(g, r)
              /\ Cardinality(chains) = Cardinality(Choices(g, r))

\* The internal rules that are in a cycle: their symbols but one are nulled, and that
\* one leads back to their left side.
InternalLoops(h) ==
    LET proper(i) == {d \in DOMAIN h.irls[i].rhs : ~ NsyNulls(h, h.irls[i].rhs[d])}
        units == {i \in DOMAIN h.irls : Cardinality(proper(i)) = 1}
        next(i) == h.irls[i].rhs[CHOOSE d \in proper(i) : TRUE]
        from(n) ==
            LET step(N) == N \cup {next(i) : i \in {j \in units : h.irls[j].lhs \in N}}
            IN  LeastFixpoint(step, {n})
    IN  {i \in units : h.irls[i].lhs \in from(next(i))}

\* The rules that are called loop rules, before the rewrite, are those whose internal
\* rules can go in a circle after it; with one the grammar has a cycle, and is
\* precomputed all the same (7717 to 7840).
LoopRulesAreExact ==
    g.precomputed =>
        LET loops == {g.irls[i].source : i \in InternalLoops(g)}
        IN  /\ \A r \in XrlsOf(g) : "used" \in g.xrls[r].is =>
                  ("loop" \in g.xrls[r].is) = (r \in loops)
            /\ loops # {} => g.hasCycle

-----------------------------------------------------------------------------
RecognizerGrammar(h) ==
    INSTANCE RulePositions WITH G <- EarleyRecord(h), NoSymbol <- Nsy(NoId),
                                NullCount <- EarleyRecord(h).nullCount

OnlyDeclaredAreActive(h) ==
    \A x \in XsysOf(h) : h.xsys[x].startsActive \subseteq h.xsys[x].declared

\* At the limits of the external ranks the internal ones are still an int, and a rule
\* of a higher external rank is ahead of the others, whatever its pieces null.
RanksKeepOrder(h) ==
    /\ \A o \in {h.irls[i] : i \in DOMAIN h.irls} \cup {h.nsys[n] : n \in DOMAIN h.nsys} :
          o.rank \in - (IntMax + 1) .. IntMax
    /\ \A i, j \in {k \in DOMAIN h.irls : h.irls[k].source # NoId} :
          h.xrls[h.irls[i].source].rank < h.xrls[h.irls[j].source].rank
            => h.irls[i].rank < h.irls[j].rank

\* The recognizer and the bocage take for granted what they are given: rules with a
\* symbol that is not nulling, a start rule that is no other rule's, symbols and
\* internal equivalents that agree, assertions and nulled symbols at dots that there
\* are, at most one virtual symbol in a right side and as many others as the rule tells
\* (8142), and ranks that fit and keep the order of the external ones (66, 4824, 9085 to
\* 9748).  A grammar in which an undeclared event was activated (4269) and a trivial
\* one are excluded.
BuiltGrammarIsLegal ==
    g.precomputed /\ g.startIrl # NoId /\ OnlyDeclaredAreActive(g)
        => /\ RecognizerGrammar(g)!GrammarAssumption
           /\ RecognizerGrammar(g)!PositionAssumption /\ RanksKeepOrder(g)

\* What is nulled with a symbol can be nulled: cpan/pod/Event.pod has a nulled event
\* occur "whenever a nulled instance of its symbol is recognized" (388).
NulledWithIsNullable ==
    \A x \in XsysOf(g) : \A y \in g.xsys[x].nulls : "nullable" \in g.xsys[y].is
=============================================================================
