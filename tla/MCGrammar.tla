------------------------------ MODULE MCGrammar ------------------------------
(***************************************************************************)
(* Grammars that TLC begins with, each with the calls that are made: those *)
(* that are complete are just precomputed, others are changed and asked.   *)
(***************************************************************************)
EXTENDS GrammarReference, GrammarBuilding

Sorted(R) ==
    LET upTo[S \in SUBSET R] ==
            IF S = {} THEN <<>> ELSE LET r == CHOOSE q \in S : TRUE IN <<r>> \o upTo[S \ {r}]
    IN  upTo[R]

\* S, A nullable, N nulling and a terminal t: S ::= rhs.
OneRule(rhs) ==
    WithRules(Bare(4), << <<1, rhs>>, <<2, <<4>>>>, <<2, <<>>>>, <<3, <<>>>> >>)

\* Right sides of A, N and t, of A alone where they are long.
OneRules ==
    {OneRule(rhs) :
        rhs \in UNION {[1 .. n -> {2, 3, 4}] : n \in 1 .. 4}
                  \cup {rhs \in [1 .. 6 -> {2, 4}] :
                          Cardinality({d \in 1 .. 6 : rhs[d] = 4}) <= 1}}

\* S, item, separator; the third symbol is a terminal, nulls or derives nothing.
Sequence(min, separator, flags, more) ==
    WithRules(WithSequence(Bare(4), 1, 2, separator, min, flags), more)

Sequences ==
    {Sequence(min, separator, flags, more) :
        min \in {0, 1, 2}, separator \in {0, 3}, flags \in SUBSET {"proper"},
        more \in {<<>>, << <<3, <<>>>> >>, << <<3, <<3, 4>>>> >>, << <<2, <<4>>>>, <<2, <<3>>>> >>}}

\* Grammars of a few rules, of S, A, B and t; A is locked as a terminal, t is locked
\* as none, or neither is.
Pool ==
    {1} \X {<<2>>, <<3, 2>>, <<2, 3>>, <<4>>}
      \cup {2} \X {<<>>, <<3>>, <<1>>, <<2, 4>>}
      \cup {3} \X {<<>>, <<2>>, <<1, 3>>, <<4>>}

Locked(h, x, flags) == Raise(h, x, {"terminalLocked"} \cup flags)

FewRules ==
    {WithRules(h, Sorted(R)) :
        h \in {Bare(4), Locked(Bare(4), 2, {"terminal"}), Locked(Bare(4), 4, {})},
        R \in {Q \in SUBSET Pool : Cardinality(Q) \in 1 .. 4 /\ \E q \in Q : q[1] = 1}}

\* A cycle of three rules beside one that ends it, and a rule that nulls the rest.
Cyclic ==
    WithRules(Bare(4), << <<1, <<2, 3>>>>, <<2, <<1>>>>, <<3, <<>>>>, <<2, <<4>>>>, <<3, <<4>>>> >>)

\* The ranks at their limits, for a rule in pieces and for one beside it.
Ranked ==
    {[WithRules(Bare(3), << <<1, <<2, 2, 2, 3>>>>, <<1, <<3>>>>, <<2, <<>>>>, <<2, <<3>>>> >>)
        EXCEPT !.xrls[1].rank = low, !.xrls[2].rank = high,
               !.xrls[1].is = @ \cup high1] :
        low \in {MinimumRank, 0, MaximumRank - 1, MaximumRank}, high \in {MinimumRank + 1, 1, MaximumRank},
        high1 \in {{}, {"nullHigh"}}}

\* An assertion and events, before and after precomputation.
Asserted ==
    [WithRules(Bare(3), << <<1, <<2, 3>>>>, <<2, <<>>>>, <<2, <<3>>>> >>) EXCEPT
        !.zwas = <<0>>,
        !.zwps = {[rule |-> 1, dot |-> 1, zwa |-> 1], [rule |-> 3, dot |-> 2, zwa |-> 1]},
        !.xsys[2].declared = {"nulled", "predicted"},
        !.xsys[2].startsActive = {"nulled"}]

\* Precomputation fails: an item is nullable, the start symbol derives nothing, or a
\* symbol that is nulled is locked as a terminal.
Failing ==
    {WithRules(WithSequence(Bare(3), 1, 2, 3, 1, {}), << <<2, <<>>>> >>),
     WithRules(Bare(3), << <<1, <<2>>>>, <<2, <<1>>>> >>),
     WithRules(Locked(Bare(3), 2, {"terminal"}), << <<1, <<2>>>>, <<2, <<>>>> >>)}

(***************************************************************************)
(* The grammars that the recognizer, the bocage and the tree are checked   *)
(* with are those that precomputation makes of their external rules, once  *)
(* the ids are given their names.                                          *)
(***************************************************************************)
NoNsy == "no NSY"

LOCAL Sample == INSTANCE Grammars WITH NoSymbol <- NoNsy

Renamed(record, irlNames, nsyNames, xsyNames) ==
    LET R(r) == irlNames[r[2]]
        N(n) == IF n[2] = NoId THEN NoNsy ELSE nsyNames[n[2]]
        X(x) == xsyNames[x]
        xsys(S) == {X(x) : x \in S}
        \* an external rule has the name of the first internal one that is made of it
        E(x) == IF x = NoId THEN "no XRL"
                ELSE irlNames[CHOOSE i \in DOMAIN irlNames :
                        /\ record.source[Irl(i)] = x
                        /\ \A j \in 1 .. i - 1 : record.source[Irl(j)] # x]
        rule(name) == CHOOSE r \in record.rule : R(r) = name
        symbol(name) == CHOOSE n \in record.symbol : N(n) = name
        xsy(name) == CHOOSE x \in record.xsy : X(x) = name
        at(a) == <<rule(a[1]), a[2]>>
        rules == {R(r) : r \in record.rule}
        symbols == {N(n) : n \in record.symbol}
        dotted == {<<R(a[1]), a[2]>> : a \in DOMAIN record.nulledAt}
    IN  [rule |-> rules, symbol |-> symbols, xsy |-> xsys(record.xsy),
         lhs |-> [r \in rules |-> N(record.lhs[rule(r)])],
         rhs |-> [r \in rules |-> [d \in DOMAIN record.rhs[rule(r)] |-> N(record.rhs[rule(r)][d])]],
         startRule |-> R(record.startRule),
         nsyOf |-> [x \in xsys(record.xsy) |-> N(record.nsyOf[xsy(x)])],
         sourceXsy |-> [n \in symbols |-> X(record.sourceXsy[symbol(n)])],
         terminal |-> xsys(record.terminal),
         virtualLhs |-> {R(r) : r \in record.virtualLhs},
         nulledAt |-> [a \in dotted |-> xsys(record.nulledAt[at(a)])],
         nullCount |-> [a \in dotted |-> record.nullCount[at(a)]],
         nulledAtStart |-> xsys(record.nulledAtStart),
         declared |-> [k \in EventKinds |-> xsys(record.declared[k])],
         startsActive |-> [k \in EventKinds |-> xsys(record.startsActive[k])],
         barred |-> {R(r) : r \in record.barred},
         valued |-> xsys(record.valued), valuedLocked |-> xsys(record.valuedLocked),
         rank |-> [o \in rules \cup symbols |->
                    record.rank[IF o \in symbols THEN symbol(o) ELSE rule(o)]],
         xrl |-> {E(x) : x \in record.xrl},
         xrlLhs |-> [e \in {E(x) : x \in record.xrl} |->
                        X(record.xrlLhs[CHOOSE x \in record.xrl : E(x) = e])],
         source |-> [r \in rules |-> E(record.source[rule(r)])],
         rhsXsys |-> [r \in rules |-> [d \in DOMAIN record.rhsXsys[rule(r)] |->
                                          X(record.rhsXsys[rule(r)][d])]],
         realCount |-> [r \in rules |-> record.realCount[rule(r)]],
         virtualRhs |-> {R(r) : r \in record.virtualRhs},
         ofSequence |-> {R(r) : r \in record.ofSequence},
         xrlDot |-> [a \in dotted |-> record.xrlDot[at(a)]]]

\* The external grammar with the rules of a sequence, its symbols by their names.
Named(xsyNames, rules) ==
    LET id(name) == CHOOSE x \in DOMAIN xsyNames : xsyNames[x] = name
    IN  WithRules(Bare(Len(xsyNames)),
                  [k \in DOMAIN rules |->
                      <<id(rules[k][1]), [d \in DOMAIN rules[k][2] |-> id(rules[k][2][d])]>>])

IsMadeOf(sample, h, xsyNames, nsyNames, irlNames) ==
    sample = Renamed(EarleyRecord(Precomputed(h)), irlNames, nsyNames, xsyNames)

ASSUME MergingIsMade ==
    LET names == <<"S", "T", "U", "a", "b">>
        h == Named(names, << <<"S", <<"a", "T">>>>, <<"S", <<"a", "a", "U">>>>, <<"S", <<"b">>>>,
                             <<"T", <<"S">>>>, <<"U", <<"S">>>> >>)
        all == {"completed", "predicted"}
    IN  IsMadeOf(Sample!Merging,
           [h EXCEPT !.xsys = [x \in DOMAIN @ |->
               [@[x] EXCEPT !.declared = IF x = 2 THEN all ELSE IF x < 4 THEN {"completed"} ELSE {},
                            !.startsActive = IF x \in {2, 3} THEN {"completed"} ELSE {}]]],
           names, names \o <<"S'">>, <<"at", "aau", "b", "ts", "us", "start">>)

ASSUME TwofoldIsMade ==
    LET names == <<"S", "A", "B", "C", "a">>
        h == Named(names, << <<"S", <<"C", "A">>>>, <<"C", <<"a">>>>, <<"A", <<"a">>>>,
                             <<"A", <<"B">>>>, <<"B", <<"a">>>>, <<"B", <<"A">>>>,
                             <<"S", <<>>>>, <<"S", <<"a">>>>, <<"S", <<"C">>>> >>)
    IN  IsMadeOf(Sample!Twofold, [h EXCEPT !.xrls[3].rank = 1],
           names, <<"S", "nulled S", "A", "B", "C", "a", "S'">>, <<"sc", "ca", "aa", "ab", "ba", "bb",
              "sa", "su", "start">>)

ASSUME NullableIsMade ==
    LET h == Named(<<"A", "B", "b">>,
                   << <<"A", <<"B", "B", "B">>>>, <<"B", <<"b">>>>, <<"B", <<>>>> >>)
    IN  IsMadeOf(Sample!Nullable,
           [h EXCEPT !.xsys[1].declared = EventKinds, !.xsys[2].declared = {"nulled"},
                     !.xsys[1].startsActive = {"completed", "predicted"},
                     !.xsys[2].startsActive = {"nulled"}],
           <<"A", "B", "b">>, <<"A", "nulled A", "B", "nulled B", "b", "V", "S'">>,
           <<"bv", "bnn", "nv", "bb", "bn", "nb", "b", "start">>)

ASSUME ListingIsMade ==
    LET names == <<"A", "B", "L", "b", "c">>
        h == WithSequence(
                Named(names, << <<"A", <<"B", "L">>>>, <<"B", <<"b">>>>, <<"B", <<>>>> >>),
                3, 4, 5, 0, {})
    IN  IsMadeOf(Sample!Listing,
           [h EXCEPT !.xsys[1].declared = EventKinds,
                     !.xsys[2].declared = {"nulled"},
                     !.xsys[3].declared = {"completed", "nulled"},
                     !.xsys[1].startsActive = {"completed", "predicted"},
                     !.xsys[2].startsActive = {"nulled"},
                     !.xsys[3].startsActive = {"nulled"}],
           names,
           <<"A", "nulled A", "B", "nulled B", "L", "nulled L", "b", "c", "V", "S'">>,
           <<"bl", "bn", "nl", "b", "lv", "lvc", "vb", "vcb", "start">>)

ASSUME RightPiecesIsMade ==
    LET names == <<"A", "B", "b", "x", "a">>
    IN  IsMadeOf(Sample!RightPieces,
           Named(names, << <<"A", <<"x", "B", "B", "B", "A">>>>, <<"A", <<"a">>>>,
                           <<"B", <<"b">>>>, <<"B", <<>>>> >>),
           names, <<"A", "B", "nulled B", "b", "x", "a", "V", "S'">>,
           <<"bbv", "bnv", "nbv", "nnv", "ba", "na", "last", "b", "start">>)

ASSUME TrailingNullIsMade ==
    LET names == <<"S", "a", "n">>
    IN  IsMadeOf(Sample!TrailingNull,
           Named(names, << <<"S", <<"a", "S", "n">>>>, <<"S", <<"a">>>>, <<"n", <<>>>> >>),
           names, names \o <<"S'">>, <<"more", "last", "start">>)

ASSUME BarredIsMade ==
    LET names == <<"S", "B", "a", "b", "u">>
        h == Named(names, << <<"S", <<"a", "S">>>>, <<"S", <<"B">>>>, <<"B", <<"b">>>> >>)
    IN  IsMadeOf(Sample!Barred,
           [h EXCEPT !.zwas = <<0>>, !.zwps = {[rule |-> 2, dot |-> 1, zwa |-> 1]},
                     !.xsys[3].is = @ \cup {"valued", "valuedLocked"}],
           names, <<"S", "B", "a", "b", "S'">>, <<"more", "sb", "b", "start">>)

-----------------------------------------------------------------------------
With(grammars, script) == {[grammar |-> h, calls |-> script] : h \in grammars}

AllBeginnings ==
    With(OneRules \cup Sequences \cup FewRules \cup Ranked, <<{"precompute"}>>)
      \cup With({Bare(2)}, <<{"change"}, {"change", "precompute"}>>)
      \cup With({Asserted}, <<{"change"}, {"precompute"}, {"ask"}>>)
      \cup With({Cyclic}, <<{"ask", "precompute"}, {"ask", "precompute"}>>)
      \cup With(Failing, <<{"precompute"}, {"change"}, {"precompute"}>>)
      \cup With({Precomputed(Asserted)}, <<{"change", "precompute"}, {"change"}>>)

SequenceBeginnings == With(Sequences, <<{"precompute"}, {"ask"}>>)

Sides == {<<>>, <<2>>, <<2, 7>>, <<1, 2>>, <<1, 1, 1, 1, 1, 1, 1>>}
RankChoices == {MinimumRank - 1, MinimumRank, MaximumRank, MaximumRank + 1}
=============================================================================
