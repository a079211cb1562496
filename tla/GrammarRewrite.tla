--------------------------- MODULE GrammarRewrite ---------------------------
(***************************************************************************)
(* The rewrite of marpa_g_precompute: external symbols are cloned into     *)
(* internal ones, sequences become recursions, and rules with factors that *)
(* may be nulled are cut into pieces of at most two such factors (CHAF),   *)
(* each piece once for every choice of the factors that are nulled.        *)
(***************************************************************************)
EXTENDS GrammarCensus

XsyHas(h, x, flag) == flag \in h.xsys[x].is
NsyOf(h, x) == h.xsys[x].nsy
NullingNsyOf(h, x) == h.xsys[x].nullingNsy

\* NSY_Rank_by_XSY, IRL_Rank_by_XRL and IRL_CHAF_Rank_by_XRL: rank 3 is for a rule
\* without nulled factors.
InternalRank(rank) == rank * ExternalRankFactor + MaximumChafRank
IrlRankOf(h, r)    == InternalRank(h.xrls[r].rank)

\* A mutant of ChafRankOf: where nulls are high, the ranks count down from 4.
ChafRankFromFour(h, r, n) ==
    h.xrls[r].rank * ExternalRankFactor
      + (IF "nullHigh" \in h.xrls[r].is THEN MaximumChafRank + 1 - n ELSE n)

ChafRankOf(h, r, n) ==
    h.xrls[r].rank * ExternalRankFactor
      + (IF "nullHigh" \in h.xrls[r].is THEN MaximumChafRank - n ELSE n)

-----------------------------------------------------------------------------
(***************************************************************************)
(* Internal symbols.                                                       *)
(***************************************************************************)
\* nsy_start, nsy_new: the next internal symbol, for the external symbol x.
WithNsy(h, x, flags) ==
    [h EXCEPT !.nsys = Append(@,
        [is |-> flags, source |-> x, lhsXrl |-> NoId, offset |-> NoId,
         rank |-> InternalRank(h.xsys[x].rank)])]

NextNsy(h) == Len(h.nsys) + 1

\* nsy_clone: the equivalent of an external symbol.
WithClone(h, x) ==
    [WithNsy(h, x, {"semantic"} \cup (h.xsys[x].is \cap {"nulling"})) EXCEPT
        !.xsys[x].nsy = NextNsy(h)]

\* symbol_alias_create: the nulling alias of a symbol that may be nulled.
WithAlias(h, x) ==
    [WithNsy(h, x, {"semantic", "nulling"}) EXCEPT !.xsys[x].nullingNsy = NextNsy(h)]

\* Clones of the symbols that are accessible and productive, in their order.
Clone(h, x) ==
    IF ~ XsyHas(h, x, "accessible") \/ ~ XsyHas(h, x, "productive") THEN h
    ELSE LET cloned == WithClone(h, x)
         IN  IF XsyHas(h, x, "nulling")
               THEN [cloned EXCEPT !.xsys[x].nullingNsy = cloned.xsys[x].nsy]
             ELSE IF XsyHas(h, x, "nullable") THEN WithAlias(cloned, x)
             ELSE cloned

WithClones(h) ==
    LET upTo[x \in 0 .. Len(h.xsys)] == IF x = 0 THEN h ELSE Clone(upTo[x - 1], x)
    IN  upTo[Len(h.xsys)]

-----------------------------------------------------------------------------
(***************************************************************************)
(* Internal rules.                                                         *)
(***************************************************************************)
\* irl_start: a rule of r (NoId for none) before its other fields are set.
NewIrl(h, r, lhs, rhs) ==
    [lhs |-> lhs, rhs |-> rhs, source |-> r, rank |-> InternalRank(h.defaultRank),
     virtualLhs |-> FALSE, virtualRhs |-> FALSE, realCount |-> 0,
     virtualStart |-> NoId, virtualEnd |-> NoId, chaf |-> FALSE]

\* irl_finish.
WithIrl(h, irl) ==
    [h EXCEPT !.irls = Append(@, irl), !.nsys[irl.lhs].is = @ \cup {"lhs"}]

\* The four rules of a sequence, the second one for a trailing separator.
SequenceTop(h, r, inner) ==
    WithIrl(h, [NewIrl(h, r, NsyOf(h, h.xrls[r].lhs), <<inner>>) EXCEPT
                    !.rank = IrlRankOf(h, r), !.virtualRhs = TRUE])

\* A mutant of SequenceTrailing: proper separation is not asked for.
SequenceTrailingAlways(h, r, inner) ==
    LET separator == h.xrls[r].separator
    IN  IF separator = NoId THEN h
        ELSE WithIrl(h, [NewIrl(h, r, NsyOf(h, h.xrls[r].lhs),
                                <<inner, NsyOf(h, separator)>>) EXCEPT
                            !.rank = IrlRankOf(h, r), !.virtualRhs = TRUE,
                            !.realCount = 1])

SequenceTrailing(h, r, inner) ==
    LET separator == h.xrls[r].separator
    IN  IF separator = NoId \/ "proper" \in h.xrls[r].is THEN h
        ELSE WithIrl(h, [NewIrl(h, r, NsyOf(h, h.xrls[r].lhs),
                                <<inner, NsyOf(h, separator)>>) EXCEPT
                            !.rank = IrlRankOf(h, r), !.virtualRhs = TRUE,
                            !.realCount = 1])

SequenceFirst(h, r, inner) ==
    WithIrl(h, [NewIrl(h, r, inner, <<NsyOf(h, h.xrls[r].rhs[1])>>) EXCEPT
                    !.rank = IrlRankOf(h, r), !.virtualLhs = TRUE, !.realCount = 1])

SequenceIterate(h, r, inner) ==
    LET separator == h.xrls[r].separator
        between == IF separator = NoId THEN <<>> ELSE <<NsyOf(h, separator)>>
        rhs == <<inner>> \o between \o <<NsyOf(h, h.xrls[r].rhs[1])>>
    IN  WithIrl(h, [NewIrl(h, r, inner, rhs) EXCEPT
                        !.rank = IrlRankOf(h, r), !.virtualLhs = TRUE,
                        !.virtualRhs = TRUE, !.realCount = Len(rhs) - 1])

RewriteSequence(h, r) ==
    LET inner == NextNsy(h)
        started == [WithNsy(h, h.xrls[r].lhs, {}) EXCEPT !.nsys[inner].lhsXrl = r]
    IN  SequenceIterate(SequenceFirst(SequenceTrailing(
            SequenceTop(started, r, inner), r, inner), r, inner), r, inner)

\* A BNF rule without factors is copied.
RewriteBnf(h, r) ==
    LET xrl == h.xrls[r]
    IN  WithIrl(h, [NewIrl(h, r, NsyOf(h, xrl.lhs),
                           [d \in DOMAIN xrl.rhs |-> NsyOf(h, xrl.rhs[d])])
                        EXCEPT !.rank = IrlRankOf(h, r)])

-----------------------------------------------------------------------------
(***************************************************************************)
(* CHAF.  A factor is a symbol that may be nulled and need not be; the     *)
(* last proper symbol is the last one that can not be nulled.  Where all   *)
(* that is left could be nulled, the rule in which it is must not be made. *)
(***************************************************************************)
MayBeNulled(h, r, d) ==
    LET is == h.xsys[h.xrls[r].rhs[d]].is
    IN  "nulling" \in is \/ "nullable" \in is

Factors(h, r) ==
    LET rhs == h.xrls[r].rhs
    IN  SelectSeq([d \in 1 .. Len(rhs) |-> d],
                  LAMBDA d : "nullable" \in h.xsys[rhs[d]].is
                                 /\ "nulling" \notin h.xsys[rhs[d]].is)

LastProper(h, r) ==
    LET proper == {d \in 1 .. Len(h.xrls[r].rhs) : ~ MayBeNulled(h, r, d)}
    IN  IF proper = {} THEN 0 ELSE CHOOSE d \in proper : \A e \in proper : e <= d

\* LHS_XRL_of_NSY and XRL_Offset_of_NSY: the place that an internal symbol stands for.
WithOrigin(h, nsy, r, offset) ==
    [h EXCEPT !.nsys[nsy].lhsXrl = r, !.nsys[nsy].offset = offset]

\* One rule of a piece: the symbols from start to end, those at the positions of
\* nulled by their nulling symbol, and then the symbol of the next piece, if any.
PieceIrl(h, r, p, end, next, nulled, n) ==
    LET x(d) == h.xrls[r].rhs[d]
        length == end - p.start + 1
        rhs == [i \in 1 .. length |->
                  LET d == p.start + i - 1
                  IN  IF d \in nulled THEN NullingNsyOf(h, x(d)) ELSE NsyOf(h, x(d))]
        irl == [lhs |-> p.lhs, rhs |-> rhs \o next, source |-> r, chaf |-> TRUE,
                rank |-> ChafRankOf(h, r, n), realCount |-> length,
                virtualLhs |-> p.start > 1, virtualRhs |-> next # <<>>,
                virtualStart |-> p.start, virtualEnd |-> end]
    IN  WithOrigin(WithIrl(h, irl), p.lhs, r, p.start)

\* A mutant of SuffixPiece: the test is of the whole rule, not of what is left of it.
SuffixPieceByRule(h, r, p, first, second) ==
    LET next == NextNsy(h)
        more == <<next>>
        last == Len(h.xrls[r].rhs)
        tail == second .. last
        pp == PieceIrl(WithNsy(h, h.xrls[r].lhs, {}), r, p, second - 1, more, {}, 3)
        pn == PieceIrl(pp, r, p, last, <<>>, tail, 2)
        np == PieceIrl(pn, r, p, second - 1, more, {first}, 1)
        nn == PieceIrl(np, r, p, last, <<>>, {first} \cup tail, 0)
    IN  [h |-> IF LastProper(h, r) > 0 THEN nn ELSE np,
         lhs |-> next, start |-> second, factor |-> p.factor + 1]

\* A piece that ends before its second factor: after it, all could be nulled.
SuffixPiece(h, r, p, first, second) ==
    LET next == NextNsy(h)
        more == <<next>>
        last == Len(h.xrls[r].rhs)
        tail == second .. last
        pp == PieceIrl(WithNsy(h, h.xrls[r].lhs, {}), r, p, second - 1, more, {}, 3)
        pn == PieceIrl(pp, r, p, last, <<>>, tail, 2)
        np == PieceIrl(pn, r, p, second - 1, more, {first}, 1)
        nn == PieceIrl(np, r, p, last, <<>>, {first} \cup tail, 0)
    IN  [h |-> IF p.start <= LastProper(h, r) THEN nn ELSE np,
         lhs |-> next, start |-> second, factor |-> p.factor + 1]

\* A piece that ends with its second factor.
InnerPiece(h, r, p, first, second) ==
    LET next == NextNsy(h)
        more == <<next>>
        pp == PieceIrl(WithNsy(h, h.xrls[r].lhs, {}), r, p, second, more, {}, 3)
        pn == PieceIrl(pp, r, p, second, more, {second}, 2)
        np == PieceIrl(pn, r, p, second, more, {first}, 1)
    IN  [h |-> PieceIrl(np, r, p, second, more, {first, second}, 0),
         lhs |-> next, start |-> second + 1, factor |-> p.factor + 2]

\* The last piece, with two factors or with one.
LastTwo(h, r, p, first, second) ==
    LET last == Len(h.xrls[r].rhs)
        pp == PieceIrl(h, r, p, last, <<>>, {}, 3)
        pn == PieceIrl(pp, r, p, last, <<>>, {second}, 2)
        np == PieceIrl(pn, r, p, last, <<>>, {first}, 1)
    IN  IF p.start <= LastProper(h, r)
          THEN PieceIrl(np, r, p, last, <<>>, {first, second}, 0)
          ELSE np

LastOne(h, r, p, first) ==
    LET last == Len(h.xrls[r].rhs)
        whole == PieceIrl(h, r, p, last, <<>>, {}, 3)
    IN  IF p.start <= LastProper(h, r)
          THEN PieceIrl(whole, r, p, last, <<>>, {first}, 0)
          ELSE whole

\* The pieces of rule r: p is the grammar so far, the left side and the start of the
\* next piece, and its first factor; there are no more pieces than symbols.
RewriteChaf(h, r) ==
    LET factors == Factors(h, r)
        most == Len(h.xrls[r].rhs)
        begin == [h |-> h, lhs |-> NsyOf(h, h.xrls[r].lhs), start |-> 1, factor |-> 1]
        left(p) == Len(factors) - p.factor + 1
        piece[n \in 0 .. most] ==
            IF n = 0 THEN begin
            ELSE LET p == piece[n - 1]
                     first == factors[p.factor]
                     second == factors[p.factor + 1]
                 IN  IF left(p) < 3 THEN p
                     ELSE IF second > LastProper(h, r)
                       THEN SuffixPiece(p.h, r, p, first, second)
                       ELSE InnerPiece(p.h, r, p, first, second)
        p == piece[most]
    IN  IF left(p) = 2
          THEN LastTwo(p.h, r, p, factors[p.factor], factors[p.factor + 1])
          ELSE LastOne(p.h, r, p, factors[p.factor])

-----------------------------------------------------------------------------
(***************************************************************************)
(* The whole rewrite.                                                      *)
(***************************************************************************)
RewriteRule(h, r) ==
    IF "used" \notin h.xrls[r].is THEN h
    ELSE IF SequenceIn(h, r) THEN RewriteSequence(h, r)
    ELSE IF Factors(h, r) = <<>> THEN RewriteBnf(h, r)
    ELSE RewriteChaf(h, r)

WithIrls(h) ==
    LET upTo[r \in 0 .. Len(h.xrls)] == IF r = 0 THEN h ELSE RewriteRule(upTo[r - 1], r)
    IN  upTo[Len(h.xrls)]

\* The augmented start rule, unless the grammar is trivial.
Augmented(h) ==
    IF XsyHas(h, h.start, "nulling") THEN h
    ELSE LET top == NextNsy(h)
             irl == [NewIrl(h, NoId, top, <<NsyOf(h, h.start)>>) EXCEPT
                        !.virtualLhs = TRUE, !.realCount = 1]
         IN  [WithIrl(WithNsy(h, h.start, {"start"}), irl) EXCEPT
                !.startIrl = Len(h.irls) + 1]

Rewrite(h) == Augmented(WithIrls(WithClones(h)))
=============================================================================
