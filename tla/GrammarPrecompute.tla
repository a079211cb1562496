------------------------- MODULE GrammarPrecompute -------------------------
(***************************************************************************)
(* marpa_g_precompute, and the dotted rules (AHMs) that it makes of the    *)
(* internal rules.  The tables of the recognizer are in EarleyGrammar; the *)
(* record that it takes is made here of a grammar that was built.          *)
(***************************************************************************)
EXTENDS GrammarRewrite

\* The checks before anything is done, but for the events: they are cleared first.
PrecomputeChecks ==
    FirstOf(<<
        Hard(g.xrls = <<>>, "NO_RULES"),
        NotOpen,
        Hard(g.start = NoId, "NO_START_SYMBOL"),
        Hard(g.start > Len(g.xsys), "INVALID_START_SYMBOL"),
        Hard(~ XsyIs(g.start, "lhs"), "START_NOT_LHS")>>)

PrecomputeFails(code, new) ==
    /\ result' = -2
    /\ error' = code
    /\ g' = new

PrecomputeRefused ==
    /\ PrecomputeChecks # Ok
    /\ PrecomputeFails(PrecomputeChecks.code, [g EXCEPT !.events = <<>>])

\* The census fails: what it has done up to there remains done.
PrecomputeCountedNullable ==
    /\ PrecomputeChecks = Ok
    /\ CountedNullables(g) # {}
    /\ PrecomputeFails("COUNTED_NULLABLE", NullableCensus(g))

PrecomputeUnproductiveStart ==
    /\ PrecomputeChecks = Ok
    /\ CountedNullables(g) = {}
    /\ g.start \notin ProductiveV(g)
    /\ PrecomputeFails("UNPRODUCTIVE_START", ProductiveCensus(g))

PrecomputeNullingTerminal ==
    /\ PrecomputeChecks = Ok
    /\ CountedNullables(g) = {}
    /\ g.start \in ProductiveV(g)
    /\ NullingTerminals(g) # {}
    /\ PrecomputeFails("NULLING_TERMINAL", SymbolCensus(g))

Precomputed(h) == [Rewrite(Census(h)) EXCEPT !.precomputed = TRUE]

\* The grammar is precomputed; with a cycle it is, and yet the call fails.
PrecomputeDone ==
    /\ PrecomputeChecks = Ok
    /\ CountedNullables(g) = {}
    /\ g.start \in ProductiveV(g)
    /\ NullingTerminals(g) = {}
    /\ g' = Precomputed(g)
    /\ result' = IF g'.hasCycle THEN -2 ELSE 0
    /\ error' = IF g'.hasCycle THEN "GRAMMAR_HAS_CYCLE" ELSE error

Precompute ==
    \/ PrecomputeRefused
    \/ PrecomputeCountedNullable
    \/ PrecomputeUnproductiveStart
    \/ PrecomputeNullingTerminal
    \/ PrecomputeDone

-----------------------------------------------------------------------------
(***************************************************************************)
(* Dotted rules, in the order of their ids: one before each symbol of a    *)
(* rule that is not nulling, and one after the last; nulls counts the      *)
(* nulling symbols right before the dot.  A trivial grammar has none.      *)
(***************************************************************************)
NsyNulls(h, n) == "nulling" \in h.nsys[n].is

ProperDots(h, i) ==
    LET rhs == h.irls[i].rhs
    IN  SelectSeq([d \in 1 .. Len(rhs) |-> d], LAMBDA d : ~ NsyNulls(h, rhs[d]))

\* NoId stands for the position of a completion.
AhmsOfIrl(h, i) ==
    LET dots == ProperDots(h, i)
        rhs == h.irls[i].rhs
        after(k) == IF k = 1 THEN 1 ELSE dots[k - 1] + 1
    IN  [k \in 1 .. Len(dots) + 1 |->
            IF k <= Len(dots)
              THEN [irl |-> i, quasi |-> k - 1, position |-> dots[k],
                    postdot |-> rhs[dots[k]], nulls |-> dots[k] - after(k)]
              ELSE [irl |-> i, quasi |-> k - 1, position |-> NoId,
                    postdot |-> NoId, nulls |-> Len(rhs) + 1 - after(k)]]

Ahms(h) ==
    LET upTo[i \in 0 .. Len(h.irls)] ==
            IF i = 0 THEN <<>> ELSE upTo[i - 1] \o AhmsOfIrl(h, i)
    IN  IF h.startIrl = NoId THEN <<>> ELSE upTo[Len(h.irls)]

\* Where the dot stands in the right side of the rule, or after it.
RawPosition(h, ahm) ==
    IF ahm.position = NoId THEN Len(h.irls[ahm.irl].rhs) + 1 ELSE ahm.position

\* memoize_xrl_data_for_AHM with Raw_XRL_Position_of_AHM: where the dot stands in the
\* external rule; the end of a piece is the end of the rule.
XrlDot(h, ahm) ==
    LET irl == h.irls[ahm.irl]
        length == Len(h.xrls[irl.source].rhs)
    IN  IF SequenceIn(h, irl.source) THEN IF ahm.position = 1 THEN 1 ELSE length + 1
        ELSE IF ahm.position = NoId THEN length + 1
        ELSE IF irl.chaf THEN ahm.position + irl.virtualStart - 1
        ELSE ahm.position

\* ZWA_CIL_of_AHM: the assertions at the dot and before the nulled symbols at it.
ZwasOf(h, ahm) ==
    {p.zwa : p \in {q \in h.zwps :
        /\ h.irls[ahm.irl].source = q.rule
        /\ q.dot \in XrlDot(h, ahm) - ahm.nulls .. XrlDot(h, ahm)}}

\* Nulled_XSYIDs_of_AHM: what is nulled with the nulled symbols at the dot.
NulledXsysOf(h, ahm) ==
    LET raw == RawPosition(h, ahm)
    IN  UNION {h.xsys[h.nsys[h.irls[ahm.irl].rhs[d]].source].nulls
                    : d \in raw - ahm.nulls .. raw - 1}

NotClosedAhm(a) ==
    FirstOf(<<NotClosed, Hard(a \notin 1 .. Len(Ahms(g)), "INVALID_AIMID")>>)

AhmCount       == Ask(NotClosed, Len(Ahms(g)))
AhmIrl(a)      == Ask(NotClosedAhm(a), Ahms(g)[a].irl)
AhmPosition(a) == Ask(NotClosedAhm(a), Ahms(g)[a].position)
AhmPostdot(a)  == Ask(NotClosedAhm(a), Ahms(g)[a].postdot)

IrlIsChaf(i) == Ask(FirstOf(<<NotClosed, BadIrl(i)>>), Boolean(g.irls[i].chaf))

-----------------------------------------------------------------------------
(***************************************************************************)
(* The grammar as the recognizer has it, a record for EarleyGrammar and    *)
(* what the bocage, its order and the valuator take beside it; xrl are the *)
(* external rules that internal ones come from.  A rule is barred when an  *)
(* assertion with default 0 stands at its start.                           *)
(***************************************************************************)
Irl(i) == <<"irl", i>>
Nsy(n) == <<"nsy", n>>

EarleyRecord(h) ==
    LET ahms == Ahms(h)
        dotted == {ahms[n] : n \in DOMAIN ahms}
        place(a) == <<Irl(a.irl), a.quasi>>
        at(p) == CHOOSE a \in dotted : place(a) = p
        rules == {Irl(i) : i \in DOMAIN h.irls}
        proper == {n \in DOMAIN h.nsys : ~ NsyNulls(h, n)}
        symbols == {Nsy(n) : n \in proper}
        with(kinds(_)) == [k \in EventKinds |-> {x \in XsysOf(h) : k \in kinds(x)}]
        declared(x) == h.xsys[x].declared
        startsActive(x) == h.xsys[x].startsActive
    IN  [rule |-> rules,
         lhs |-> [r \in rules |-> Nsy(h.irls[r[2]].lhs)],
         rhs |-> [r \in rules |->
                    LET dots == ProperDots(h, r[2])
                    IN  [k \in DOMAIN dots |-> Nsy(h.irls[r[2]].rhs[dots[k]])]],
         startRule |-> Irl(h.startIrl),
         symbol |-> symbols,
         xsy |-> XsysOf(h),
         nsyOf |-> [x \in XsysOf(h) |->
                    Nsy(IF h.xsys[x].nsy \in proper THEN h.xsys[x].nsy ELSE NoId)],
         sourceXsy |-> [n \in symbols |-> h.nsys[n[2]].source],
         terminal |-> XsysWith(h, "terminal"),
         virtualLhs |-> {r \in rules : h.irls[r[2]].virtualLhs},
         nulledAt |-> [p \in {place(a) : a \in dotted} |-> NulledXsysOf(h, at(p))],
         nullCount |-> [p \in {place(a) : a \in dotted} |-> at(p).nulls],
         nulledAtStart |-> h.xsys[h.start].nulls,
         declared |-> with(declared),
         startsActive |-> with(startsActive),
         barred |-> {r \in rules : \E z \in ZwasOf(h, at(<<r, 0>>)) : h.zwas[z] = 0},
         valued |-> XsysWith(h, "valued"),
         valuedLocked |-> XsysWith(h, "valuedLocked"),
         rank |-> [o \in rules \cup symbols |->
                    IF o \in symbols THEN h.nsys[o[2]].rank ELSE h.irls[o[2]].rank],
         xrl |-> {h.irls[r[2]].source : r \in rules} \ {NoId},
         xrlLhs |-> [x \in {h.irls[r[2]].source : r \in rules} \ {NoId} |-> h.xrls[x].lhs],
         source |-> [r \in rules |-> h.irls[r[2]].source],
         rhsXsys |-> [r \in rules |-> [d \in DOMAIN h.irls[r[2]].rhs |->
                                          h.nsys[h.irls[r[2]].rhs[d]].source]],
         realCount |-> [r \in rules |-> h.irls[r[2]].realCount],
         virtualRhs |-> {r \in rules : h.irls[r[2]].virtualRhs},
         ofSequence |-> {r \in rules : h.irls[r[2]].source # NoId /\ SequenceIn(h, h.irls[r[2]].source)},
         xrlDot |-> [p \in {place(a) : a \in dotted} |->
                        IF h.irls[at(p).irl].source = NoId THEN 0 ELSE XrlDot(h, at(p))]]
=============================================================================
