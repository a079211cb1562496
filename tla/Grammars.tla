------------------------------ MODULE Grammars ------------------------------
(***************************************************************************)
(* Small precomputed grammars, values for the constant G of EarleyGrammar. *)
(* Internal and external symbols have the same names; an internal symbol   *)
(* of another name is virtual.  MCGrammar compares each of them with what  *)
(* the model of precomputation makes of its external rules.                *)
(***************************************************************************)
EXTENDS Naturals, Sequences, TLC

CONSTANT NoSymbol

None == [k \in {"completed", "nulled", "predicted"} |-> {}]

\* A grammar without nulling symbols, events, assertions and valued symbols.
Plain(rhs, lhs, xsy, terminal, source) ==
    [rule |-> DOMAIN rhs, lhs |-> lhs, rhs |-> rhs, startRule |-> "start",
     symbol |-> DOMAIN source,
     xsy |-> xsy,
     nsyOf |-> [x \in xsy |-> IF x \in DOMAIN source THEN x ELSE NoSymbol],
     sourceXsy |-> source,
     terminal |-> terminal,
     virtualLhs |-> {r \in DOMAIN rhs : lhs[r] \notin xsy},
     nulledAt |-> [a \in UNION {{r} \X (0 .. Len(rhs[r])) : r \in DOMAIN rhs} |-> {}],
     nulledAtStart |-> {},
     declared |-> None, startsActive |-> None,
     barred |-> {}, valued |-> {}, valuedLocked |-> {},
     nullCount |-> [a \in UNION {{r} \X (0 .. Len(rhs[r])) : r \in DOMAIN rhs} |-> 0],
     rank |-> [o \in DOMAIN rhs \cup DOMAIN source |-> 3],
     xrl |-> DOMAIN rhs \ {"start"},
     xrlLhs |-> [r \in DOMAIN rhs \ {"start"} |-> lhs[r]],
     source |-> [r \in DOMAIN rhs |-> IF r = "start" THEN "no XRL" ELSE r],
     rhsXsys |-> [r \in DOMAIN rhs |-> [d \in DOMAIN rhs[r] |-> source[rhs[r][d]]]],
     realCount |-> [r \in DOMAIN rhs |-> IF r = "start" THEN 1 ELSE 0],
     virtualRhs |-> {}, ofSequence |-> {},
     xrlDot |-> [a \in UNION {{r} \X (0 .. Len(rhs[r])) : r \in DOMAIN rhs} |->
                    IF a[1] = "start" THEN 0 ELSE a[2] + 1]]

\* S ::= a T | a a U | b, T ::= S, U ::= S: two chains of Leo items of one item, for
\* two ways to divide it, that share their upper part; with completion events on the
\* left sides, that of the recursive symbol S not active.
Merging ==
    [Plain([start |-> <<"S">>, at |-> <<"a", "T">>, aau |-> <<"a", "a", "U">>, b |-> <<"b">>,
           ts |-> <<"S">>, us |-> <<"S">>],
          [start |-> "S'", at |-> "S", aau |-> "S", b |-> "S", ts |-> "T", us |-> "U"],
          {"S", "T", "U", "a", "b"}, {"a", "b"},
          "S'" :> "S" @@ "S" :> "S" @@ "T" :> "T" @@ "U" :> "U" @@ "a" :> "a" @@ "b" :> "b")
     EXCEPT !.declared = [None EXCEPT !["completed"] = {"S", "T", "U"}, !["predicted"] = {"T"}],
            !.startsActive = [None EXCEPT !["completed"] = {"T", "U"}]]

\* S ::= C A | a | C, C ::= a, A ::= a | B, B ::= a | A: a symbol that is ambiguous at
\* two depths, with a cycle, after one that is not; one rule of A is above the others.
\* One token is ambiguous without a cycle.  S is nullable, by an external rule of its
\* own.
Twofold ==
    [Plain([start |-> <<"S">>, sc |-> <<"C", "A">>, ca |-> <<"a">>, aa |-> <<"a">>,
           ab |-> <<"B">>, ba |-> <<"a">>, bb |-> <<"A">>, sa |-> <<"a">>, su |-> <<"C">>],
          [start |-> "S'", sc |-> "S", ca |-> "C", aa |-> "A", ab |-> "A", ba |-> "B", bb |-> "B",
           sa |-> "S", su |-> "S"],
          {"S", "A", "B", "C", "a"}, {"a"},
          "S'" :> "S" @@ "S" :> "S" @@ "A" :> "A" @@ "B" :> "B" @@ "C" :> "C" @@ "a" :> "a")
     EXCEPT !.rank["aa"] = 7, !.nulledAtStart = {"S"}]

\* A ::= B B B with B ::= b and B nullable, as marpa_g_precompute rewrites it:
\* the virtual symbol V, whose source is A, stands for the last two B.
Nullable ==
    LET plain ==
          Plain([start |-> <<"A">>, bv |-> <<"B", "V">>, bnn |-> <<"B">>, nv |-> <<"V">>,
                 bb |-> <<"B", "B">>, bn |-> <<"B">>, nb |-> <<"B">>, b |-> <<"b">>],
                [start |-> "S'", bv |-> "A", bnn |-> "A", nv |-> "A",
                 bb |-> "V", bn |-> "V", nb |-> "V", b |-> "B"],
                {"A", "B", "b"}, {"b"},
                "S'" :> "A" @@ "A" :> "A" @@ "V" :> "A" @@ "B" :> "B" @@ "b" :> "b")
    IN [plain EXCEPT
          !.nulledAt = [a \in DOMAIN plain.nulledAt |->
              IF a \in {<<"bnn", 1>>, <<"nv", 0>>, <<"bn", 1>>, <<"nb", 0>>}
                THEN {"B"} ELSE {}],
          !.nullCount = [@ EXCEPT ![<<"bnn", 1>>] = 2, ![<<"nv", 0>>] = 1,
                                  ![<<"bn", 1>>] = 1, ![<<"nb", 0>>] = 1],
          !.rank = [@ EXCEPT !["bnn"] = 2, !["nv"] = 1, !["bn"] = 2, !["nb"] = 1],
          !.xrl = {"bv", "b"}, !.xrlLhs = "bv" :> "A" @@ "b" :> "B",
          !.source = [r \in DOMAIN @ |-> IF r \in {"start", "b"} THEN @[r] ELSE "bv"],
          !.rhsXsys = [@ EXCEPT !["bnn"] = <<"B", "B", "B">>, !["nv"] = <<"B", "A">>,
                                !["bn"] = <<"B", "B">>, !["nb"] = <<"B", "B">>],
          !.realCount = [r \in DOMAIN @ |->
              IF r \in {"bb", "bn", "nb"} THEN 2 ELSE IF r = "bnn" THEN 3 ELSE IF r = "b" THEN 0 ELSE 1],
          !.virtualRhs = {"bv", "nv"},
          !.xrlDot = [@ EXCEPT ![<<"bv", 2>>] = 4, ![<<"bnn", 1>>] = 4, ![<<"nv", 0>>] = 2,
                               ![<<"nv", 1>>] = 4, ![<<"bb", 0>>] = 2, ![<<"bb", 1>>] = 3,
                               ![<<"bb", 2>>] = 4, ![<<"bn", 0>>] = 2, ![<<"bn", 1>>] = 4,
                               ![<<"nb", 0>>] = 3, ![<<"nb", 1>>] = 4],
          !.nulledAtStart = {"A", "B"},
          !.declared = [completed |-> {"A"}, nulled |-> {"A", "B"}, predicted |-> {"A"}],
          !.startsActive = [completed |-> {"A"}, nulled |-> {"B"}, predicted |-> {"A"}]]

\* A ::= B L with B ::= b nullable, and L ::= b* with separators c: lv and lvc are the
\* tops of the sequence, vb and vcb its items, over the virtual symbol V.
Listing ==
    LET plain ==
          Plain([start |-> <<"A">>, bl |-> <<"B", "L">>, bn |-> <<"B">>, nl |-> <<"L">>,
                 b |-> <<"b">>, lv |-> <<"V">>, lvc |-> <<"V", "c">>, vb |-> <<"b">>,
                 vcb |-> <<"V", "c", "b">>],
                [start |-> "S'", bl |-> "A", bn |-> "A", nl |-> "A", b |-> "B",
                 lv |-> "L", lvc |-> "L", vb |-> "V", vcb |-> "V"],
                {"A", "B", "L", "b", "c"}, {"b", "c"},
                "S'" :> "A" @@ "A" :> "A" @@ "V" :> "L" @@ "B" :> "B" @@ "L" :> "L"
                  @@ "b" :> "b" @@ "c" :> "c")
    IN [plain EXCEPT
          !.nulledAt[<<"bn", 1>>] = {"L", "b"}, !.nulledAt[<<"nl", 0>>] = {"B"},
          !.nullCount[<<"bn", 1>>] = 1, !.nullCount[<<"nl", 0>>] = 1,
          !.rank = [@ EXCEPT !["bn"] = 2, !["nl"] = 1],
          !.xrl = {"bl", "b", "lv"}, !.xrlLhs = "bl" :> "A" @@ "b" :> "B" @@ "lv" :> "L",
          !.source = [@ EXCEPT !["bn"] = "bl", !["nl"] = "bl",
                               !["lvc"] = "lv", !["vb"] = "lv", !["vcb"] = "lv"],
          !.rhsXsys = [@ EXCEPT !["bn"] = <<"B", "L">>, !["nl"] = <<"B", "L">>],
          !.realCount = [start |-> 1, bl |-> 2, bn |-> 2, nl |-> 2, b |-> 0,
                         lv |-> 0, lvc |-> 1, vb |-> 1, vcb |-> 2],
          !.virtualRhs = {"lv", "lvc", "vcb"}, !.ofSequence = {"lv", "lvc", "vb", "vcb"},
          !.xrlDot = [@ EXCEPT ![<<"bn", 1>>] = 3, ![<<"nl", 0>>] = 2, ![<<"nl", 1>>] = 3,
                               ![<<"lvc", 2>>] = 2, ![<<"vcb", 2>>] = 2, ![<<"vcb", 3>>] = 2],
          !.nulledAtStart = {"A", "B", "L", "b"},
          !.declared = [completed |-> {"A", "L"}, nulled |-> {"A", "B", "L"}, predicted |-> {"A"}],
          !.startsActive = [completed |-> {"A"}, nulled |-> {"B", "L"}, predicted |-> {"A"}]]

\* S ::= a S n | a with n nulling: a right recursion whose last symbol is nulling.
TrailingNull ==
    LET plain ==
          Plain([start |-> <<"S">>, more |-> <<"a", "S">>, last |-> <<"a">>],
                [start |-> "S'", more |-> "S", last |-> "S"],
                {"S", "a", "n"}, {"a"},
                "S'" :> "S" @@ "S" :> "S" @@ "a" :> "a")
    IN [plain EXCEPT !.nulledAt[<<"more", 2>>] = {"n"}, !.nullCount[<<"more", 2>>] = 1,
                     !.rhsXsys["more"] = <<"a", "S", "n">>, !.xrlDot[<<"more", 2>>] = 4]

\* A ::= x B B B A | a with B ::= b nullable: a right recursion in two pieces, over
\* the virtual symbol V that stands for the last two symbols.
RightPieces ==
    LET plain ==
          Plain([start |-> <<"A">>, bbv |-> <<"x", "B", "B", "V">>, bnv |-> <<"x", "B", "V">>,
                 nbv |-> <<"x", "B", "V">>, nnv |-> <<"x", "V">>, ba |-> <<"B", "A">>,
                 na |-> <<"A">>, last |-> <<"a">>, b |-> <<"b">>],
                [start |-> "S'", bbv |-> "A", bnv |-> "A", nbv |-> "A", nnv |-> "A",
                 ba |-> "V", na |-> "V", last |-> "A", b |-> "B"],
                {"A", "B", "b", "x", "a"}, {"b", "x", "a"},
                "S'" :> "A" @@ "A" :> "A" @@ "V" :> "A" @@ "B" :> "B"
                  @@ "b" :> "b" @@ "x" :> "x" @@ "a" :> "a")
        nulls == <<"bnv", 2>> :> 1 @@ <<"nbv", 1>> :> 1 @@ <<"nnv", 1>> :> 2 @@ <<"na", 0>> :> 1
    IN [plain EXCEPT
          !.nulledAt = [a \in DOMAIN @ |-> IF a \in DOMAIN nulls THEN {"B"} ELSE {}],
          !.nullCount = nulls @@ @,
          !.rank = [@ EXCEPT !["bnv"] = 2, !["nbv"] = 1, !["nnv"] = 0, !["na"] = 0],
          !.xrl = {"bbv", "last", "b"},
          !.xrlLhs = "bbv" :> "A" @@ "last" :> "A" @@ "b" :> "B",
          !.source = [r \in DOMAIN @ |-> IF r \in {"start", "last", "b"} THEN @[r] ELSE "bbv"],
          !.rhsXsys = [r \in DOMAIN @ |->
              IF r \in {"bbv", "bnv", "nbv", "nnv"} THEN <<"x", "B", "B", "A">>
              ELSE IF r = "na" THEN <<"B", "A">> ELSE @[r]],
          !.realCount = [r \in DOMAIN @ |->
              CASE r \in {"ba", "na"} -> 2 [] r \in {"last", "b"} -> 0 [] r = "start" -> 1 [] OTHER -> 3],
          !.virtualRhs = {"bbv", "bnv", "nbv", "nnv"},
          !.xrlDot = (<<"bbv", 4>> :> 6 @@ <<"bnv", 2>> :> 4 @@ <<"bnv", 3>> :> 6
                       @@ <<"nbv", 1>> :> 3 @@ <<"nbv", 2>> :> 4 @@ <<"nbv", 3>> :> 6
                       @@ <<"nnv", 1>> :> 4 @@ <<"nnv", 2>> :> 6
                       @@ <<"ba", 0>> :> 4 @@ <<"ba", 1>> :> 5 @@ <<"ba", 2>> :> 6
                       @@ <<"na", 0>> :> 5 @@ <<"na", 1>> :> 6) @@ @]

\* S ::= a S | B, B ::= b where a zero-width assertion, false by default, bars
\* S ::= B, and a is forced to be valued; u is a terminal of no use.
Barred ==
    [Plain([start |-> <<"S">>, more |-> <<"a", "S">>, sb |-> <<"B">>, b |-> <<"b">>],
           [start |-> "S'", more |-> "S", sb |-> "S", b |-> "B"],
           {"S", "B", "a", "b", "u"}, {"a", "b", "u"},
           "S'" :> "S" @@ "S" :> "S" @@ "B" :> "B" @@ "a" :> "a" @@ "b" :> "b")
     EXCEPT !.barred = {"sb"}, !.valued = {"a"}, !.valuedLocked = {"a"}]
=============================================================================
