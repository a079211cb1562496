--------------------------- MODULE RulePositions ---------------------------
(***************************************************************************)
(* The positions in the right sides of internal rules, with their nulling  *)
(* symbols, and the virtual symbols in them: those that precomputation     *)
(* makes when it divides an external rule, and that of the start rule.     *)
(***************************************************************************)
EXTENDS EarleyGrammar

CONSTANT
    NullCount   \* Null_Count_of_AHM: how many nulling symbols stand before
                \* the dot, after the non-nulling symbol that precedes it

\* The nulling symbols before the dot of an earlier AHM of the same rule.
NullsBefore ==
    [r \in Rule |->
        LET before[d \in 0 .. Len(Rhs(r))] ==
              IF d = 0 THEN 0 ELSE before[d - 1] + NullCount[<<r, d - 1>>]
        IN before]

\* The position in rule r after the d-th non-nulling symbol and nulls after it.
Position(r, d, nulls) == d + nulls + NullsBefore[r][d]

IsVirtual(sym) == G.nsyOf[G.sourceXsy[sym]] # sym

\* Where the virtual symbols of a rule are.
VirtualDots(r) == {d \in 1 .. Len(Rhs(r)) : IsVirtual(Rhs(r)[d])}

\* What is told of a rule: its symbols, whether its left side is virtual, whether its
\* right side has a virtual symbol, never two of them, and how many others it has.
ASSUME PositionAssumption ==
    /\ G.virtualRhs \subseteq Rule
    /\ G.rhsXsys \in [Rule -> Seq(Xsy)] /\ G.realCount \in [Rule -> Nat]
    /\ \A r \in Rule :
          /\ Len(G.rhsXsys[r]) = Position(r, Len(Rhs(r)), NullCount[<<r, Len(Rhs(r))>>])
          /\ r \in G.virtualLhs <=> IsVirtual(Lhs(r))
          /\ IF r \in G.virtualRhs THEN \E d \in 1 .. Len(Rhs(r)) : VirtualDots(r) = {d}
                                   ELSE VirtualDots(r) = {}
          /\ r \in G.virtualLhs \cup G.virtualRhs =>
                G.realCount[r] + (IF r \in G.virtualRhs THEN 1 ELSE 0) = Len(G.rhsXsys[r])
=============================================================================
