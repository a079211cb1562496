--------------------------- MODULE EarleyGrammar ---------------------------
(***************************************************************************)
(* A precomputed libmarpa grammar, as the recognizer sees it: the internal *)
(* rules (IRLs) over the internal symbols (NSYs), the dotted rules (AHMs)  *)
(* and the tables that marpa_g_precompute builds from them.                *)
(*                                                                         *)
(* Nulling symbols never stand after a dot: an AHM exists before each      *)
(* non-nulling symbol of a rule and after the last one.  rhs[r] is the     *)
(* sequence of the non-nulling symbols of r, and nulledAt says which       *)
(* external symbols are nulled between two positions.                      *)
(***************************************************************************)
EXTENDS Naturals, Sequences, FiniteSets

CONSTANTS
    G,          \* the grammar, a record (see GrammarAssumption)
    NoSymbol    \* what a lookup returns for an XSY that has no NSY

EventKind == {"completed", "nulled", "predicted"}

Symbol == G.symbol      \* NSYs that are not nulling
Xsy    == G.xsy         \* external symbols, those that are not used included
Rule   == G.rule        \* IRLs
Lhs(r) == G.lhs[r]
Rhs(r) == G.rhs[r]

(***************************************************************************)
(* A dotted rule: <<r, d>> is rule r with d non-nulling symbols before the *)
(* dot.                                                                    *)
(***************************************************************************)
Ahm == UNION {{r} \X (0 .. Len(Rhs(r))) : r \in Rule}

RuleOf(ahm)         == ahm[1]
LhsOf(ahm)          == Lhs(RuleOf(ahm))
IsCompletion(ahm)   == ahm[2] = Len(Rhs(RuleOf(ahm)))
PostdotIs(ahm, sym) == ~ IsCompletion(ahm) /\ Rhs(RuleOf(ahm))[ahm[2] + 1] = sym
SkippingAhm(ahm)    == <<RuleOf(ahm), ahm[2] + 2>>   \* a mutant of NextAhm
NextAhm(ahm)        == <<RuleOf(ahm), ahm[2] + 1>>
FirstAhm(r)         == <<r, 0>>

FirstSymbol(r) == Head(Rhs(r))
LastSymbol(r)  == Rhs(r)[Len(Rhs(r))]

ASSUME GrammarAssumption ==
    /\ NoSymbol \notin G.symbol
    /\ IsFiniteSet(G.xsy) /\ IsFiniteSet(G.rule)
    /\ G.lhs \in [G.rule -> G.symbol]
    /\ G.rhs \in [G.rule -> Seq(G.symbol)]
    /\ \A r \in G.rule : Len(G.rhs[r]) >= 1
    /\ G.startRule \in G.rule
    \* the augmented start rule is the only rule of a symbol of its own
    /\ \A r \in G.rule :
          /\ r # G.startRule => G.lhs[r] # G.lhs[G.startRule]
          /\ \A d \in 1 .. Len(G.rhs[r]) : G.rhs[r][d] # G.lhs[G.startRule]
    /\ G.nsyOf \in [G.xsy -> G.symbol \cup {NoSymbol}]
    /\ G.sourceXsy \in [G.symbol -> G.xsy]
    /\ \A x \in G.xsy : G.nsyOf[x] # NoSymbol => G.sourceXsy[G.nsyOf[x]] = x
    /\ G.terminal \subseteq G.xsy
    /\ G.virtualLhs \subseteq G.rule
    /\ G.nulledAt \in [Ahm -> SUBSET G.xsy]
    /\ G.nulledAtStart \subseteq G.xsy
    /\ G.declared \in [EventKind -> SUBSET G.xsy]
    /\ G.startsActive \in [EventKind -> SUBSET G.xsy]
    /\ \A k \in EventKind : G.startsActive[k] \subseteq G.declared[k]
    /\ G.barred \subseteq G.rule
    /\ G.valued \subseteq G.xsy /\ G.valuedLocked \subseteq G.xsy

(***************************************************************************)
(* The tables of marpa_g_precompute.  A transitive closure is the least    *)
(* set that has the base and is closed under the step, so it is the        *)
(* intersection of all such sets.                                          *)
(***************************************************************************)

\* The NSYs of the terminals.
TerminalNsy == {G.nsyOf[x] : x \in G.terminal} \ {NoSymbol}

\* The symbols predicted, directly or not, where sym is expected.
PredictionClosed(sym, C) ==
    /\ sym \in C
    /\ \A r \in Rule : Lhs(r) \in C => FirstSymbol(r) \in C

PredictedSymbols ==
    [sym \in Symbol |->
        {t \in Symbol : \A C \in SUBSET Symbol : PredictionClosed(sym, C) => t \in C}]

\* The rules predicted where sym is expected (Predicted_IRL_CIL_of_AHM).
PredictedRules ==
    [sym \in Symbol |-> {r \in Rule : Lhs(r) \in PredictedSymbols[sym]}]

\* The symbols at the right edge of a derivation that starts with a rule of sym
\* and uses the rules R only.
RightReach(R, sym) ==
    {t \in Symbol : \A C \in SUBSET Symbol :
        (\A r \in R : (Lhs(r) = sym \/ Lhs(r) \in C) => LastSymbol(r) \in C) => t \in C}

\* The right recursive rules: those that can make a Leo item (IRL_is_Leo).
LeoRule == {r \in Rule : Lhs(r) \in RightReach(Rule, LastSymbol(r))}

IsLeoCompletion(ahm) == IsCompletion(ahm) /\ RuleOf(ahm) \in LeoRule

\* The dot stands before the last non-nulling symbol of a right recursive rule.
IsLeoPenult(ahm) == ~ IsCompletion(ahm) /\ IsLeoCompletion(NextAhm(ahm))

(***************************************************************************)
(* The events of a dotted rule: <<kind, XSY>>.  A completed symbol must be *)
(* declared and must not be the left side of a virtual rule; every symbol  *)
(* after a dot is a prediction event of its source XSY.  Whether an event  *)
(* is active is a matter of the recognizer.                                *)
(***************************************************************************)
CompletedXsys(ahm) ==
    {x \in G.declared["completed"] :
        /\ IsCompletion(ahm)
        /\ RuleOf(ahm) \notin G.virtualLhs
        /\ x = G.sourceXsy[LhsOf(ahm)]}

PredictedXsys(ahm) == {G.sourceXsy[t] : t \in {u \in Symbol : PostdotIs(ahm, u)}}

AhmEvents ==
    [ahm \in Ahm |->
        ({"completed"} \X CompletedXsys(ahm))
          \cup ({"nulled"} \X G.nulledAt[ahm])
          \cup ({"predicted"} \X PredictedXsys(ahm))]

\* Event_AHMIDs_of_AHM: the dotted rule itself, if it has an event.
EventAhms(ahm) == {a \in {ahm} : AhmEvents[a] # {}}

\* How many dotted rules with an event a chain of Leo items below ahm can hold.
EventGroupSize ==
    [ahm \in Ahm |->
        IF IsLeoCompletion(ahm)
          THEN Cardinality({inner \in Ahm :
                  /\ IsLeoCompletion(inner)
                  /\ EventAhms(inner) # {}
                  /\ LhsOf(inner) \in RightReach(LeoRule, LhsOf(ahm))})
          ELSE Cardinality(EventAhms(ahm))]
=============================================================================
