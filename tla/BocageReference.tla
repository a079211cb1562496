-------------------------- MODULE BocageReference --------------------------
(***************************************************************************)
(* The forest that a bocage has to be, from Earley's algorithm without Leo *)
(* items.                                                                  *)
(***************************************************************************)
EXTENDS RecognizerRefinement, Bocage

\* How the part of rule r up to dot, over origin to at, divides: the last symbol is
\* a token or a completed rule, and what precedes it is an item of the chart C.
Divisions(C, r, dot, origin, e) ==
    LET sym == Rhs(r)[dot]
        Before(middle) == {i \in C : /\ i.ahm = <<r, dot - 1>>
                                     /\ i.origin = origin /\ i.at = middle}
        parent == OrNode(r, dot, 0, origin, e)
    IN UNION {
         UNION {{And(parent, OrOf(i), TokenOr(t)) : i \in Before(t.start)} :
                   t \in {u \in ScannedTokens : u.sym = sym /\ u.end = e}},
         UNION {{And(parent, OrOf(i), OrOf(c)) : i \in Before(c.origin)} :
                   c \in {d \in C : IsCompletion(d.ahm) /\ LhsOf(d.ahm) = sym /\ d.at = e}}}

\* The ways that an or-node divides.
ReferenceAnds(C, o) ==
    IF o.nulls > 0
      THEN {And(o, OrNode(o.rule, o.dot, o.nulls - 1, o.origin, o.at), NullingOr)}
      ELSE Divisions(C, o.rule, o.dot, o.origin, o.at)

Children(b, o) == UNION {{a.pred, a.cause} : a \in AndsOf(b, o)}

\* Each or-node of a bocage divides in just the ways that Earley's algorithm finds,
\* once each: what Leo items skip is there, and nothing is there twice; an or-node
\* that an and-node leads to is in the bocage, and only the top is led to by none.
BocageIsExact ==
    bocage # NoBocage /\ ~ bocage.nulling =>
        LET C == Parser!Chart(ScannedTokens, bocage.top.at)
        IN /\ bocage.top \in bocage.ors
           /\ \A o \in bocage.ors :
                 /\ {And(o, a.pred, a.cause) : a \in AndsOf(bocage, o)} = ReferenceAnds(C, o)
                 /\ Cardinality(AndsOf(bocage, o)) = Cardinality(ReferenceAnds(C, o))
                 /\ AndsOf(bocage, o) # {}
                 /\ \A c \in Children(bocage, o) :
                       c \in bocage.ors \cup {NoOr, NullingOr} \/ c.type = "token"
                 /\ o = bocage.top \/ \E p \in bocage.ors : o \in Children(bocage, p)
=============================================================================
