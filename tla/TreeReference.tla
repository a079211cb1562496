--------------------------- MODULE TreeReference ---------------------------
(***************************************************************************)
(* The parse trees that the tree iterator has to find, by recursion over   *)
(* the bocage, and what the ambiguity metric tells of them.                *)
(***************************************************************************)
EXTENDS Tree

\* The trees of an or-node, as sets of and-nodes, that go through no or-node of above;
\* a token, a nulling symbol or nothing has the empty tree.
TreesBelow(trees, child, above) ==
    IF child \in bocage.ors THEN trees[above][child] ELSE {{}}

\* The and-node a with a tree of each or-node that it leads to.
TreesThrough(trees, a, above) ==
    UNION {{{a} \cup p \cup c : p \in TreesBelow(trees, a.pred, above)} :
              c \in TreesBelow(trees, a.cause, above)}

TreesFrom(trees, o, above) ==
    IF o \in above
      THEN {}       \* a cycle
      ELSE UNION {TreesThrough(trees, a, above \cup {o}) : a \in Range(order[o])}

\* above holds the or-nodes between o and the top.
TreesOf ==
    LET trees[above \in SUBSET bocage.ors] ==
          [o \in bocage.ors |-> TreesFrom(trees, o, above)]
    IN trees

AllTrees == IF bocage.nulling THEN {{}} ELSE TreesOf[{}][bocage.top]

\* marpa_t_next returns parse trees of the bocage, none of them twice and none with
\* a cycle, and is exhausted only when it has returned them all.
EveryParseOnce ==
    turn = "idle" =>
        /\ parses \subseteq AllTrees
        /\ parseCount = Cardinality(parses)
        /\ exhausted => parses = AllTrees

-----------------------------------------------------------------------------
(***************************************************************************)
(* The ambiguity metric against the number of parse trees.                 *)
(***************************************************************************)
Kids(o) ==
    UNION {{a.pred, a.cause} : a \in Range(order[o])} \cap bocage.ors

\* The or-nodes that start leads to, those of start included.
LedTo(start) ==
    LET led[n \in Nat] ==
          IF n = 0 THEN start \cap bocage.ors
          ELSE LET before == led[n - 1]
               IN  before \cup UNION {Kids(o) : o \in before}
    IN led[Cardinality(bocage.ors)]

\* The and-nodes that the order keeps lead from an or-node back to itself.
GoesRound == \E o \in LedTo({bocage.top}) : o \in LedTo(Kids(o))

\* The ambiguity metric is 1 only if the iterator finds at most one parse; and where
\* the forest has no cycle, it is 1 exactly if there is one.  That is so even when the
\* metric was taken before the iteration and ranking was tried in between.  An
\* and-node that goes round makes the metric 2 (marpa.c:15406) though no parse comes of
\* it (16912), where R.pod:1501-1505 promises a count of parse trees; and ranks that
\* prefer such a node may leave no parse at a metric of 1.
MetricTellsAmbiguity ==
    exhausted /\ metric >= 0 =>
        /\ metric = 1 => parseCount <= 1
        /\ ~ GoesRound => (metric = 1 <=> parseCount = 1)
=============================================================================
