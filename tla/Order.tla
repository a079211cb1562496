------------------------------- MODULE Order -------------------------------
(***************************************************************************)
(* The order of the and-nodes of each or-node of a bocage: marpa_o_new,    *)
(* marpa_o_high_rank_only_set, marpa_o_rank, marpa_o_ambiguity_metric.     *)
(*                                                                         *)
(* Without ranking the order is that of the and-nodes in the bocage, which *)
(* is any order here, because the bocage leaves it out.                    *)
(***************************************************************************)
EXTENDS Bocage, SequencesExt

CONSTANTS
    Rank,       \* the rank of a symbol (as a token) or of a rule (as a cause)
    NoOrder     \* marpa_o_new has not been called

ASSUME OrderAssumption == Rank \in [Symbol \cup Rule -> Int]

VARIABLES
    order,          \* the and-nodes of each or-node, in the order in effect
    reordered,      \* t_and_node_orderings is not NULL
    frozen,         \* t_is_frozen
    highRankOnly,   \* t_high_rank_count, 0 or 1
    metric          \* t_ambiguity_metric, -1 if not known yet

orderVars == <<order, reordered, frozen, highRankOnly, metric>>

RecognizerUnchanged ==
    UNCHANGED <<phase, pc, inputVars, chartVars, linkVars, valueVars, settingVars, events>>

-----------------------------------------------------------------------------
Divided(b) == {o \in b.ors : Cardinality(AndsOf(b, o)) > 1}

\* The orders that the and-nodes may have in the bocage.
Arrangements(b) ==
    LET Of(o) == SetToSeqs(AndsOf(b, o))
        choices == {f \in [Divided(b) -> UNION {Of(o) : o \in Divided(b)}] :
                       \A o \in Divided(b) : f[o] \in Of(o)}
    IN {[o \in b.ors |-> IF o \in Divided(b) THEN f[o] ELSE SetToSeq(AndsOf(b, o))] :
           f \in choices}

\* A bocage gets one order: another one would hold another copy of this state.
OrderNew ==
    /\ bocage # NoBocage /\ order = NoOrder
    /\ order' \in Arrangements(bocage)
    /\ reordered' = FALSE /\ frozen' = FALSE /\ highRankOnly' = 1 /\ metric' = -1
    /\ Returned("o_new", "NONE", 0)
    /\ RecognizerUnchanged /\ UNCHANGED bocage

HighRankOnlySet(count) ==
    /\ order # NoOrder
    /\ IF frozen
         THEN /\ highRankOnly' = highRankOnly
              /\ Returned("high_rank_only_set", "ORDER_FROZEN", -2)
         ELSE IF count \notin {0, 1}
         THEN /\ highRankOnly' = highRankOnly
              /\ Returned("high_rank_only_set", "INVALID_BOOLEAN", -2)
         ELSE /\ highRankOnly' = count
              /\ Returned("high_rank_only_set", "NONE", count)
    /\ RecognizerUnchanged /\ UNCHANGED <<bocage, order, reordered, frozen, metric>>

\* A nulling symbol is never one of several causes, so its rank is of no use.
RankOf(a) ==
    IF a.cause.type = "token" THEN Rank[a.cause.sym]
    ELSE IF a.cause.type = "or" THEN Rank[a.cause.rule]
    ELSE 0

\* Section 1003, an insertion sort: the highest rank first, and those of one rank in
\* the order they had.
ByRank(s) ==
    LET Before(i, j) == \/ RankOf(s[i]) > RankOf(s[j])
                        \/ RankOf(s[i]) = RankOf(s[j]) /\ i < j
        Place(i) == Cardinality({j \in DOMAIN s : Before(j, i)}) + 1
    IN [k \in DOMAIN s |-> s[CHOOSE i \in DOMAIN s : Place(i) = k]]

\* Section 1002: the and-nodes of the highest rank, in the order they had.
HighestRanked(s) ==
    LET best == {i \in DOMAIN s : \A j \in DOMAIN s : RankOf(s[j]) <= RankOf(s[i])}
    IN SubSeq(ByRank(s), 1, Cardinality(best))

RankBocage ==
    /\ order # NoOrder
    /\ IF frozen
         THEN /\ Returned("o_rank", "ORDER_FROZEN", -2)
              /\ UNCHANGED <<order, reordered, frozen>>
         ELSE /\ order' = [o \in DOMAIN order |->
                             IF highRankOnly = 1 THEN HighestRanked(order[o])
                                                 ELSE ByRank(order[o])]
              /\ reordered' = (Divided(bocage) # {})
              /\ frozen' = TRUE
              /\ Returned("o_rank", "NONE", 1)
    /\ RecognizerUnchanged /\ UNCHANGED <<bocage, highRankOnly, metric>>

\* The or-nodes that are reached from the top through the first and-nodes.
FirstReached(ord) ==
    LET reached[n \in Nat] ==
          IF n = 0
            THEN {bocage.top}
            ELSE LET before == reached[n - 1]
                     heads == {Head(ord[o]) : o \in before}
                     children == {a.pred : a \in heads} \cup {a.cause : a \in heads}
                 IN before \cup (children \cap bocage.ors)
    IN reached[Cardinality(bocage.ors)]

\* A mutant of MetricOf: that of the bocage, whatever the order leaves out.
MetricOfBocage(ord) == AmbiguityMetric(bocage)
MetricOf(ord) ==
    IF AmbiguityMetric(bocage) < 2 \/ ~ reordered \/ highRankOnly = 0
      THEN AmbiguityMetric(bocage)
      ELSE IF \E o \in FirstReached(ord) : Len(ord[o]) > 1 THEN 2 ELSE 1

\* A mutant of OrderAmbiguityMetric: the order stays open to ranking.
OrderAmbiguityMetricOnly ==
    /\ order # NoOrder
    /\ frozen' = frozen
    /\ metric' = IF metric >= 0 THEN metric ELSE MetricOf(order)
    /\ Returned("o_ambiguity_metric", "NONE", metric')
    /\ RecognizerUnchanged /\ UNCHANGED <<bocage, order, reordered, highRankOnly>>

OrderAmbiguityMetric ==
    /\ order # NoOrder
    /\ frozen' = TRUE
    /\ metric' = IF metric >= 0 THEN metric ELSE MetricOf(order)
    /\ Returned("o_ambiguity_metric", "NONE", metric')
    /\ RecognizerUnchanged /\ UNCHANGED <<bocage, order, reordered, highRankOnly>>

OrderInit ==
    /\ order = NoOrder /\ reordered = FALSE /\ frozen = FALSE
    /\ highRankOnly = 1 /\ metric = -1

OrderCall ==
    \/ \E count \in {0, 1, 2} : HighRankOnlySet(count)
    \/ RankBocage
    \/ OrderAmbiguityMetric
=============================================================================
