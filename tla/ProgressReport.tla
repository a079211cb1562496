--------------------------- MODULE ProgressReport ---------------------------
(***************************************************************************)
(* What marpa_r_progress_report_start reports of an Earley set: the dotted *)
(* external rules in play there, each with its origin.                     *)
(*                                                                         *)
(* An item of a virtual rule is a part of an external rule, and is         *)
(* reported with the origin of the items that wait for it.  A completion   *)
(* that a Leo item hides is found through the links of the item on top of  *)
(* it.  The traversal of the report, in the order of its AVL tree, is left *)
(* out.                                                                    *)
(***************************************************************************)
EXTENDS RecognizerRefinement

ASSUME ReportAssumption ==
    /\ G.xrlDot \in [Ahm -> Nat]
    /\ G.ofSequence \subseteq Rule
    /\ G.source \in [Rule -> G.xrl \cup {G.source[G.startRule]}]

Line(ahm, i) == <<G.source[RuleOf(ahm)], G.xrlDot[ahm], i.origin>>

\* The dotted rule of a virtual symbol belongs to what waits for that symbol, unless
\* a Leo item stands first in that chain; those of a sequence are not reported.
RECURSIVE Owners(_)
Owners(i) ==
    IF RuleOf(i.ahm) \notin G.virtualLhs THEN {i}
    ELSE IF RuleOf(i.ahm) \in G.ofSequence THEN {}
    ELSE IF LimsFor(i.origin, LhsOf(i.ahm)) # {} THEN {}
    ELSE UNION {Owners(p) : p \in Pims(i.origin, LhsOf(i.ahm))}

\* progress_report_items_insert
Inserted(ahm, i) ==
    IF RuleOf(ahm) = G.startRule THEN {} ELSE {Line(ahm, owner) : owner \in Owners(i)}

\* The Leo item l and its predecessors.
RECURSIVE LimChain(_)
LimChain(l) == {l} \cup UNION {LimChain(p) : p \in PredecessorOf(l)}

LimOnly(l) == {l}   \* a mutant of Unfolded: the predecessors are not walked
Unfolded(l) == LimChain(l)

LeoLims(i) == {k.lim : k \in {j \in leoLinks : j.effect = i}}

ProgressReport(e) ==
    UNION {Inserted(i.ahm, i)
             \cup UNION {Inserted(Trailhead(l), l.base) : l \in UNION {Unfolded(m) : m \in LeoLims(i)}} :
           i \in {j \in items : j.at = e}}

-----------------------------------------------------------------------------
(***************************************************************************)
(* The dotted external rules of Earley's algorithm.                        *)
(***************************************************************************)
ReferenceReport(e) ==
    LET C == ReferenceChart
        owners[i \in C] ==
            IF RuleOf(i.ahm) \notin G.virtualLhs THEN {i}
            ELSE IF RuleOf(i.ahm) \in G.ofSequence THEN {}
            ELSE UNION {owners[p] : p \in {j \in C : j.at = i.origin /\ PostdotIs(j.ahm, LhsOf(i.ahm))}}
    IN UNION {{Line(i.ahm, owner) : owner \in owners[i]} :
              i \in {j \in C : j.at = e /\ RuleOf(j.ahm) # G.startRule}}

\* "When a progress report is requested at a G1 location, the Leo-memoization is
\* unfolded, and the full list of Earley items is reported" (Progress.pod), in terms
\* of the external rules, when a call has built an Earley set.
ReportIsFull ==
    pc = "idle" /\ ret[1] = "earleme_complete" /\ current \in sets =>
        ProgressReport(current) = ReferenceReport(current)
=============================================================================
