------------------------------- MODULE Bocage -------------------------------
(***************************************************************************)
(* The bocage, the forest of the parses that end at an Earley set:         *)
(* marpa_b_new, over the Earley sets, links and Leo items that the         *)
(* recognizer has at the time of the call.                                 *)
(*                                                                         *)
(* An or-node stands for the symbols of a rule up to a position, over a    *)
(* span of Earley sets.  Its position is that of a dotted rule and a       *)
(* number of the nulling symbols after it.  In the code an or-node is      *)
(* found by span and position, in a per-set list that is good for one      *)
(* work set; here it is that span and position.  An and-node is one way    *)
(* to divide an or-node into a predecessor, which has one symbol less, and *)
(* a cause: a token, a nulling symbol, or the or-node of a completed rule. *)
(*                                                                         *)
(* The order of the and-nodes of an or-node is that of the links of the    *)
(* Earley items, which the recognizer leaves out, and so does the bocage.  *)
(***************************************************************************)
EXTENDS Recognizer, RulePositions

CONSTANTS
    Ordinals,   \* the ordinals of Earley sets that marpa_b_new is called with
    NoOr,       \* no or-node, a null pointer
    NoBocage    \* what marpa_b_new returns when it fails

ASSUME BocageAssumption ==
    /\ NullCount \in [Ahm -> Nat]
    /\ \A a \in Ahm : G.nulledAt[a] # {} => NullCount[a] > 0
    /\ Ordinals \subseteq Int
    /\ NoOr \notin [type : {"or"}, rule : Rule, dot : Nat, nulls : Nat, origin : Nat, at : Nat]
                 \cup [type : {"nulling"}] \cup [type : {"token"}, sym : Symbol, value : {0, 1}]

VARIABLES
    bocage      \* the bocage made last, or NoBocage

bocageVars == <<vars, bocage>>

-----------------------------------------------------------------------------
NullingOr    == [type |-> "nulling"]
TokenOr(token) == [type |-> "token", sym |-> token.sym, value |-> token.value]

OrNode(r, dot, nulls, origin, e) ==
    IF dot = 0 /\ nulls = 0
      THEN NoOr
      ELSE [type |-> "or", rule |-> r, dot |-> dot, nulls |-> nulls,
            origin |-> origin, at |-> e]

\* The or-node of an item stands after the nulling symbols before its dot, the
\* proper or-node before them.
OrOf(i) == OrNode(RuleOf(i.ahm), i.ahm[2], NullCount[i.ahm], i.origin, i.at)
ProperOrOf(i) == OrNode(RuleOf(i.ahm), i.ahm[2], 0, i.origin, i.at)

And(parent, pred, cause) == [parent |-> parent, pred |-> pred, cause |-> cause]

-----------------------------------------------------------------------------
(***************************************************************************)
(* Leo paths.  A Leo item points to its predecessor unless it was          *)
(* populated from its own trailhead; Above[l] is the chain that begins     *)
(* with l.                                                                 *)
(***************************************************************************)
PredecessorLim(l) ==
    IF l.top = Trailhead(l) /\ l.origin = l.base.origin THEN {} ELSE PredecessorOf(l)

Above[l \in lims] == {l} \cup UNION {Above[p] : p \in PredecessorLim(l)}

\* The completion that l stands for, in set e; no Earley item of e need be it.
PathItem(l, e) == [ahm |-> Trailhead(l), origin |-> l.base.origin, at |-> e]

-----------------------------------------------------------------------------
(***************************************************************************)
(* The Earley items of the bocage: those found from the item that          *)
(* completes the start rule, through the links of each item.  A predicted  *)
(* item is not followed; it has an or-node if nulling symbols stand before *)
(* its dot.                                                                *)
(***************************************************************************)
IsPredicted(i) == i.ahm[2] = 0

\* A mutant of Sources: of a chain of Leo items, the first is followed only.
SourcesBelowLeo(I) ==
    {k.pred : k \in {j \in tokenLinks : j.effect \in I}}
      \cup (UNION {{k.pred, k.cause} : k \in {j \in completionLinks : j.effect \in I}})
      \cup UNION {{k.cause, k.lim.base} : k \in {j \in leoLinks : j.effect \in I}}

\* What a Leo link stands for begins with its cause and has the bases of its chain.
LeoSources(k) == {k.cause} \cup {l.base : l \in Above[k.lim]}

Sources(I) ==
    {k.pred : k \in {j \in tokenLinks : j.effect \in I}}
      \cup (UNION {{k.pred, k.cause} : k \in {j \in completionLinks : j.effect \in I}})
      \cup (UNION {LeoSources(k) : k \in {j \in leoLinks : j.effect \in I}})

Onward(I) == I \cup {i \in Sources(I) : ~ IsPredicted(i)}

\* From the item start onward until nothing is new.
Reached(start) ==
    LET reached[I \in SUBSET items] ==
          IF Onward(I) = I THEN I ELSE reached[Onward(I)]
    IN reached[{start}]

ReachedOnly(I) == I     \* a mutant of WithOr: no or-node before the first symbol
WithOr(I) == I \cup {i \in Sources(I) : IsPredicted(i) /\ NullCount[i.ahm] > 0}

-----------------------------------------------------------------------------
(***************************************************************************)
(* The or-nodes and the draft and-nodes of the items I.                    *)
(***************************************************************************)
ItemOrs(I) ==
    (UNION {{OrNode(RuleOf(i.ahm), i.ahm[2], n, i.origin, i.at) : n \in 0 .. NullCount[i.ahm]} :
              i \in I}) \ {NoOr}

\* The or-nodes on the paths of the Leo links: one for each completion between the
\* cause and the item.  The or-nodes for the nulling symbols after it are made as
\* well, but in the list of the work set, where nothing looks for them; they are
\* left out.
PathOrs(I) ==
    UNION {{ProperOrOf(PathItem(l, k.effect.at)) :
               l \in {m \in Above[k.lim] : PredecessorLim(m) # {}}} :
              k \in {j \in leoLinks : j.effect \in I}}

\* A nulling symbol after the dot divides one way.
NullingAnds(I) ==
    UNION {{And(OrNode(RuleOf(i.ahm), i.ahm[2], n, i.origin, i.at),
                OrNode(RuleOf(i.ahm), i.ahm[2], n - 1, i.origin, i.at),
                NullingOr) : n \in 1 .. NullCount[i.ahm]} : i \in I}

TokenAnds(I) ==
    {And(ProperOrOf(k.effect), OrOf(k.pred), TokenOr(k.token)) :
        k \in {j \in tokenLinks : j.effect \in I}}

CompletionAnds(I) ==
    {And(ProperOrOf(k.effect), OrOf(k.pred), OrOf(k.cause)) :
        k \in {j \in completionLinks : j.effect \in I}}

\* dand_is_duplicate: the Leo links of an item may share the upper part of their
\* chains, and give the same draft and-nodes.
EveryDraft(draft, link) ==      \* a mutant of Distinct
    [parent |-> draft.parent, pred |-> draft.pred, cause |-> draft.cause, link |-> link]
Distinct(draft, link) == draft

\* The path of a Leo link, from its cause up to its effect.  The cause of a higher
\* step is looked up as the completion of the step below it.
StepParent(k, l) ==
    IF PredecessorLim(l) = {} THEN ProperOrOf(k.effect)
                              ELSE ProperOrOf(PathItem(l, k.effect.at))

FoundOr(o, ors) == IF o \in ors THEN o ELSE NoOr
StepCauses(k, l, ors) ==
    IF l = k.lim
      THEN {OrOf(k.cause)}
      ELSE {FoundOr(OrOf(PathItem(m, k.effect.at)), ors) :
               m \in {n \in Above[k.lim] : l \in PredecessorLim(n)}}

StepAnds(k, l, ors) ==
    {Distinct(And(StepParent(k, l), OrOf(l.base), cause), k) : cause \in StepCauses(k, l, ors)}

LeoAnds(I, ors) ==
    UNION {UNION {StepAnds(k, l, ors) : l \in Above[k.lim]} :
              k \in {j \in leoLinks : j.effect \in I}}

Forest(start) ==
    LET I == WithOr(Reached(start))
        ors == ItemOrs(I) \cup PathOrs(I)
    IN [nulling |-> FALSE, top |-> OrOf(start), ors |-> ors,
        ands |-> NullingAnds(I) \cup TokenAnds(I) \cup CompletionAnds(I) \cup LeoAnds(I, ors)]

NullingBocage == [nulling |-> TRUE, top |-> NoOr, ors |-> {}, ands |-> {}]

AndsOf(b, o) == {a \in b.ands : a.parent = o}

AmbiguityMetric(b) == IF \E o \in b.ors : Cardinality(AndsOf(b, o)) > 1 THEN 2 ELSE 1

-----------------------------------------------------------------------------
(***************************************************************************)
(* marpa_b_new.                                                            *)
(***************************************************************************)
StartXsy == G.sourceXsy[FirstSymbol(G.startRule)]
StartIsNullable == StartXsy \in G.nulledAtStart

\* The set of an ordinal; -1 is the current earleme, which may have no set.
SetOf(ordinal) ==
    IF ordinal = -1
      THEN sets \cap {current}
      ELSE {e \in sets : Cardinality({f \in sets : f < e}) = ordinal}

CompletedStarts(e) ==
    {i \in items : /\ i.at = e /\ i.origin = 0
                   /\ RuleOf(i.ahm) = G.startRule /\ ~ IsPredicted(i)}

\* Why there is no bocage for an ordinal.
BocageError(ordinal) ==
    IF ordinal <= -2                                 THEN "INVALID_LOCATION"
    ELSE IF phase = "before"                         THEN "RECCE_NOT_STARTED"
    ELSE IF ordinal # -1 /\ SetOf(ordinal) = {}      THEN "INVALID_LOCATION"
    ELSE IF SetOf(ordinal) = {0} /\ StartIsNullable  THEN "NONE"
    ELSE IF \E e \in SetOf(ordinal) \ {0} : CompletedStarts(e) # {} THEN "NONE"
    ELSE "NO_PARSE"

BocageNew(ordinal) ==
    /\ pc = "idle"
    /\ IF BocageError(ordinal) # "NONE"
         THEN bocage' = NoBocage
         ELSE \/ SetOf(ordinal) = {0} /\ bocage' = NullingBocage
              \/ \E e \in SetOf(ordinal) \ {0} : \E start \in CompletedStarts(e) :
                    bocage' = Forest(start)
    /\ Returned("b_new", BocageError(ordinal), 0)
    /\ UNCHANGED <<phase, pc, inputVars, chartVars, linkVars, valueVars,
                   settingVars, events>>

BocageInit == Init /\ bocage = NoBocage

\* A bocage holds no pointer into the recognizer, and the recognizer none into it:
\* recognizer calls after a bocage is made are left out.
BocageNext ==
    \/ bocage = NoBocage /\ Next /\ UNCHANGED bocage
    \/ \E ordinal \in Ordinals : BocageNew(ordinal)

BocageSpec == BocageInit /\ [][BocageNext]_bocageVars

-----------------------------------------------------------------------------
(***************************************************************************)
(* Properties.                                                             *)
(***************************************************************************)
\* Every and-node has a cause, as draft_and_node_new asserts: the tree iterator
\* follows it without a test.
CausesExist == bocage # NoBocage => \A a \in bocage.ands : a.cause # NoOr
=============================================================================
