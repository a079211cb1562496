-------------------------------- MODULE Tree --------------------------------
(***************************************************************************)
(* The tree iterator: marpa_t_new and marpa_t_next, which finds the parse  *)
(* trees of a bocage one by one, and the valuators that pause it.          *)
(*                                                                         *)
(* The nook stack holds the part of a tree built so far: each nook is an   *)
(* or-node with the and-node chosen for it, pushed after its parent.       *)
(* marpa_t_next is one action per turn of its loops; turn says where the   *)
(* call is, "idle" between calls.                                          *)
(***************************************************************************)
EXTENDS Order

CONSTANT MaxPauses      \* how many valuators may be live at once

ASSUME TreeAssumption == MaxPauses \in Nat

VARIABLES
    turn,       \* "none" before marpa_t_new, "idle", "iterate", "expand"
    nooks,      \* t_nook_stack
    worklist,   \* t_nook_worklist, indexes into nooks
    inUse,      \* t_or_node_in_use
    exhausted,  \* t_is_exhausted
    parseCount, \* t_parse_count
    pauses,     \* t_pause_counter
    parses      \* history: the trees returned, as sets of and-nodes

treeVars == <<turn, nooks, worklist, inUse, exhausted, parseCount, pauses, parses>>
allVars == <<bocageVars, orderVars, treeVars>>

ForestUnchanged == RecognizerUnchanged /\ UNCHANGED bocage

-----------------------------------------------------------------------------
Nook(o, parent, isCause, isPred) ==
    [or |-> o, choice |-> 1, parent |-> parent,
     causeDone |-> FALSE, predDone |-> FALSE, isCause |-> isCause, isPred |-> isPred]

AndOf(nook) == order[nook.or][nook.choice]
HasChoice(o, choice) == choice <= Len(order[o])
SpanOf(o) == o.at - o.origin

NeverPaused == FALSE    \* a mutant of IsPaused
IsPaused == pauses > 0

NooksAndOne == [i \in 1 .. Len(nooks) + 1 |-> i]     \* a mutant of AllNooks
AllNooks == [i \in DOMAIN nooks |-> i]

TreeNew ==
    /\ order # NoOrder /\ turn = "none"
    /\ turn' = "idle" /\ nooks' = <<>> /\ worklist' = <<>> /\ inUse' = {}
    /\ exhausted' = FALSE /\ parseCount' = 0 /\ pauses' = 0 /\ parses' = {}
    /\ frozen' = TRUE
    /\ Returned("t_new", "NONE", 0)
    /\ ForestUnchanged /\ UNCHANGED <<order, reordered, highRankOnly, metric>>

TreeExhaust ==
    /\ turn' = "idle" /\ exhausted' = TRUE
    /\ nooks' = <<>> /\ worklist' = <<>> /\ inUse' = {}
    /\ Returned("t_next", "TREE_EXHAUSTED", -1)
    /\ UNCHANGED <<parseCount, pauses, parses>>

-----------------------------------------------------------------------------
(***************************************************************************)
(* The entry of marpa_t_next.                                              *)
(***************************************************************************)
TreeNextRefused ==
    /\ turn = "idle"
    /\ \/ IsPaused /\ Returned("t_next", "TREE_PAUSED", -2)
       \/ ~ IsPaused /\ exhausted /\ Returned("t_next", "TREE_EXHAUSTED", -1)
    /\ ForestUnchanged /\ UNCHANGED <<orderVars, treeVars>>

TreeNextNulling ==
    /\ turn = "idle" /\ ~ IsPaused /\ ~ exhausted /\ bocage.nulling
    /\ IF parseCount < 1
         THEN /\ parseCount' = parseCount + 1
              /\ parses' = parses \cup {{}}
              /\ Returned("t_next", "NONE", 0)
              /\ UNCHANGED <<turn, nooks, worklist, inUse, exhausted, pauses>>
         ELSE TreeExhaust
    /\ ForestUnchanged /\ UNCHANGED orderVars

\* The first call begins with the top or-node, a later one with the last tree.
TreeNextBegin ==
    /\ turn = "idle" /\ ~ IsPaused /\ ~ exhausted /\ ~ bocage.nulling
    /\ IF parseCount < 1
         THEN /\ turn' = "expand"
              /\ nooks' = <<Nook(bocage.top, 0, FALSE, FALSE)>>
              /\ worklist' = <<1>>
              /\ inUse' = inUse \cup {bocage.top}
         ELSE turn' = "iterate" /\ UNCHANGED <<nooks, worklist, inUse>>
    /\ ForestUnchanged /\ UNCHANGED <<orderVars, exhausted, parseCount, pauses, parses, ret>>

-----------------------------------------------------------------------------
(***************************************************************************)
(* Section 1050: the last nook gets its next and-node, or is taken off.    *)
(***************************************************************************)
TopNook == nooks[Len(nooks)]

\* A mutant of NextChoice: the nook is expanded again as it was.
SameChoice ==
    /\ turn = "iterate" /\ nooks # <<>>
    /\ HasChoice(TopNook.or, TopNook.choice + 1)
    /\ nooks' = [nooks EXCEPT ![Len(nooks)].causeDone = FALSE,
                              ![Len(nooks)].predDone = FALSE]
    /\ worklist' = AllNooks
    /\ turn' = "expand"
    /\ ForestUnchanged
    /\ UNCHANGED <<orderVars, inUse, exhausted, parseCount, pauses, parses, ret>>

NextChoice ==
    /\ turn = "iterate" /\ nooks # <<>>
    /\ HasChoice(TopNook.or, TopNook.choice + 1)
    /\ nooks' = [nooks EXCEPT ![Len(nooks)].choice = @ + 1,
                              ![Len(nooks)].causeDone = FALSE,
                              ![Len(nooks)].predDone = FALSE]
    /\ worklist' = AllNooks
    /\ turn' = "expand"
    /\ ForestUnchanged
    /\ UNCHANGED <<orderVars, inUse, exhausted, parseCount, pauses, parses, ret>>

\* A mutant of Unexpanded: only the parent of a cause is to be expanded again.
UnexpandedByCause(nook) ==
    IF nook.isCause THEN [nooks EXCEPT ![nook.parent].causeDone = FALSE] ELSE nooks
Unexpanded(nook) ==
    IF nook.isCause THEN [nooks EXCEPT ![nook.parent].causeDone = FALSE]
    ELSE IF nook.isPred THEN [nooks EXCEPT ![nook.parent].predDone = FALSE]
    ELSE nooks

Kept(nook) == inUse     \* a mutant of Released
Released(nook) == inUse \ {nook.or}

PopNook ==
    /\ turn = "iterate" /\ nooks # <<>>
    /\ ~ HasChoice(TopNook.or, TopNook.choice + 1)
    /\ nooks' = Front(Unexpanded(TopNook))
    /\ inUse' = Released(TopNook)
    /\ ForestUnchanged
    /\ UNCHANGED <<orderVars, turn, worklist, exhausted, parseCount, pauses, parses, ret>>

NoMoreTrees ==
    /\ turn = "iterate" /\ nooks = <<>>
    /\ TreeExhaust
    /\ ForestUnchanged /\ UNCHANGED orderVars

-----------------------------------------------------------------------------
(***************************************************************************)
(* Section 1054: the nooks of the worklist are expanded, the last first,   *)
(* the cause of an and-node before its predecessor.  An or-node that spans *)
(* some input and is in use already would make a cycle: the tree is given  *)
(* up.  (Each or-node has an and-node, so the first choice is valid.)      *)
(***************************************************************************)
Work == nooks[worklist[Len(worklist)]]
CauseIsDue == ~ Work.causeDone /\ AndOf(Work).cause.type = "or"
PredIsDue == ~ CauseIsDue /\ ~ Work.predDone /\ AndOf(Work).pred # NoOr
Child == IF CauseIsDue THEN AndOf(Work).cause ELSE AndOf(Work).pred

IsCycle(o) == SpanOf(o) > 0 /\ o \in inUse

Expanding == turn = "expand" /\ worklist # <<>>

ExpandCycle ==
    /\ Expanding /\ (CauseIsDue \/ PredIsDue) /\ IsCycle(Child)
    /\ nooks' = [nooks EXCEPT ![worklist[Len(worklist)]].causeDone = @ \/ PredIsDue]
    /\ turn' = "iterate"
    /\ ForestUnchanged
    /\ UNCHANGED <<orderVars, worklist, inUse, exhausted, parseCount, pauses, parses, ret>>

ExpandChild ==
    /\ Expanding /\ (CauseIsDue \/ PredIsDue) /\ ~ IsCycle(Child)
    /\ LET w == worklist[Len(worklist)]
           expanded == [nooks EXCEPT ![w].causeDone = TRUE,
                                     ![w].predDone = @ \/ PredIsDue]
       IN nooks' = Append(expanded, Nook(Child, w, CauseIsDue, PredIsDue))
    /\ worklist' = Append(worklist, Len(nooks) + 1)
    /\ inUse' = IF SpanOf(Child) > 0 THEN inUse \cup {Child} ELSE inUse
    /\ ForestUnchanged
    /\ UNCHANGED <<orderVars, turn, exhausted, parseCount, pauses, parses, ret>>

ExpandDone ==
    /\ Expanding /\ ~ CauseIsDue /\ ~ PredIsDue
    /\ nooks' = [nooks EXCEPT ![worklist[Len(worklist)]].causeDone = TRUE,
                              ![worklist[Len(worklist)]].predDone = TRUE]
    /\ worklist' = Front(worklist)
    /\ ForestUnchanged
    /\ UNCHANGED <<orderVars, turn, inUse, exhausted, parseCount, pauses, parses, ret>>

CurrentTree == {AndOf(nooks[i]) : i \in DOMAIN nooks}

TreeFinished ==
    /\ turn = "expand" /\ worklist = <<>>
    /\ turn' = "idle"
    /\ parseCount' = parseCount + 1
    /\ parses' = parses \cup {CurrentTree}
    /\ Returned("t_next", "NONE", Len(nooks))
    /\ ForestUnchanged
    /\ UNCHANGED <<orderVars, nooks, worklist, inUse, exhausted, pauses>>

-----------------------------------------------------------------------------
(***************************************************************************)
(* A valuator pauses the tree until it is freed.                           *)
(***************************************************************************)
ValueNew ==
    /\ turn = "idle"
    /\ IF parseCount <= 0 THEN pauses' = pauses /\ Returned("v_new", "BEFORE_FIRST_TREE", 0)
       ELSE IF exhausted  THEN pauses' = pauses /\ Returned("v_new", "TREE_EXHAUSTED", 0)
       ELSE pauses < MaxPauses /\ pauses' = pauses + 1 /\ Returned("v_new", "NONE", 1)
    /\ ForestUnchanged
    /\ UNCHANGED <<orderVars, turn, nooks, worklist, inUse, exhausted, parseCount, parses>>

ValueFree ==
    /\ turn = "idle" /\ pauses > 0
    /\ pauses' = pauses - 1
    /\ Returned("v_unref", "NONE", 0)
    /\ ForestUnchanged
    /\ UNCHANGED <<orderVars, turn, nooks, worklist, inUse, exhausted, parseCount, parses>>

-----------------------------------------------------------------------------
TreeInit ==
    /\ BocageInit /\ OrderInit
    /\ turn = "none" /\ nooks = <<>> /\ worklist = <<>> /\ inUse = {}
    /\ exhausted = FALSE /\ parseCount = 0 /\ pauses = 0 /\ parses = {}

TreeNext == TreeNextRefused \/ TreeNextNulling \/ TreeNextBegin

\* The turns of the loops of marpa_t_next.
Turn ==
    \/ NextChoice \/ PopNook \/ NoMoreTrees
    \/ ExpandCycle \/ ExpandChild \/ ExpandDone \/ TreeFinished

\* Once there is an order, the calls on the recognizer and for a new bocage are
\* left out: they change nothing that the order or its tree holds.
AllNext ==
    \/ order = NoOrder /\ BocageNext /\ UNCHANGED <<orderVars, treeVars>>
    \/ OrderNew /\ UNCHANGED treeVars
    \/ turn \in {"none", "idle"} /\ OrderCall /\ UNCHANGED treeVars
    \/ TreeNew
    \/ TreeNext
    \/ Turn
    \/ ValueNew \/ ValueFree

\* A call of marpa_t_next runs to its end, as a call on the recognizer does.
TreeSpec == TreeInit /\ [][AllNext]_allVars /\ WF_allVars(Turn) /\ WF_vars(InternalStep)

-----------------------------------------------------------------------------
(***************************************************************************)
(* Properties.                                                             *)
(***************************************************************************)

\* The types of the iterator.  The worklist holds indexes of nooks.
TreeTypeOK ==
    /\ turn \in {"none", "idle", "iterate", "expand"}
    /\ turn = "expand" => Range(worklist) \subseteq DOMAIN nooks
    /\ \A i \in DOMAIN nooks : nooks[i].parent \in 0 .. (i - 1)
    /\ pauses \in 0 .. MaxPauses /\ metric \in {-1, 1, 2}

\* The bits of the or-nodes in use are those of the nooks that span some input, no
\* two of them the same; otherwise parses would be lost, or cycles taken.
InUseIsExact ==
    turn # "none" =>
        LET spanning == {i \in DOMAIN nooks : SpanOf(nooks[i].or) > 0}
        IN /\ inUse = {nooks[i].or : i \in spanning}
           /\ \A i, j \in spanning : nooks[i].or = nooks[j].or => i = j

\* A tree that a valuator walks stays as it is until the valuator is freed.
PausedTreeIsStill ==
    [][pauses > 0 => UNCHANGED <<order, nooks, parseCount>>]_allVars

\* A call of marpa_t_next returns: the search for a tree without a cycle ends.
TreeCallsReturn == turn \in {"iterate", "expand"} ~> turn = "idle"
=============================================================================
