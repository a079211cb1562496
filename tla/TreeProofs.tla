----------------------------- MODULE TreeProofs -----------------------------
(***************************************************************************)
(* Proofs about the tree iterator, for every grammar, every bocage and     *)
(* every number of valuators: its stack, its pauses, and that it returns   *)
(* every parse tree of the bocage, each once.                              *)
(***************************************************************************)
EXTENDS TreeReference, BocageProofs

-----------------------------------------------------------------------------
(***************************************************************************)
(* The recognizer and the bocage below the tree.                           *)
(***************************************************************************)

\* The top or-node of a bocage spans some input.
TopSpans == bocage # NoBocage /\ ~ bocage.nulling => SpanOf(bocage.top) > 0

ForestInv == TypeInv /\ TopSpans

\* The item that completes the start rule is not a prediction and ends after set 0,
\* so that its or-node spans some input.
LEMMA StartSpans ==
    ASSUME TypeInv, NEW e \in sets \ {0}, NEW start \in CompletedStarts(e)
    PROVE  SpanOf(OrOf(start)) > 0
<1>1. start \in Item /\ start.at = e /\ start.origin = 0 /\ start.ahm[2] # 0
  BY DEF CompletedStarts, IsPredicted, TypeInv, TypeOK
<1>2. OrOf(start).at = e /\ OrOf(start).origin = 0
  BY <1>1 DEF OrOf, OrNode
<1>3. e \in Nat /\ e # 0
  BY DEF TypeInv, TypeOK
<1> QED
  BY <1>2, <1>3 DEF SpanOf

\* A new bocage.
LEMMA ForestNew ==
    ASSUME ForestInv, NEW ordinal \in Ordinals, BocageNew(ordinal)
    PROVE  ForestInv'
<1>1. TypeInv'
  BY TypeUnchanged DEF BocageNew, RecognizerUnchanged, ForestInv
<1>2. SetOf(ordinal) \subseteq sets
  BY DEF SetOf
<1>3. CASE bocage' = NoBocage \/ bocage' = NullingBocage
  BY <1>1, <1>3 DEF ForestInv, TopSpans, NullingBocage
<1>4. CASE \E e \in SetOf(ordinal) \ {0} : \E start \in CompletedStarts(e) :
              bocage' = Forest(start)
  <2>1. PICK e \in SetOf(ordinal) \ {0} : \E start \in CompletedStarts(e) :
              bocage' = Forest(start)
    BY <1>4
  <2>2. PICK start \in CompletedStarts(e) : bocage' = Forest(start)
    BY <2>1
  <2>3. bocage'.top = OrOf(start)
    BY <2>2 DEF Forest
  <2>4. SpanOf(OrOf(start)) > 0
    BY <1>2, StartSpans DEF ForestInv
  <2> QED
    BY <1>1, <2>3, <2>4 DEF ForestInv, TopSpans, SpanOf
<1> QED
  BY <1>3, <1>4 DEF BocageNew

\* Only a new bocage and a step of the recognizer without a bocage change the forest.
LEMMA ForestSteps ==
    ASSUME AllNext
    PROVE  \/ BocageNext /\ order = NoOrder /\ UNCHANGED <<orderVars, treeVars>>
           \/ ForestUnchanged
<1> USE DEF ForestUnchanged
<1>1. CASE OrderNew \/ OrderCall
  BY <1>1 DEF OrderNew, OrderCall, HighRankOnlySet, RankBocage, OrderAmbiguityMetric
<1>2. CASE TreeNew \/ TreeNext
  BY <1>2 DEF TreeNew, TreeNext, TreeNextRefused, TreeNextNulling, TreeNextBegin
<1>3. CASE Turn
  BY <1>3 DEF Turn, NextChoice, PopNook, NoMoreTrees, ExpandCycle, ExpandChild, ExpandDone,
              TreeFinished
<1>4. CASE ValueNew \/ ValueFree
  BY <1>4 DEF ValueNew, ValueFree
<1> QED
  BY <1>1, <1>2, <1>3, <1>4 DEF AllNext

\* Before there is a bocage, ForestInv is that of the recognizer.
LEMMA ForestInit == TreeInit => ForestInv
BY TypeInit DEF TreeInit, BocageInit, ForestInv, TopSpans

\* Each step keeps ForestInv.
LEMMA ForestStep ==
    ASSUME ForestInv, [AllNext]_allVars
    PROVE  ForestInv'
<1>1. CASE UNCHANGED allVars
  <2>1. UNCHANGED vars /\ UNCHANGED bocage
    BY <1>1 DEF allVars, bocageVars
  <2>2. TypeInv'
    BY <2>1, TypeStep DEF ForestInv
  <2> QED
    BY <2>1, <2>2 DEF ForestInv, TopSpans, SpanOf
<1>2. CASE ForestUnchanged
  <2>1. TypeInv'
    BY <1>2, TypeUnchanged DEF ForestInv, ForestUnchanged
  <2> QED
    BY <1>2, <2>1 DEF ForestInv, TopSpans, SpanOf, ForestUnchanged
<1>3. CASE Next /\ UNCHANGED bocage
  <2>1. TypeInv'
    BY <1>3, TypeStep DEF ForestInv
  <2> QED
    BY <1>3, <2>1 DEF ForestInv, TopSpans, SpanOf
<1>4. CASE \E ordinal \in Ordinals : BocageNew(ordinal)
  BY <1>4, ForestNew
<1> QED
  BY <1>1, <1>2, <1>3, <1>4, ForestSteps DEF BocageNext

-----------------------------------------------------------------------------
(***************************************************************************)
(* Pauses.                                                                 *)
(***************************************************************************)

\* A tree exists only with an order, which is frozen from then on; a paused tree is
\* between calls.
PauseInv ==
    /\ turn \in {"none", "idle", "iterate", "expand"}
    /\ pauses \in Nat /\ parseCount \in Nat
    /\ pauses > 0 => turn = "idle"
    /\ turn # "none" => frozen /\ order # NoOrder
    /\ order # NoOrder => bocage # NoBocage

\* Before there is a tree, nothing is paused.
LEMMA PauseInit == TreeInit => PauseInv
BY DEF TreeInit, OrderInit, PauseInv

\* Each step keeps PauseInv: a call on a paused tree, or on a frozen order, is refused.
LEMMA PauseStep ==
    ASSUME PauseInv, [AllNext]_allVars
    PROVE  PauseInv'
<1> USE DEF PauseInv, ForestUnchanged, treeVars, orderVars
<1>1. CASE BocageNext /\ order = NoOrder /\ UNCHANGED <<orderVars, treeVars>>
  BY <1>1
<1>2. CASE OrderNew /\ UNCHANGED treeVars
  BY <1>2 DEF OrderNew
<1>3. CASE OrderCall /\ UNCHANGED treeVars
  BY <1>3 DEF OrderCall, HighRankOnlySet, RankBocage, OrderAmbiguityMetric
<1>4. CASE TreeNew
  BY <1>4 DEF TreeNew
<1>5. CASE TreeNext
  <2>1. CASE TreeNextRefused
    BY <2>1 DEF TreeNextRefused
  <2>2. CASE TreeNextNulling /\ parseCount < 1
    BY <2>2 DEF TreeNextNulling, IsPaused
  <2>3. CASE TreeNextNulling /\ ~ (parseCount < 1)
    BY <2>3 DEF TreeNextNulling, TreeExhaust, IsPaused
  <2>4. CASE TreeNextBegin
    BY <2>4 DEF TreeNextBegin, IsPaused
  <2> QED
    BY <1>5, <2>1, <2>2, <2>3, <2>4 DEF TreeNext
<1>6. CASE Turn
  BY <1>6 DEF Turn, NextChoice, PopNook, NoMoreTrees, TreeExhaust, ExpandCycle, ExpandChild,
              ExpandDone, Expanding, TreeFinished
<1>7. CASE ValueNew \/ ValueFree
  BY <1>7, TreeAssumption DEF ValueNew, ValueFree
<1>8. CASE UNCHANGED allVars
  BY <1>8 DEF allVars, bocageVars
<1> QED
  BY <1>1, <1>2, <1>3, <1>4, <1>5, <1>6, <1>7, <1>8 DEF AllNext

\* A tree that a valuator walks stays as it is until the valuator is freed: no call on
\* the tree, its order or another valuator changes it.
THEOREM PausedStaysStill == TreeSpec => PausedTreeIsStill
<1>1. PauseInv /\ [AllNext]_allVars => [pauses > 0 => UNCHANGED <<order, nooks, parseCount>>]_allVars
  <2> SUFFICES ASSUME PauseInv, AllNext, pauses > 0
               PROVE  UNCHANGED <<order, nooks, parseCount>>
    OBVIOUS
  <2>1. turn = "idle" /\ frozen /\ order # NoOrder
    BY DEF PauseInv
  <2> USE <2>1 DEF treeVars, orderVars
  <2>2. CASE (OrderNew \/ OrderCall) /\ UNCHANGED treeVars
    BY <2>2 DEF OrderNew, OrderCall, HighRankOnlySet, RankBocage, OrderAmbiguityMetric
  <2>3. CASE TreeNew \/ TreeNext
    BY <2>3 DEF TreeNew, TreeNext, TreeNextRefused, TreeNextNulling, TreeNextBegin, IsPaused
  <2>4. CASE Turn
    BY <2>4 DEF Turn, NextChoice, PopNook, NoMoreTrees, ExpandCycle, ExpandChild, ExpandDone,
                Expanding, TreeFinished
  <2>5. CASE ValueNew \/ ValueFree
    BY <2>5 DEF ValueNew, ValueFree
  <2> QED
    BY <2>2, <2>3, <2>4, <2>5 DEF AllNext
<1> QED
  BY <1>1, PauseInit, PauseStep, PTL DEF TreeSpec, PausedTreeIsStill
-----------------------------------------------------------------------------
(***************************************************************************)
(* The nook stack, the worklist and the or-nodes in use.                   *)
(***************************************************************************)
\* The fields of a nook that the arguments below are about.
IsNook(nook) == {"or", "parent"} \subseteq DOMAIN nook
SameNook(nook, other) == IsNook(other) /\ other.or = nook.or /\ other.parent = nook.parent

Spanning(seq) == {i \in DOMAIN seq : SpanOf(seq[i].or) > 0}

\* InUseIsExact, of any stack and any set.
Exact(used, seq) ==
    /\ used = {seq[i].or : i \in Spanning(seq)}
    /\ \A i, j \in Spanning(seq) : seq[i].or = seq[j].or => i = j

\* A parent is below its children, the worklist holds indexes of nooks while nooks are
\* expanded, and before the first tree the stack is empty.
NookInv ==
    /\ \E S : nooks \in Seq(S)
    /\ \A i \in DOMAIN nooks : IsNook(nooks[i]) /\ nooks[i].parent \in 0 .. (i - 1)
    /\ worklist \in Seq(Nat)
    /\ turn = "expand" => \A k \in DOMAIN worklist : worklist[k] \in DOMAIN nooks
    /\ turn = "idle" /\ parseCount < 1 => nooks = <<>>
    /\ turn # "none" => Exact(inUse, nooks)

\* Whatever the nooks' flags and choices become, a stack of the same or-nodes has the
\* same or-nodes in use.
LEMMA ExactOfSame ==
    ASSUME NEW old, NEW other, NEW used, Exact(used, old),
           DOMAIN other = DOMAIN old, \A i \in DOMAIN old : other[i].or = old[i].or
    PROVE  Exact(used, other)
<1>1. Spanning(other) = Spanning(old)
  BY DEF Spanning
<1>2. \A i \in Spanning(old) : other[i].or = old[i].or
  BY DEF Spanning
<1> QED
  BY <1>1, <1>2 DEF Exact

\* A nook is pushed, its or-node in use if it spans some input.
LEMMA ExactOfPush ==
    ASSUME NEW old, NEW pushed, NEW n, NEW used, Exact(used, old),
           DOMAIN pushed = DOMAIN old \cup {n}, n \notin DOMAIN old,
           \A i \in DOMAIN old : pushed[i].or = old[i].or,
           SpanOf(pushed[n].or) > 0 => pushed[n].or \notin used
    PROVE  Exact(IF SpanOf(pushed[n].or) > 0 THEN used \cup {pushed[n].or} ELSE used, pushed)
<1>1. Spanning(pushed) = Spanning(old) \cup (IF SpanOf(pushed[n].or) > 0 THEN {n} ELSE {})
  BY DEF Spanning
<1>2. \A i \in Spanning(old) : pushed[i].or = old[i].or /\ pushed[i].or \in used
  BY DEF Spanning, Exact
<1>3. \A i, j \in Spanning(old) : pushed[i].or = pushed[j].or => i = j
  BY <1>2 DEF Exact
<1>4. used = {pushed[i].or : i \in Spanning(old)}
  BY <1>2 DEF Exact
<1>5. CASE SpanOf(pushed[n].or) > 0
  <2>1. Spanning(pushed) = Spanning(old) \cup {n}
    BY <1>1, <1>5
  <2>2. used \cup {pushed[n].or} = {pushed[i].or : i \in Spanning(pushed)}
    BY <1>4, <2>1
  <2>3. \A i, j \in Spanning(pushed) : pushed[i].or = pushed[j].or => i = j
    BY <1>2, <1>3, <1>5, <2>1
  <2> QED
    BY <1>5, <2>2, <2>3 DEF Exact
<1>6. CASE ~ (SpanOf(pushed[n].or) > 0)
  <2>1. Spanning(pushed) = Spanning(old)
    BY <1>1, <1>6
  <2> QED
    BY <1>3, <1>4, <1>6, <2>1 DEF Exact
<1> QED
  BY <1>5, <1>6

\* A nook is taken off.
LEMMA ExactOfPop ==
    ASSUME NEW old, NEW popped, NEW n, NEW used, Exact(used, old),
           DOMAIN old = DOMAIN popped \cup {n}, n \notin DOMAIN popped,
           \A i \in DOMAIN popped : popped[i].or = old[i].or
    PROVE  Exact(used \ {old[n].or}, popped)
<1>1. Spanning(popped) = Spanning(old) \ {n}
  BY DEF Spanning
<1>2. \A i \in Spanning(popped) : popped[i].or = old[i].or /\ old[i].or # old[n].or
  <2> SUFFICES ASSUME NEW i \in Spanning(popped)
               PROVE  popped[i].or = old[i].or /\ old[i].or # old[n].or
    OBVIOUS
  <2>1. i \in DOMAIN popped /\ i \in Spanning(old) /\ i # n
    BY <1>1 DEF Spanning
  <2>2. old[i].or = old[n].or => n \in Spanning(old)
    BY <2>1 DEF Spanning
  <2> QED
    BY <2>1, <2>2 DEF Exact
<1>3. used = {old[i].or : i \in Spanning(old)}
  BY DEF Exact
<1>4. ASSUME NEW o PROVE o \in used \ {old[n].or} <=> \E i \in Spanning(popped) : o = popped[i].or
  BY <1>1, <1>2, <1>3
<1>5. used \ {old[n].or} = {popped[i].or : i \in Spanning(popped)}
  BY <1>4
<1>6. \A i, j \in Spanning(popped) : popped[i].or = popped[j].or => i = j
  BY <1>1, <1>2 DEF Exact
<1> QED
  BY <1>5, <1>6 DEF Exact

\* The empty stack has no or-node in use.
LEMMA EmptyStack == (\A S : <<>> \in Seq(S)) /\ DOMAIN <<>> = {} /\ Exact({}, <<>>)
<1>1. (\A S : <<>> \in Seq(S)) /\ DOMAIN <<>> = {}
  OBVIOUS
<1> QED
  BY <1>1 DEF Exact, Spanning

\* The stack with the flags or the choice of one of its nooks changed.
LEMMA UpdatedNook ==
    ASSUME NEW S, NEW old \in Seq(S), NEW n \in DOMAIN old, NEW other,
           \A i \in DOMAIN old : IsNook(old[i]),
           other = [i \in DOMAIN old |-> other[i]],
           \A i \in DOMAIN old \ {n} : other[i] = old[i],
           SameNook(old[n], other[n])
    PROVE  /\ other \in Seq(S \cup {other[n]})
           /\ DOMAIN other = DOMAIN old /\ Len(other) = Len(old)
           /\ \A i \in DOMAIN old : SameNook(old[i], other[i])
<1>1. Len(old) \in Nat /\ DOMAIN old = 1 .. Len(old)
  OBVIOUS
<1>2. \A i \in DOMAIN old : old[i] \in S
  OBVIOUS
<1>3. \A i \in DOMAIN old : other[i] \in S \cup {other[n]}
  BY <1>2
<1>4. other \in [1 .. Len(old) -> S \cup {other[n]}]
  BY <1>1, <1>3
<1>5. \A i \in DOMAIN old : SameNook(old[i], other[i])
  BY DEF SameNook
<1> QED
  BY <1>1, <1>4, <1>5

\* Before there is a tree, the stack is empty.
LEMMA NookInit == TreeInit => NookInv
BY EmptyStack DEF TreeInit, NookInv

\* The steps that change a nook and push or pop none.
LEMMA UpdatedStack ==
    ASSUME NookInv, turn # "none",
           NEW n \in DOMAIN nooks,
           nooks' = [i \in DOMAIN nooks |-> nooks'[i]],
           \A i \in DOMAIN nooks \ {n} : nooks'[i] = nooks[i],
           SameNook(nooks[n], nooks'[n]),
           inUse' = inUse
    PROVE  /\ \E S : nooks' \in Seq(S)
           /\ DOMAIN nooks' = DOMAIN nooks /\ Len(nooks') = Len(nooks)
           /\ \A i \in DOMAIN nooks' : IsNook(nooks'[i]) /\ nooks'[i].parent \in 0 .. (i - 1)
           /\ Exact(inUse', nooks')
<1>1. PICK S : nooks \in Seq(S)
  BY DEF NookInv
<1>2. \A i \in DOMAIN nooks : IsNook(nooks[i]) /\ nooks[i].parent \in 0 .. (i - 1)
  BY DEF NookInv
<1>3. /\ nooks' \in Seq(S \cup {nooks'[n]})
      /\ DOMAIN nooks' = DOMAIN nooks /\ Len(nooks') = Len(nooks)
      /\ \A i \in DOMAIN nooks : SameNook(nooks[i], nooks'[i])
  BY <1>1, <1>2, UpdatedNook
<1>4. Exact(inUse', nooks')
  BY <1>3, ExactOfSame DEF NookInv, SameNook
<1>5. \A i \in DOMAIN nooks' : IsNook(nooks'[i]) /\ nooks'[i].parent \in 0 .. (i - 1)
  BY <1>2, <1>3 DEF SameNook
<1>6. \E T : nooks' \in Seq(T)
  BY <1>3
<1> QED
  BY <1>3, <1>4, <1>5, <1>6

\* The next choice of the last nook keeps NookInv.
LEMMA NextChoiceNooks ==
    ASSUME NookInv, NextChoice
    PROVE  NookInv'
<1> DEFINE n == Len(nooks)
<1>1. n \in Nat /\ DOMAIN nooks = 1 .. n /\ n \in DOMAIN nooks
  BY DEF NookInv, NextChoice
<1>2. /\ nooks' = [i \in DOMAIN nooks |-> nooks'[i]]
      /\ \A i \in DOMAIN nooks \ {n} : nooks'[i] = nooks[i]
      /\ nooks'[n] = [nooks[n] EXCEPT !.choice = nooks[n].choice + 1,
                                      !.causeDone = FALSE, !.predDone = FALSE]
  BY <1>1 DEF NextChoice
<1>3. SameNook(nooks[n], nooks'[n])
  <2>1. IsNook(nooks[n])
    BY <1>1 DEF NookInv
  <2>2. SameNook(nooks[n], [nooks[n] EXCEPT !.choice = nooks[n].choice + 1,
                                      !.causeDone = FALSE, !.predDone = FALSE])
    BY <2>1 DEF IsNook, SameNook
  <2> QED
    BY <1>2, <2>2
<1>4. turn # "none" /\ inUse' = inUse
  BY DEF NextChoice
<1> HIDE DEF n
<1>5. /\ \E S : nooks' \in Seq(S)
      /\ DOMAIN nooks' = DOMAIN nooks
      /\ \A i \in DOMAIN nooks' : IsNook(nooks'[i]) /\ nooks'[i].parent \in 0 .. (i - 1)
      /\ Exact(inUse', nooks')
  BY <1>1, <1>2, <1>3, <1>4, UpdatedStack
<1>6. worklist' \in Seq(Nat) /\ \A k \in DOMAIN worklist' : worklist'[k] \in DOMAIN nooks'
  <2>1. worklist' = [i \in 1 .. n |-> i]
    BY <1>1 DEF NextChoice, AllNooks
  <2>2. worklist' \in [1 .. n -> Nat]
    BY <2>1
  <2> QED
    BY <1>1, <1>5, <2>1, <2>2
<1> QED
  BY <1>5, <1>6 DEF NookInv, NextChoice

\* Marking a parent as unexpanded keeps all or-nodes and parents.
LEMMA UnexpandedNooks ==
    ASSUME NookInv, NEW nook
    PROVE  /\ \E S : Unexpanded(nook) \in Seq(S)
           /\ Len(Unexpanded(nook)) = Len(nooks)
           /\ \A i \in DOMAIN nooks : SameNook(nooks[i], Unexpanded(nook)[i])
<1>1. PICK S : nooks \in Seq(S)
  BY DEF NookInv
<1>2. \A i \in DOMAIN nooks : IsNook(nooks[i])
  BY DEF NookInv
<1>3. CASE nook.isCause /\ nook.parent \in DOMAIN nooks
  <2>1. PICK p \in DOMAIN nooks : p = nook.parent
    BY <1>3
  <2>2. PICK other : other = [nooks EXCEPT ![p].causeDone = FALSE]
    OBVIOUS
  <2>3. /\ other = [i \in DOMAIN nooks |-> other[i]]
        /\ \A i \in DOMAIN nooks \ {p} : other[i] = nooks[i]
        /\ other[p] = [nooks[p] EXCEPT !.causeDone = FALSE]
    BY <2>2
  <2>4. SameNook(nooks[p], [nooks[p] EXCEPT !.causeDone = FALSE])
    BY <1>2 DEF IsNook, SameNook
  <2>5. SameNook(nooks[p], other[p])
    BY <2>3, <2>4
  <2>6. /\ other \in Seq(S \cup {other[p]}) /\ Len(other) = Len(nooks)
        /\ \A i \in DOMAIN nooks : SameNook(nooks[i], other[i])
    BY <1>1, <1>2, <2>3, <2>5, UpdatedNook
  <2>7. Unexpanded(nook) = other
    BY <1>3, <2>1, <2>2 DEF Unexpanded
  <2> QED
    BY <2>6, <2>7
<1>4. CASE ~ nook.isCause /\ nook.isPred /\ nook.parent \in DOMAIN nooks
  <2>1. PICK p \in DOMAIN nooks : p = nook.parent
    BY <1>4
  <2>2. PICK other : other = [nooks EXCEPT ![p].predDone = FALSE]
    OBVIOUS
  <2>3. /\ other = [i \in DOMAIN nooks |-> other[i]]
        /\ \A i \in DOMAIN nooks \ {p} : other[i] = nooks[i]
        /\ other[p] = [nooks[p] EXCEPT !.predDone = FALSE]
    BY <2>2
  <2>4. SameNook(nooks[p], [nooks[p] EXCEPT !.predDone = FALSE])
    BY <1>2 DEF IsNook, SameNook
  <2>5. SameNook(nooks[p], other[p])
    BY <2>3, <2>4
  <2>6. /\ other \in Seq(S \cup {other[p]}) /\ Len(other) = Len(nooks)
        /\ \A i \in DOMAIN nooks : SameNook(nooks[i], other[i])
    BY <1>1, <1>2, <2>3, <2>5, UpdatedNook
  <2>7. Unexpanded(nook) = other
    BY <1>4, <2>1, <2>2 DEF Unexpanded
  <2> QED
    BY <2>6, <2>7
<1>5. CASE (~ nook.isCause /\ ~ nook.isPred) \/ nook.parent \notin DOMAIN nooks
  <2>1. Unexpanded(nook) = nooks
    BY <1>1, <1>5 DEF Unexpanded
  <2> QED
    BY <1>1, <1>2, <2>1 DEF SameNook
<1> QED
  BY <1>3, <1>4, <1>5

\* Taking the last nook off keeps NookInv: it releases its or-node and no other.
LEMMA PopNookNooks ==
    ASSUME NookInv, PopNook
    PROVE  NookInv'
<1> DEFINE before == Unexpanded(TopNook)
           n == Len(nooks)
<1>1. n \in Nat /\ DOMAIN nooks = 1 .. n /\ n \in DOMAIN nooks
  BY DEF NookInv, PopNook
<1>2. PICK S : before \in Seq(S)
  BY UnexpandedNooks
<1>3. Len(before) = n /\ \A i \in DOMAIN nooks : SameNook(nooks[i], before[i])
  BY UnexpandedNooks
<1>4. nooks' = Front(before)
  BY DEF PopNook
<1>5. inUse' = inUse \ {nooks[n].or} /\ Exact(inUse, nooks)
  BY DEF PopNook, Released, TopNook, NookInv
<1> HIDE DEF before, n
<1>6. /\ nooks' \in Seq(S) /\ DOMAIN nooks' = 1 .. (n - 1)
      /\ \A i \in DOMAIN nooks' : nooks'[i] = before[i]
  BY <1>1, <1>2, <1>3, <1>4 DEF Front
<1>7. DOMAIN nooks = DOMAIN nooks' \cup {n} /\ n \notin DOMAIN nooks'
  BY <1>1, <1>6
<1>8. \A i \in DOMAIN nooks' : SameNook(nooks[i], nooks'[i])
  BY <1>3, <1>6, <1>7
<1>9. Exact(inUse', nooks')
  BY <1>5, <1>7, <1>8, ExactOfPop DEF SameNook
<1>10. \A i \in DOMAIN nooks' : IsNook(nooks'[i]) /\ nooks'[i].parent \in 0 .. (i - 1)
  BY <1>7, <1>8 DEF NookInv, SameNook
<1> QED
  BY <1>6, <1>9, <1>10 DEF NookInv, PopNook

\* The nook that is being expanded.
LEMMA WorkNook ==
    ASSUME NookInv, Expanding
    PROVE  /\ worklist[Len(worklist)] \in DOMAIN nooks
           /\ \E S : nooks \in Seq(S)
           /\ Len(nooks) \in Nat /\ DOMAIN nooks = 1 .. Len(nooks)
           /\ \A i \in DOMAIN nooks : IsNook(nooks[i])
           /\ Front(worklist) \in Seq(Nat)
           /\ \A k \in DOMAIN Front(worklist) : Front(worklist)[k] \in DOMAIN nooks
<1>1. worklist \in Seq(Nat) /\ worklist # <<>> /\ \A k \in DOMAIN worklist : worklist[k] \in DOMAIN nooks
  BY DEF NookInv, Expanding
<1>2. Len(worklist) \in DOMAIN worklist
  BY <1>1
<1>3. /\ Front(worklist) \in Seq(Nat)
      /\ \A k \in DOMAIN Front(worklist) : k \in DOMAIN worklist /\ Front(worklist)[k] = worklist[k]
  BY <1>1 DEF Front
<1> QED
  BY <1>1, <1>2, <1>3 DEF NookInv

\* Giving up a tree that goes round keeps NookInv.
LEMMA ExpandCycleNooks ==
    ASSUME NookInv, ExpandCycle
    PROVE  NookInv'
<1>1. PICK w \in DOMAIN nooks : w = worklist[Len(worklist)]
  BY WorkNook DEF ExpandCycle
<1>2. /\ nooks' = [i \in DOMAIN nooks |-> nooks'[i]]
      /\ \A i \in DOMAIN nooks \ {w} : nooks'[i] = nooks[i]
      /\ nooks'[w] = [nooks[w] EXCEPT !.causeDone = nooks[w].causeDone \/ PredIsDue]
  BY <1>1 DEF ExpandCycle
<1>3. SameNook(nooks[w], [nooks[w] EXCEPT !.causeDone = nooks[w].causeDone \/ PredIsDue])
  <2>1. IsNook(nooks[w])
    BY DEF NookInv
  <2> QED
    BY <2>1 DEF IsNook, SameNook
<1>4. SameNook(nooks[w], nooks'[w])
  BY <1>2, <1>3
<1>5. turn # "none" /\ inUse' = inUse /\ worklist' = worklist /\ turn' = "iterate"
  BY DEF ExpandCycle, Expanding
<1>6. /\ \E S : nooks' \in Seq(S)
      /\ DOMAIN nooks' = DOMAIN nooks
      /\ \A i \in DOMAIN nooks' : IsNook(nooks'[i]) /\ nooks'[i].parent \in 0 .. (i - 1)
      /\ Exact(inUse', nooks')
  BY <1>2, <1>4, <1>5, UpdatedStack
<1> QED
  BY <1>5, <1>6 DEF NookInv

\* Taking an expanded nook off the worklist keeps NookInv.
LEMMA ExpandDoneNooks ==
    ASSUME NookInv, ExpandDone
    PROVE  NookInv'
<1>1. PICK w \in DOMAIN nooks : w = worklist[Len(worklist)]
  BY WorkNook DEF ExpandDone
<1>2. /\ nooks' = [i \in DOMAIN nooks |-> nooks'[i]]
      /\ \A i \in DOMAIN nooks \ {w} : nooks'[i] = nooks[i]
      /\ nooks'[w] = [nooks[w] EXCEPT !.causeDone = TRUE, !.predDone = TRUE]
  BY <1>1 DEF ExpandDone
<1>3. SameNook(nooks[w], [nooks[w] EXCEPT !.causeDone = TRUE, !.predDone = TRUE])
  <2>1. IsNook(nooks[w])
    BY DEF NookInv
  <2> QED
    BY <2>1 DEF IsNook, SameNook
<1>4. SameNook(nooks[w], nooks'[w])
  BY <1>2, <1>3
<1>5. turn = "expand" /\ turn' = turn /\ inUse' = inUse /\ worklist' = Front(worklist)
  BY DEF ExpandDone, Expanding
<1>6. /\ \E S : nooks' \in Seq(S)
      /\ DOMAIN nooks' = DOMAIN nooks
      /\ \A i \in DOMAIN nooks' : IsNook(nooks'[i]) /\ nooks'[i].parent \in 0 .. (i - 1)
      /\ Exact(inUse', nooks')
  BY <1>2, <1>4, <1>5, UpdatedStack
<1>7. worklist' \in Seq(Nat) /\ \A k \in DOMAIN worklist' : worklist'[k] \in DOMAIN nooks
  BY <1>5, WorkNook DEF ExpandDone
<1> QED
  BY <1>5, <1>6, <1>7 DEF NookInv

\* A push keeps NookInv: the nook is the only one of an or-node that spans some input.
LEMMA ExpandChildNooks ==
    ASSUME NookInv, ExpandChild
    PROVE  NookInv'
<1>1. PICK w \in DOMAIN nooks : w = worklist[Len(worklist)]
  BY WorkNook DEF ExpandChild
<1>2. PICK expanded : expanded = [nooks EXCEPT ![w].causeDone = TRUE,
                                               ![w].predDone = nooks[w].predDone \/ PredIsDue]
  OBVIOUS
<1>3. PICK child : child = Nook(Child, w, CauseIsDue, PredIsDue)
  OBVIOUS
<1>4. nooks' = Append(expanded, child) /\ worklist' = Append(worklist, Len(nooks) + 1)
  BY <1>1, <1>2, <1>3 DEF ExpandChild
<1>5. PICK S : nooks \in Seq(S)
  BY DEF NookInv
<1>6. \A i \in DOMAIN nooks : IsNook(nooks[i]) /\ nooks[i].parent \in 0 .. (i - 1)
  BY DEF NookInv
<1>7. /\ expanded = [i \in DOMAIN nooks |-> expanded[i]]
      /\ \A i \in DOMAIN nooks \ {w} : expanded[i] = nooks[i]
      /\ expanded[w] = [nooks[w] EXCEPT !.causeDone = TRUE,
                                        !.predDone = nooks[w].predDone \/ PredIsDue]
  BY <1>2
<1>8. SameNook(nooks[w], [nooks[w] EXCEPT !.causeDone = TRUE,
                                          !.predDone = nooks[w].predDone \/ PredIsDue])
  BY <1>6 DEF IsNook, SameNook
<1>9. SameNook(nooks[w], expanded[w])
  BY <1>7, <1>8
<1>10. /\ expanded \in Seq(S \cup {expanded[w]})
       /\ DOMAIN expanded = DOMAIN nooks /\ Len(expanded) = Len(nooks)
       /\ \A i \in DOMAIN nooks : SameNook(nooks[i], expanded[i])
  BY <1>5, <1>6, <1>7, <1>9, UpdatedNook
<1>11. IsNook(child) /\ child.or = Child /\ child.parent = w
  BY <1>3 DEF Nook, IsNook
<1>12. Exact(inUse, expanded)
  BY <1>10, ExactOfSame DEF NookInv, SameNook, ExpandChild, Expanding
<1> DEFINE n == Len(nooks) + 1
<1>13. n \in Nat /\ n - 1 \in Nat /\ DOMAIN nooks = 1 .. (n - 1)
  BY <1>5
<1>14. /\ nooks' \in Seq(S \cup {expanded[w]} \cup {child})
       /\ DOMAIN nooks' = DOMAIN expanded \cup {n} /\ n \notin DOMAIN expanded
       /\ nooks'[n] = child /\ \A i \in DOMAIN expanded : nooks'[i] = expanded[i]
  BY <1>4, <1>10, <1>13
<1>15. worklist' \in Seq(Nat) /\ \A k \in DOMAIN worklist' : worklist'[k] \in DOMAIN nooks \cup {n}
  <2>1. worklist \in Seq(Nat) /\ \A k \in DOMAIN worklist : worklist[k] \in DOMAIN nooks
    BY DEF NookInv, ExpandChild, Expanding
  <2> QED
    BY <1>4, <1>13, <2>1
<1> HIDE DEF n
<1>16. /\ inUse' = IF SpanOf(child.or) > 0 THEN inUse \cup {child.or} ELSE inUse
       /\ SpanOf(child.or) > 0 => child.or \notin inUse
  BY <1>11 DEF ExpandChild, IsCycle
<1>17. Exact(inUse', nooks')
  BY <1>12, <1>14, <1>16, ExactOfPush
<1>18. \A i \in DOMAIN nooks' : IsNook(nooks'[i]) /\ nooks'[i].parent \in 0 .. (i - 1)
  <2>1. ASSUME NEW i \in DOMAIN nooks
        PROVE  IsNook(nooks'[i]) /\ nooks'[i].parent \in 0 .. (i - 1)
    BY <1>6, <1>10, <1>14, <2>1 DEF SameNook
  <2>2. IsNook(nooks'[n]) /\ nooks'[n].parent \in 0 .. (n - 1)
    BY <1>11, <1>13, <1>14
  <2> QED
    BY <1>10, <1>14, <2>1, <2>2
<1>19. turn' = "expand"
  BY DEF ExpandChild, Expanding
<1> QED
  BY <1>10, <1>14, <1>15, <1>17, <1>18, <1>19 DEF NookInv

\* The first call keeps NookInv: it pushes the top or-node onto an empty stack.
LEMMA TreeNextBeginNooks ==
    ASSUME ForestInv, PauseInv, NookInv, TreeNextBegin
    PROVE  NookInv'
<1>1. CASE parseCount < 1
  <2>1. nooks = <<>> /\ Exact(inUse, nooks)
    BY <1>1 DEF NookInv, TreeNextBegin
  <2>2. bocage # NoBocage /\ ~ bocage.nulling
    BY DEF PauseInv, TreeNextBegin
  <2>3. SpanOf(bocage.top) > 0
    BY <2>2 DEF ForestInv, TopSpans
  <2>4. PICK top : top = Nook(bocage.top, 0, FALSE, FALSE)
    OBVIOUS
  <2>5. IsNook(top) /\ top.or = bocage.top /\ top.parent = 0
    BY <2>4 DEF Nook, IsNook
  <2>6. nooks' = <<top>> /\ worklist' = <<1>> /\ inUse' = inUse \cup {top.or} /\ turn' = "expand"
    BY <1>1, <2>4, <2>5 DEF TreeNextBegin
  <2>7. /\ nooks' \in Seq({top}) /\ DOMAIN nooks' = {1} /\ nooks'[1] = top
        /\ worklist' \in Seq(Nat) /\ DOMAIN worklist' = {1} /\ worklist'[1] = 1
    BY <2>6
  <2>8. DOMAIN nooks = {}
    BY <2>1
  <2>9. inUse = {}
    BY <2>1, <2>8 DEF Exact, Spanning
  <2>10. Exact(inUse', nooks')
    <3>1. Spanning(nooks') = {1}
      BY <2>3, <2>5, <2>7 DEF Spanning
    <3>2. inUse' = {nooks'[i].or : i \in {1}}
      BY <2>5, <2>6, <2>7, <2>9
    <3> QED
      BY <3>1, <3>2 DEF Exact
  <2>11. \A i \in DOMAIN nooks' : IsNook(nooks'[i]) /\ nooks'[i].parent \in 0 .. (i - 1)
    BY <2>5, <2>7
  <2>12. \A k \in DOMAIN worklist' : worklist'[k] \in DOMAIN nooks'
    BY <2>7
  <2> QED
    BY <2>6, <2>7, <2>10, <2>11, <2>12 DEF NookInv
<1>2. CASE ~ (parseCount < 1)
  BY <1>2 DEF TreeNextBegin, NookInv
<1> QED
  BY <1>1, <1>2

\* Each step keeps NookInv.
LEMMA NookStep ==
    ASSUME ForestInv, PauseInv, NookInv, [AllNext]_allVars
    PROVE  NookInv'
<1>1. CASE UNCHANGED treeVars
  BY <1>1 DEF treeVars, NookInv
<1>2. CASE TreeNew \/ TreeExhaust
  <2>1. nooks' = <<>> /\ worklist' = <<>> /\ inUse' = {}
    BY <1>2 DEF TreeNew, TreeExhaust
  <2>2. /\ \A S : nooks' \in Seq(S) /\ worklist' \in Seq(S)
        /\ DOMAIN nooks' = {} /\ DOMAIN worklist' = {} /\ Exact(inUse', nooks')
    BY <2>1, EmptyStack
  <2> QED
    BY <2>1, <2>2 DEF NookInv
<1>3. CASE TreeNext
  <2>1. CASE TreeNextRefused
    BY <1>1, <2>1 DEF TreeNextRefused
  <2>2. CASE TreeNextNulling
    <3>1. CASE parseCount < 1
      BY <2>2, <3>1 DEF TreeNextNulling, NookInv, PauseInv
    <3>2. CASE ~ (parseCount < 1)
      BY <1>2, <2>2, <3>2 DEF TreeNextNulling
    <3> QED
      BY <3>1, <3>2
  <2> QED
    BY <1>3, <2>1, <2>2, TreeNextBeginNooks DEF TreeNext
<1>4. CASE Turn
  <2>1. CASE TreeFinished
    BY <2>1 DEF TreeFinished, NookInv, PauseInv
  <2> QED
    BY <1>2, <1>4, <2>1, NextChoiceNooks, PopNookNooks, ExpandCycleNooks, ExpandChildNooks,
       ExpandDoneNooks DEF Turn, NoMoreTrees
<1>5. CASE ValueNew \/ ValueFree
  BY <1>5 DEF ValueNew, ValueFree, NookInv
<1> QED
  BY <1>1, <1>2, <1>3, <1>4, <1>5 DEF AllNext, allVars

\* The or-nodes in use are those of the nooks that span some input, no two of them the
\* same, whatever the bocage, the order and the ranks.
THEOREM InUseCorrect == TreeSpec => []InUseIsExact
<1>1. NookInv => InUseIsExact
  BY DEF NookInv, InUseIsExact, Exact, Spanning
<1> QED
  BY <1>1, ForestInit, PauseInit, NookInit, ForestStep, PauseStep, NookStep, PTL DEF TreeSpec

-----------------------------------------------------------------------------
\* The types that the steps on the stack do not touch.
BoundInv == pauses \in 0 .. MaxPauses /\ metric \in {-1, 1, 2}

\* There are no pauses at first and the metric is not known.
LEMMA BoundInit == TreeInit => BoundInv
BY TreeAssumption DEF TreeInit, OrderInit, BoundInv

\* Each step keeps BoundInv.
LEMMA BoundStep ==
    ASSUME BoundInv, [AllNext]_allVars
    PROVE  BoundInv'
<1> USE DEF BoundInv, treeVars, orderVars
<1>1. CASE BocageNext /\ order = NoOrder /\ UNCHANGED <<orderVars, treeVars>>
  BY <1>1
<1>2. CASE OrderNew /\ UNCHANGED treeVars
  BY <1>2 DEF OrderNew
<1>3. CASE OrderCall /\ UNCHANGED treeVars
  BY <1>3 DEF OrderCall, HighRankOnlySet, RankBocage, OrderAmbiguityMetric, MetricOf,
              AmbiguityMetric
<1>4. CASE TreeNew
  BY <1>4, TreeAssumption DEF TreeNew
<1>5. CASE TreeNext
  BY <1>5 DEF TreeNext, TreeNextRefused, TreeNextNulling, TreeExhaust, TreeNextBegin
<1>6. CASE Turn
  BY <1>6 DEF Turn, NextChoice, PopNook, NoMoreTrees, TreeExhaust, ExpandCycle, ExpandChild,
              ExpandDone, TreeFinished
<1>7. CASE ValueNew \/ ValueFree
  BY <1>7, TreeAssumption DEF ValueNew, ValueFree
<1>8. CASE UNCHANGED allVars
  BY <1>8 DEF allVars
<1> QED
  BY <1>1, <1>2, <1>3, <1>4, <1>5, <1>6, <1>7, <1>8 DEF AllNext

\* The types of the iterator: its worklist holds indexes of nooks, and a nook's parent is
\* below it.
THEOREM TreeTypeCorrect == TreeSpec => []TreeTypeOK
<1>1. PauseInv /\ NookInv /\ BoundInv => TreeTypeOK
  <2> SUFFICES ASSUME PauseInv, NookInv, BoundInv
               PROVE  TreeTypeOK
    OBVIOUS
  <2>1. turn = "expand" => Range(worklist) \subseteq DOMAIN nooks
    BY DEF NookInv, Range
  <2> QED
    BY <2>1 DEF PauseInv, NookInv, BoundInv, TreeTypeOK
<1> QED
  BY <1>1, ForestInit, PauseInit, NookInit, BoundInit, ForestStep, PauseStep, NookStep,
     BoundStep, PTL DEF TreeSpec

-----------------------------------------------------------------------------
(***************************************************************************)
(* The forest that the iterator walks: an order of a bocage.  SetsOfTrees  *)
(* are sets of and-nodes; the or-nodes that an and-node leads to are below *)
(* it.                                                                     *)
(***************************************************************************)
\* The and-nodes that the order has, the or-nodes below one, those that T divides.
Ordered == UNION {Range(order[o]) : o \in bocage.ors}
Below(a) == {a.pred, a.cause} \cap bocage.ors
Owners(T) == {a.parent : a \in T}

\* An and-node divides its or-node: what is below spans a part of it, the predecessor
\* before the cause; below an or-node that spans nothing is one with fewer nulling symbols.
Divides(o, a) ==
    /\ a.parent = o
    /\ a.cause.type = "or" <=> a.cause \in bocage.ors
    /\ a.pred \in bocage.ors \cup {NoOr}
    /\ \A c \in Below(a) : o.origin <= c.origin /\ c.at <= o.at
    /\ Below(a) = {a.pred, a.cause} => a.pred.at <= a.cause.origin
    /\ SpanOf(o) = 0 => a.cause \notin bocage.ors /\ \A c \in Below(a) : c.nulls < o.nulls

ForestIsSound ==
    /\ IsFiniteSet(bocage.ors) /\ NoOr \notin bocage.ors /\ bocage.top \in bocage.ors
    /\ DOMAIN order = bocage.ors
    /\ \A o \in bocage.ors :
          /\ o.origin \in Nat /\ o.at \in Nat /\ o.nulls \in Nat /\ o.origin <= o.at
          /\ Len(order[o]) \in Nat \ {0} /\ DOMAIN order[o] = 1 .. Len(order[o])
          /\ IsInjective(order[o])
          /\ \A k \in DOMAIN order[o] : Divides(o, order[o][k])
          /\ SpanOf(o) = 0 => Len(order[o]) = 1

\* What each and-node of the order is.
LEMMA OrderedAnds ==
    ASSUME ForestIsSound, NEW a \in Ordered
    PROVE  /\ a.parent \in bocage.ors /\ Divides(a.parent, a) /\ a \in Range(order[a.parent])
           /\ Below(a) \subseteq bocage.ors
           /\ \A b \in Ordered : b.parent = a.parent /\ SpanOf(a.parent) = 0 => b = a
<1>1. ASSUME NEW b \in Ordered
      PROVE  b.parent \in bocage.ors /\ Divides(b.parent, b)
             /\ \E k \in DOMAIN order[b.parent] : b = order[b.parent][k]
  <2>1. PICK o \in bocage.ors : b \in Range(order[o])
    BY DEF Ordered
  <2>2. PICK k \in DOMAIN order[o] : b = order[o][k]
    BY <2>1 DEF Range
  <2>3. Divides(o, b)
    BY <2>2 DEF ForestIsSound
  <2> QED BY <2>2, <2>3 DEF Divides
<1>2. ASSUME NEW b \in Ordered, b.parent = a.parent, SpanOf(a.parent) = 0 PROVE b = a
  <2>1. Len(order[a.parent]) = 1 /\ DOMAIN order[a.parent] = 1 .. 1
    BY <1>1, <1>2 DEF ForestIsSound
  <2> QED BY <1>1, <1>2, <2>1
<1> QED BY <1>1, <1>2 DEF Below, Range

-----------------------------------------------------------------------------
(***************************************************************************)
(* The trees of an or-node by what they are, without recursion: T divides  *)
(* o and everything below, each or-node in one way, nothing else, and      *)
(* without a cycle.                                                        *)
(***************************************************************************)
Closed(S, T) == \A a \in T : a.parent \in S => Below(a) \subseteq S

IsTree(T, o, above) ==
    /\ T \subseteq Ordered
    /\ \A a, b \in T : a.parent = b.parent => a = b
    /\ o \in Owners(T) /\ Closed(Owners(T), T)
    /\ \A S \in SUBSET Owners(T) : o \in S /\ Closed(S, T) => S = Owners(T)
    /\ Owners(T) \cap above = {}
    /\ \A S \in SUBSET Owners(T) : S # {} => \E a \in T : a.parent \in S /\ Below(a) \cap S = {}
    /\ \A a, b \in T : \A x \in Below(a) \cap Below(b) : SpanOf(x) > 0 => a = b

\* The or-nodes of T from x downwards.
Down(T, x) == {y \in Owners(T) : \A S \in SUBSET Owners(T) : x \in S /\ Closed(S, T) => y \in S}
Part(T, x) == {a \in T : a.parent \in Down(T, x)}

\* They are the least that hold x and what is below.
LEMMA DownIsLeast ==
    ASSUME NEW T, NEW x \in Owners(T), Closed(Owners(T), T)
    PROVE  /\ x \in Down(T, x) /\ Closed(Down(T, x), T) /\ Down(T, x) \subseteq Owners(T)
           /\ \A S \in SUBSET Owners(T) : x \in S /\ Closed(S, T) => Down(T, x) \subseteq S
           /\ Owners(Part(T, x)) = Down(T, x)
<1>1. x \in Down(T, x) /\ Down(T, x) \subseteq Owners(T)
  BY DEF Down
<1>2. \A S \in SUBSET Owners(T) : x \in S /\ Closed(S, T) => Down(T, x) \subseteq S
  BY DEF Down
<1>3. ASSUME NEW a \in T, a.parent \in Down(T, x), NEW c \in Below(a) PROVE c \in Down(T, x)
  <2>1. a.parent \in Owners(T) /\ c \in Owners(T)
    BY DEF Owners, Closed
  <2>2. ASSUME NEW S \in SUBSET Owners(T), x \in S, Closed(S, T) PROVE c \in S
    <3>1. a.parent \in S
      BY <1>3, <2>2 DEF Down
    <3> QED BY <2>2, <3>1 DEF Closed
  <2> QED BY <2>1, <2>2 DEF Down
<1>4. Owners(Part(T, x)) = Down(T, x)
  BY <1>1 DEF Part, Owners
<1> QED BY <1>1, <1>2, <1>3, <1>4 DEF Closed

\* Going down from y one goes down from what is below y.
LEMMA DownFromBelow ==
    ASSUME NEW T, Closed(Owners(T), T), \A a, b \in T : a.parent = b.parent => a = b,
           NEW a \in T, NEW z \in Down(T, a.parent), z # a.parent
    PROVE  \E c \in Below(a) : c \in Owners(T) /\ z \in Down(T, c)
<1> DEFINE S == {a.parent} \cup UNION {Down(T, c) : c \in Below(a)}
<1>1. a.parent \in Owners(T) /\ Below(a) \subseteq Owners(T)
  BY DEF Owners, Closed
<1>2. S \subseteq Owners(T)
  BY <1>1 DEF Down
<1>3. ASSUME NEW b \in T, b.parent \in S PROVE Below(b) \subseteq S
  <2>1. CASE b.parent = a.parent
    <3>1. b = a
      BY <2>1
    <3> QED BY <1>1, <3>1, DownIsLeast
  <2>2. CASE \E c \in Below(a) : b.parent \in Down(T, c)
    BY <1>1, <2>2, DownIsLeast DEF Closed
  <2> QED BY <1>3, <2>1, <2>2
<1>4. Closed(S, T)
  BY <1>3 DEF Closed
<1>5. z \in S
  BY <1>1, <1>2, <1>4, DownIsLeast
<1> QED BY <1>1, <1>5

\* Nothing leads back to the root.
LEMMA RootIsBelowNone ==
    ASSUME NEW T, NEW o, NEW above, IsTree(T, o, above), NEW b \in T
    PROVE  o \notin Below(b)
<1> SUFFICES ASSUME o \in Below(b) PROVE FALSE
  OBVIOUS
<1> DEFINE C == {y \in Owners(T) : b.parent \in Down(T, y)}
<1>1. b.parent \in Owners(T) /\ Closed(Owners(T), T) /\ o \in Owners(T)
  BY DEF Owners, IsTree
<1>2. b.parent \in C
  BY <1>1, DownIsLeast
<1>3. Down(T, o) = Owners(T)
  BY <1>1, DownIsLeast DEF IsTree
<1>4. o \in C
  BY <1>1, <1>3
<1>5. PICK d \in T : d.parent \in C /\ Below(d) \cap C = {}
  BY <1>2 DEF IsTree
<1>6. CASE d.parent = b.parent
  <2>1. d = b
    BY <1>6 DEF IsTree
  <2> QED BY <1>4, <1>5, <2>1
<1>7. CASE d.parent # b.parent
  <2>1. b.parent \in Down(T, d.parent)
    BY <1>5
  <2>2. \A e, f \in T : e.parent = f.parent => e = f
    BY DEF IsTree
  <2>3. PICK c \in Below(d) : c \in Owners(T) /\ b.parent \in Down(T, c)
    BY <1>1, <1>7, <2>1, <2>2, DownFromBelow
  <2> QED BY <1>5, <2>3
<1> QED BY <1>6, <1>7

\* What is below the root of a tree has a tree, which does not come back to the root.
LEMMA PartIsTree ==
    ASSUME NEW T, NEW o, NEW above, IsTree(T, o, above),
           NEW a \in T, a.parent = o, NEW x \in Below(a)
    PROVE  IsTree(Part(T, x), x, above \cup {o})
<1> DEFINE P == Part(T, x)
<1>1. x \in Owners(T) /\ Closed(Owners(T), T) /\ P \subseteq T
  BY DEF Owners, Closed, IsTree, Part
<1>2. /\ x \in Owners(P) /\ Closed(Owners(P), T) /\ Owners(P) \subseteq Owners(T)
      /\ \A S \in SUBSET Owners(T) : x \in S /\ Closed(S, T) => Owners(P) \subseteq S
      /\ \A b \in T : b.parent \in Owners(P) => b \in P
  BY <1>1, DownIsLeast DEF Part
<1>3. o \notin Owners(P)
  <2>1. x # o /\ \A b \in T : o \notin Below(b)
    BY RootIsBelowNone
  <2>2. Closed(Owners(P) \ {o}, T)
    BY <1>2, <2>1 DEF Closed
  <2> QED BY <1>2, <2>1, <2>2
<1> HIDE DEF P
<1>4. /\ P \subseteq Ordered
      /\ \A b, c \in P : b.parent = c.parent => b = c
      /\ \A b, c \in P : \A y \in Below(b) \cap Below(c) : SpanOf(y) > 0 => b = c
  BY <1>1 DEF IsTree
<1>5. Closed(Owners(P), P)
  BY <1>1, <1>2 DEF Closed
<1>6. ASSUME NEW S \in SUBSET Owners(P), x \in S, Closed(S, P) PROVE S = Owners(P)
  <2>1. Closed(S, T)
    BY <1>2, <1>6 DEF Closed
  <2> QED BY <1>2, <1>6, <2>1
<1>7. Owners(P) \cap (above \cup {o}) = {}
  BY <1>2, <1>3 DEF IsTree
<1>8. ASSUME NEW S \in SUBSET Owners(P), S # {}
      PROVE  \E b \in P : b.parent \in S /\ Below(b) \cap S = {}
  <2>1. PICK b \in T : b.parent \in S /\ Below(b) \cap S = {}
    BY <1>2, <1>8 DEF IsTree
  <2> QED BY <1>2, <2>1
<1>9. IsTree(P, x, above \cup {o})
  BY <1>2, <1>4, <1>5, <1>6, <1>7, <1>8 DEF IsTree
<1> QED BY <1>9 DEF P

\* A tree is its root's and-node and the trees below.
LEMMA TreeHasParts ==
    ASSUME NEW T, NEW o, NEW above, IsTree(T, o, above), NEW a \in T, a.parent = o
    PROVE  T = {a} \cup UNION {Part(T, x) : x \in Below(a)}
<1>1. /\ o \in Owners(T) /\ Closed(Owners(T), T) /\ Below(a) \subseteq Owners(T)
      /\ \A b, c \in T : b.parent = c.parent => b = c
  BY DEF IsTree, Closed, Owners
<1>2. Down(T, o) = Owners(T)
  BY <1>1, DownIsLeast DEF IsTree
<1>3. ASSUME NEW b \in T, b # a PROVE b \in UNION {Part(T, x) : x \in Below(a)}
  <2>1. b.parent # o /\ b.parent \in Down(T, o)
    BY <1>1, <1>2, <1>3 DEF Owners
  <2>2. PICK c \in Below(a) : b.parent \in Down(T, c)
    BY <1>1, <2>1, DownFromBelow
  <2> QED BY <2>2 DEF Part
<1> QED BY <1>3 DEF Part

\* A tree lies within the span of its root.
LEMMA TreeIsWithin ==
    ASSUME ForestIsSound, NEW T, NEW o, NEW above, IsTree(T, o, above), NEW x \in Owners(T)
    PROVE  /\ x \in bocage.ors /\ o \in bocage.ors
           /\ o.origin <= x.origin /\ x.at <= o.at
<1> DEFINE S == {y \in Owners(T) : o.origin <= y.origin /\ y.at <= o.at}
<1>1. Owners(T) \subseteq bocage.ors /\ o \in Owners(T) /\ \A a \in T : a \in Ordered
  BY OrderedAnds DEF IsTree, Owners
<1>2. \A y \in bocage.ors : y.origin \in Nat /\ y.at \in Nat
  BY DEF ForestIsSound
<1>3. o \in S
  BY <1>1, <1>2
<1>4. ASSUME NEW a \in T, a.parent \in S, NEW c \in Below(a) PROVE c \in S
  <2>1. c \in Owners(T)
    BY DEF IsTree, Closed, Owners
  <2>2. a.parent.origin <= c.origin /\ c.at <= a.parent.at
    BY <1>1, OrderedAnds DEF Divides
  <2>3. o.origin <= a.parent.origin /\ a.parent.at <= o.at /\ a.parent \in bocage.ors
    BY <1>1, <1>4
  <2>4. c \in bocage.ors /\ o \in bocage.ors
    BY <1>1, <2>1
  <2>5. o.origin <= c.origin /\ c.at <= o.at
    BY <1>2, <2>2, <2>3, <2>4
  <2> QED BY <2>1, <2>5
<1>5. S = Owners(T)
  BY <1>3, <1>4 DEF IsTree, Closed
<1> QED BY <1>1, <1>5

\* The tree below one of the two sides of an and-node, if there is an or-node there.
IsSubtree(P, child, above) ==
    IF child \in bocage.ors THEN IsTree(P, child, above) ELSE P = {}

\* What two trees have in common spans nothing, and they divide it alike.
MeetInNothing(P, C) ==
    /\ \A x \in Owners(P) \cap Owners(C) : SpanOf(x) = 0
    /\ \A b \in P : \A c \in C : b.parent = c.parent => b = c

\* What the two sides of an and-node have in common spans nothing, and so divides in
\* one way.
LEMMA SidesMeet ==
    ASSUME ForestIsSound, NEW a \in Ordered, NEW above, NEW P, NEW C,
           IsSubtree(P, a.pred, above), IsSubtree(C, a.cause, above)
    PROVE  MeetInNothing(P, C)
<1>1. ASSUME NEW x \in Owners(P) \cap Owners(C) PROVE SpanOf(x) = 0
  <2>1. Owners({}) = {}
    BY DEF Owners
  <2>2. a.pred \in bocage.ors /\ a.cause \in bocage.ors
    BY <2>1 DEF IsSubtree
  <2>3. a.pred.at <= a.cause.origin
    BY <2>2, OrderedAnds DEF Divides, Below
  <2>4. /\ x \in bocage.ors /\ x.at <= a.pred.at /\ a.cause.origin <= x.origin
    BY <2>2, TreeIsWithin DEF IsSubtree
  <2>5. /\ x.at \in Nat /\ x.origin \in Nat /\ x.origin <= x.at
        /\ a.pred.at \in Nat /\ a.cause.origin \in Nat
    BY <2>2, <2>4 DEF ForestIsSound
  <2> QED BY <2>3, <2>4, <2>5 DEF SpanOf
<1>2. P \subseteq Ordered /\ C \subseteq Ordered
  BY DEF IsSubtree, IsTree
<1>3. ASSUME NEW b \in P, NEW c \in C, b.parent = c.parent PROVE b = c
  <2>1. b.parent \in Owners(P) \cap Owners(C)
    BY <1>3 DEF Owners
  <2> QED BY <1>1, <1>2, <1>3, <2>1, OrderedAnds
<1>4. \A x \in Owners(P) \cap Owners(C) : SpanOf(x) = 0
  BY <1>1
<1>5. \A b \in P : \A c \in C : b.parent = c.parent => b = c
  BY <1>3
<1> QED BY <1>4, <1>5 DEF MeetInNothing

\* An and-node and the trees below it make a tree.
LEMMA TreeOfParts ==
    ASSUME ForestIsSound, NEW o \in bocage.ors, NEW above, o \notin above,
           NEW a \in Range(order[o]), NEW P, NEW C,
           IsSubtree(P, a.pred, above \cup {o}), IsSubtree(C, a.cause, above \cup {o})
    PROVE  IsTree({a} \cup P \cup C, o, above)
<1> DEFINE T == {a} \cup P \cup C
<1>1. a \in Ordered /\ a.parent = o /\ a \notin P /\ a \notin C
  <2>1. a \in Ordered
    BY DEF Ordered
  <2>2. a.parent = o
    BY DEF Range, ForestIsSound, Divides
  <2>3. o \notin Owners(P) /\ o \notin Owners(C)
    BY DEF IsSubtree, IsTree, Owners
  <2> QED BY <2>1, <2>2, <2>3 DEF Owners
<1>2. /\ P \subseteq Ordered /\ C \subseteq Ordered
      /\ Closed(Owners(P), P) /\ Closed(Owners(C), C)
      /\ o \notin Owners(P) /\ o \notin Owners(C)
      /\ Owners(P) \cap above = {} /\ Owners(C) \cap above = {}
      /\ \A b, c \in P : b.parent = c.parent => b = c
      /\ \A b, c \in C : b.parent = c.parent => b = c
      /\ a.pred \in bocage.ors => a.pred \in Owners(P)
      /\ a.cause \in bocage.ors => a.cause \in Owners(C)
  BY DEF IsSubtree, IsTree, Owners, Closed
<1>3. Owners(T) = {o} \cup Owners(P) \cup Owners(C)
  BY <1>1 DEF Owners
<1>4. /\ \A x \in Owners(P) \cap Owners(C) : SpanOf(x) = 0
      /\ \A b \in P : \A c \in C : b.parent = c.parent => b = c
  <2>1. PICK all : all = above \cup {o}
    OBVIOUS
  <2>2. IsSubtree(P, a.pred, all) /\ IsSubtree(C, a.cause, all) /\ a \in Ordered
    BY <1>1, <2>1
  <2>3. MeetInNothing(P, C)
    BY <2>2, SidesMeet, Zenon
  <2> QED BY <2>3 DEF MeetInNothing
<1>5. \A b, c \in T : b.parent = c.parent => b = c
  <2>1. (\A b \in P : b.parent # o) /\ (\A c \in C : c.parent # o)
    BY <1>2 DEF Owners
  <2> QED BY <1>1, <1>2, <1>4, <2>1
<1>6. \A b \in P : Below(b) \subseteq Owners(P) /\ b.parent \in Owners(P)
  BY <1>2 DEF Closed, Owners
<1>7. \A c \in C : Below(c) \subseteq Owners(C) /\ c.parent \in Owners(C)
  BY <1>2 DEF Closed, Owners
<1>8. Below(a) \subseteq Owners(P) \cup Owners(C)
  BY <1>2 DEF Below
<1>9. Closed(Owners(T), T)
  BY <1>3, <1>6, <1>7, <1>8 DEF Closed
<1> HIDE DEF T
<1>10. ASSUME NEW S \in SUBSET Owners(T), o \in S, Closed(S, T) PROVE S = Owners(T)
  <2>0. a \in T /\ P \subseteq T /\ C \subseteq T
    BY DEF T
  <2>1. Below(a) \subseteq S
    BY <1>1, <1>10, <2>0 DEF Closed
  <2>2. Owners(P) \subseteq S
    <3>1. CASE a.pred \in bocage.ors
      <4>1. a.pred \in S \cap Owners(P)
        BY <1>2, <2>1, <3>1 DEF Below
      <4>2. Closed(S \cap Owners(P), P)
        BY <1>2, <1>10, <2>0 DEF Closed
      <4> QED BY <3>1, <4>1, <4>2 DEF IsSubtree, IsTree
    <3>2. CASE a.pred \notin bocage.ors
      BY <3>2 DEF IsSubtree, Owners
    <3> QED BY <3>1, <3>2
  <2>3. Owners(C) \subseteq S
    <3>1. CASE a.cause \in bocage.ors
      <4>1. a.cause \in S \cap Owners(C)
        BY <1>2, <2>1, <3>1 DEF Below
      <4>2. Closed(S \cap Owners(C), C)
        BY <1>2, <1>10, <2>0 DEF Closed
      <4> QED BY <3>1, <4>1, <4>2 DEF IsSubtree, IsTree
    <3>2. CASE a.cause \notin bocage.ors
      BY <3>2 DEF IsSubtree, Owners
    <3> QED BY <3>1, <3>2
  <2> QED BY <1>3, <1>10, <2>2, <2>3
<1>11. ASSUME NEW S \in SUBSET Owners(T), S # {}
       PROVE  \E b \in T : b.parent \in S /\ Below(b) \cap S = {}
  <2>1. CASE S \cap Owners(P) # {}
    <3>1. a.pred \in bocage.ors
      BY <2>1 DEF IsSubtree, Owners
    <3>2. PICK b \in P : b.parent \in S \cap Owners(P) /\ Below(b) \cap (S \cap Owners(P)) = {}
      BY <2>1, <3>1 DEF IsSubtree, IsTree
    <3> QED BY <1>6, <3>2 DEF T
  <2>2. CASE S \cap Owners(C) # {}
    <3>1. a.cause \in bocage.ors
      BY <2>2 DEF IsSubtree, Owners
    <3>2. PICK b \in C : b.parent \in S \cap Owners(C) /\ Below(b) \cap (S \cap Owners(C)) = {}
      BY <2>2, <3>1 DEF IsSubtree, IsTree
    <3> QED BY <1>7, <3>2 DEF T
  <2>3. CASE S \cap Owners(P) = {} /\ S \cap Owners(C) = {}
    <3>1. a \in T /\ a.parent \in S /\ Below(a) \cap S = {}
      BY <1>1, <1>3, <1>8, <1>11, <2>3 DEF T
    <3> QED BY <3>1
  <2> QED BY <2>1, <2>2, <2>3
<1>12. ASSUME NEW b \in T, NEW c \in T, NEW x \in Below(b) \cap Below(c), SpanOf(x) > 0
       PROVE  b = c
  <2>1. x \notin Owners(P) \cap Owners(C)
    BY <1>4, <1>12
  <2>2. ASSUME NEW d \in P PROVE x \in Below(d) => x \in Owners(P) /\ ~ (x \in Below(a))
    <3>1. ASSUME x \in Below(d), x \in Below(a) PROVE FALSE
      <4>1. x \in Owners(P)
        BY <1>6, <3>1
      <4>2. x \in bocage.ors /\ x = a.pred
        BY <1>2, <2>1, <3>1, <4>1 DEF Below
      <4> QED BY <3>1, <4>2, RootIsBelowNone DEF IsSubtree
    <3> QED BY <1>6, <3>1
  <2>3. ASSUME NEW d \in C PROVE x \in Below(d) => x \in Owners(C) /\ ~ (x \in Below(a))
    <3>1. ASSUME x \in Below(d), x \in Below(a) PROVE FALSE
      <4>1. x \in Owners(C)
        BY <1>7, <3>1
      <4>2. x \in bocage.ors /\ x = a.cause
        BY <1>2, <2>1, <3>1, <4>1 DEF Below
      <4> QED BY <3>1, <4>2, RootIsBelowNone DEF IsSubtree
    <3> QED BY <1>7, <3>1
  <2>4. CASE b \in P /\ c \in P
    BY <1>12, <2>4 DEF IsSubtree, IsTree
  <2>5. CASE b \in C /\ c \in C
    BY <1>12, <2>5 DEF IsSubtree, IsTree
  <2> QED BY <1>12, <2>1, <2>2, <2>3, <2>4, <2>5 DEF T
<1>13. T \subseteq Ordered /\ o \in Owners(T) /\ Owners(T) \cap above = {}
  BY <1>1, <1>2, <1>3 DEF T
<1>14. \A b, c \in T : \A x \in Below(b) \cap Below(c) : SpanOf(x) > 0 => b = c
  BY <1>12
<1>15. IsTree(T, o, above)
  BY <1>5, <1>9, <1>10, <1>11, <1>13, <1>14 DEF IsTree
<1> QED BY <1>15 DEF T

-----------------------------------------------------------------------------
(***************************************************************************)
(* The recursion of TreesOf gives just these trees.                        *)
(***************************************************************************)
TreeSet(o, above) == {T \in SUBSET Ordered : IsTree(T, o, above)}
TreeSets == [above \in SUBSET bocage.ors |-> [o \in bocage.ors |-> TreeSet(o, above)]]

Recursion(f) ==
    f = [above \in SUBSET bocage.ors |-> [o \in bocage.ors |-> TreesFrom(f, o, above)]]

Joined(a, P, C) == {a} \cup P \cup C

Splits(T, f, a, above) ==
    \E p \in TreesBelow(f, a.pred, above) :
        \E c \in TreesBelow(f, a.cause, above) : T = Joined(a, p, c)

\* Such a set joins its and-node and a tree of each side.
LEMMA TreesThroughParts ==
    ASSUME NEW f, NEW a, NEW above, NEW T
    PROVE  T \in TreesThrough(f, a, above) <=> Splits(T, f, a, above)
<1> DEFINE P == TreesBelow(f, a.pred, above)
           C == TreesBelow(f, a.cause, above)
           Of(c) == {{a} \cup p \cup c : p \in P}
<1>1. TreesThrough(f, a, above) = UNION {Of(c) : c \in C}
  BY DEF TreesThrough
<1>2. \A c : T \in Of(c) <=> \E p \in P : T = Joined(a, p, c)
  BY DEF Joined
<1>3. T \in TreesThrough(f, a, above) <=> \E c \in C : T \in Of(c)
  <2> HIDE DEF Of, P, C
  <2> QED BY <1>1
<1> HIDE DEF Of
<1> QED BY <1>2, <1>3 DEF Splits

\* The trees of an or-node are those through its and-nodes.
LEMMA TreesFromParts ==
    ASSUME NEW f, NEW o, NEW above, o \notin above, NEW all, all = above \cup {o}, NEW T
    PROVE  /\ T \in TreesFrom(f, o, above) =>
                 \E a \in Range(order[o]) : T \in TreesThrough(f, a, all)
           /\ \A a \in Range(order[o]) :
                 T \in TreesThrough(f, a, all) => T \in TreesFrom(f, o, above)
  BY DEF TreesFrom

\* The trees below, in TreeSets.
LEMMA SubtreesAre ==
    ASSUME NEW child, NEW above \in SUBSET bocage.ors, NEW T
    PROVE  T \in TreesBelow(TreeSets, child, above) <=> IsSubtree(T, child, above)
<1>1. CASE child \in bocage.ors
  <2>1. TreesBelow(TreeSets, child, above) = TreeSet(child, above)
    BY <1>1 DEF TreesBelow, TreeSets
  <2> QED BY <1>1, <2>1 DEF TreeSet, IsSubtree, IsTree
<1>2. CASE child \notin bocage.ors
  BY <1>2 DEF TreesBelow, IsSubtree
<1> QED BY <1>1, <1>2

\* A tree divides into the and-node of its root and the trees on its two sides.
LEMMA TreeHasSides ==
    ASSUME ForestIsSound, NEW T, NEW o, NEW above, IsTree(T, o, above),
           NEW all, all = above \cup {o}
    PROVE  \E a \in Range(order[o]) : \E P : \E C :
              /\ IsSubtree(P, a.pred, all) /\ IsSubtree(C, a.cause, all)
              /\ T = Joined(a, P, C)
<1>1. PICK a \in T : a.parent = o
  BY DEF IsTree, Owners
<1>2. a \in Ordered /\ a \in Range(order[o])
  BY <1>1, OrderedAnds DEF IsTree
<1>4. \A x \in Below(a) : IsTree(Part(T, x), x, all)
  BY <1>1, PartIsTree
<1> DEFINE Side(x) == IF x \in bocage.ors THEN Part(T, x) ELSE {}
<1>5. IsSubtree(Side(a.pred), a.pred, all) /\ IsSubtree(Side(a.cause), a.cause, all)
  BY <1>4 DEF IsSubtree, Below
<1>6. UNION {Part(T, x) : x \in Below(a)} = Side(a.pred) \cup Side(a.cause)
  BY DEF Below
<1>7. T = {a} \cup UNION {Part(T, x) : x \in Below(a)}
  BY <1>1, TreeHasParts
<1>8. T = Joined(a, Side(a.pred), Side(a.cause))
  BY <1>6, <1>7 DEF Joined
<1> HIDE DEF Side
<1> QED BY <1>2, <1>5, <1>8

\* TreeSets is a solution of the recursion.
LEMMA TreeSetsAreASolution == ForestIsSound => Recursion(TreeSets)
<1> SUFFICES ASSUME ForestIsSound PROVE Recursion(TreeSets)
  OBVIOUS
<1>1. ASSUME NEW above \in SUBSET bocage.ors, NEW o \in bocage.ors
      PROVE  TreeSet(o, above) = TreesFrom(TreeSets, o, above)
  <2>1. CASE o \in above
    <3>1. TreesFrom(TreeSets, o, above) = {}
      BY <2>1 DEF TreesFrom
    <3>2. TreeSet(o, above) = {}
      BY <2>1 DEF TreeSet, IsTree
    <3> QED BY <3>1, <3>2
  <2>2. CASE o \notin above
    <3> PICK all \in SUBSET bocage.ors : all = above \cup {o}
      OBVIOUS
    <3>1. ASSUME NEW T \in TreeSet(o, above) PROVE T \in TreesFrom(TreeSets, o, above)
      <4>1. PICK a \in Range(order[o]) : \E P : \E C :
                /\ IsSubtree(P, a.pred, all) /\ IsSubtree(C, a.cause, all)
                /\ T = Joined(a, P, C)
        <5>1. IsTree(T, o, above)
          BY DEF TreeSet
        <5> QED BY <5>1, TreeHasSides
      <4>2. PICK P, C : /\ IsSubtree(P, a.pred, all) /\ IsSubtree(C, a.cause, all)
                        /\ T = Joined(a, P, C)
        BY <4>1
      <4>3. /\ P \in TreesBelow(TreeSets, a.pred, all)
            /\ C \in TreesBelow(TreeSets, a.cause, all)
        BY <4>2, SubtreesAre
      <4>4. T \in TreesThrough(TreeSets, a, all)
        BY <4>2, <4>3, TreesThroughParts DEF Splits
      <4> QED BY <2>2, <4>4, TreesFromParts
    <3>2. ASSUME NEW T \in TreesFrom(TreeSets, o, above) PROVE T \in TreeSet(o, above)
      <4>0. PICK a \in Range(order[o]) : T \in TreesThrough(TreeSets, a, all)
        BY <2>2, <3>2, TreesFromParts
      <4>1. \E p \in TreesBelow(TreeSets, a.pred, all) :
                    \E c \in TreesBelow(TreeSets, a.cause, all) : T = Joined(a, p, c)
        <5>1. Splits(T, TreeSets, a, all)
          BY <4>0, TreesThroughParts
        <5> QED BY <5>1 DEF Splits
      <4>2. PICK P \in TreesBelow(TreeSets, a.pred, all), C \in TreesBelow(TreeSets, a.cause, all) :
                 T = Joined(a, P, C)
        BY <4>1
      <4>3. IsSubtree(P, a.pred, all) /\ IsSubtree(C, a.cause, all)
        BY <4>2, SubtreesAre
      <4>4. IsTree(T, o, above)
        BY <2>2, <4>2, <4>3, TreeOfParts DEF Joined
      <4> QED BY <4>4 DEF TreeSet, IsTree
    <3> QED BY <3>1, <3>2
  <2> QED BY <2>1, <2>2
<1>2. \A above \in SUBSET bocage.ors :
          [o \in bocage.ors |-> TreeSet(o, above)]
             = [o \in bocage.ors |-> TreesFrom(TreeSets, o, above)]
  BY <1>1
<1>3. [above \in SUBSET bocage.ors |-> [o \in bocage.ors |-> TreeSet(o, above)]]
        = [above \in SUBSET bocage.ors |-> [o \in bocage.ors |-> TreesFrom(TreeSets, o, above)]]
  BY <1>2
<1> QED BY <1>3, Zenon DEF Recursion, TreeSets

\* As a bocage has finitely many or-nodes there is no other.
LEMMA RecursionIsUnique ==
    ASSUME ForestIsSound, NEW f, Recursion(f), NEW A \in SUBSET bocage.ors, NEW x \in bocage.ors
    PROVE  f[A][x] = TreeSets[A][x]
<1> DEFINE S == bocage.ors
           Bad == {B \in SUBSET S : \E y \in S : f[B][y] # TreeSets[B][y]}
           Rest == {S \ B : B \in Bad}
<1> SUFFICES ASSUME Bad # {} PROVE FALSE
  OBVIOUS
<1>1. IsFiniteSet(S)
  BY DEF ForestIsSound
<1>2. IsWellFoundedOn(StrictSubsetOrdering(S), SUBSET S)
  BY <1>1, FS_StrictSubsetOrderingWellFounded, FS_FiniteSubsetsOfFinite
<1>3. Rest \subseteq SUBSET S /\ Rest # {}
  OBVIOUS
<1>4. PICK R \in Rest : \A T \in Rest : ~ (<<T, R>> \in StrictSubsetOrdering(S))
  <2> HIDE DEF Rest
  <2> QED BY <1>2, <1>3, WFMin
<1>5. PICK B \in Bad : R = S \ B
  BY <1>4
<1>6. PICK o \in S : f[B][o] # TreeSets[B][o]
  BY <1>5
<1>7. f[B][o] = TreesFrom(f, o, B)
  BY <1>5, <1>6 DEF Recursion
<1>8. TreeSets[B][o] = TreesFrom(TreeSets, o, B)
  <2>1. Recursion(TreeSets)
    BY TreeSetsAreASolution
  <2> QED BY <1>5, <1>6, <2>1 DEF Recursion
<1>9. o \notin B
  BY <1>6, <1>7, <1>8 DEF TreesFrom
<1> DEFINE E == B \cup {o}
<1>10. E \in SUBSET S /\ B \subseteq E /\ E # B
  BY <1>5, <1>9
<1>11. <<S \ E, S \ B>> \in StrictSubsetOrdering(S)
  <2>1. S \ E \subseteq S \ B /\ S \ E # S \ B
    BY <1>5, <1>9, <1>10
  <2> HIDE DEF E, S
  <2> QED BY <2>1 DEF StrictSubsetOrdering
<1>12. E \notin Bad
  BY <1>4, <1>5, <1>11
<1>13. \A y \in S : f[E][y] = TreeSets[E][y]
  BY <1>10, <1>12
<1>14. TreesFrom(f, o, B) = TreesFrom(TreeSets, o, B)
  <2>1. \A child : TreesBelow(f, child, E) = TreesBelow(TreeSets, child, E)
    BY <1>13 DEF TreesBelow
  <2>2. ASSUME NEW a PROVE TreesThrough(f, a, E) = TreesThrough(TreeSets, a, E)
    <3>1. PICK P : P = TreesBelow(f, a.pred, E) /\ P = TreesBelow(TreeSets, a.pred, E)
      BY <2>1
    <3>2. PICK C : C = TreesBelow(f, a.cause, E) /\ C = TreesBelow(TreeSets, a.cause, E)
      BY <2>1
    <3> HIDE DEF E
    <3> QED BY <3>1, <3>2 DEF TreesThrough
  <2>3. /\ TreesFrom(f, o, B) = UNION {TreesThrough(f, a, E) : a \in Range(order[o])}
        /\ TreesFrom(TreeSets, o, B) = UNION {TreesThrough(TreeSets, a, E) : a \in Range(order[o])}
    BY <1>9 DEF TreesFrom
  <2> HIDE DEF E
  <2> QED BY <2>2, <2>3
<1> QED BY <1>6, <1>7, <1>8, <1>14

\* So the trees of the bocage are the trees of its top.
LEMMA AllTreesAre ==
    ASSUME ForestIsSound, ~ bocage.nulling, NEW T
    PROVE  T \in AllTrees <=> IsTree(T, bocage.top, {})
<1> DEFINE f == CHOOSE h : Recursion(h)
<1>1. Recursion(f)
  BY TreeSetsAreASolution
<1>2. TreesOf = f
  BY Zenon DEF TreesOf, Recursion
<1> HIDE DEF f
<1>3. TreesOf[{}][bocage.top] = TreeSets[{}][bocage.top] /\ bocage.top \in bocage.ors
  BY <1>1, <1>2, RecursionIsUnique DEF ForestIsSound
<1>4. TreeSets[{}][bocage.top] = TreeSet(bocage.top, {})
  BY <1>3 DEF TreeSets
<1> QED BY <1>3, <1>4 DEF AllTrees, TreeSet, IsTree

-----------------------------------------------------------------------------
(***************************************************************************)
(* The nook stack as a part of a tree.  Each nook but the first stands for *)
(* one of the two sides of its parent's and-node.                          *)
(***************************************************************************)
Chosen(s, i) == order[s[i].or][s[i].choice]

Sides == {"cause", "pred"}
SideOf(a, side) == IF side = "cause" THEN a.cause ELSE a.pred
SideDone(nook, side) == IF side = "cause" THEN nook.causeDone ELSE nook.predDone
KidSide(nook) == IF nook.isCause THEN "cause" ELSE "pred"
IsKid(s, j, i, side) == j \in DOMAIN s \ {1} /\ s[j].parent = i /\ KidSide(s[j]) = side

NookSet ==
    [or : bocage.ors, choice : Nat \ {0}, parent : Nat,
     causeDone : BOOLEAN, predDone : BOOLEAN, isCause : BOOLEAN, isPred : BOOLEAN]

NooksAre(s) ==
    /\ s \in Seq(NookSet)
    /\ \A i \in DOMAIN s : s[i].choice <= Len(order[s[i].or])
RootIs(s) == 1 \in DOMAIN s => s[1].or = bocage.top /\ ~ s[1].isCause /\ ~ s[1].isPred
KidsAre(s) ==
    \A i \in DOMAIN s \ {1} :
        /\ s[i].parent \in 1 .. (i - 1)
        /\ s[i].isPred <=> ~ s[i].isCause
        /\ s[i].or = SideOf(Chosen(s, s[i].parent), KidSide(s[i]))
KidsDiffer(s) ==
    \A i \in DOMAIN s \ {1} : \A j \in DOMAIN s \ {1} :
        s[i].parent = s[j].parent /\ KidSide(s[i]) = KidSide(s[j]) => i = j
\* A side is done if it has its nook.
SidesAre(s) ==
    \A i \in DOMAIN s : \A side \in Sides :
        SideOf(Chosen(s, i), side) \in bocage.ors =>
            (SideDone(s[i], side) <=> \E j \in DOMAIN s : IsKid(s, j, i, side))

Shaped(s) == NooksAre(s) /\ RootIs(s) /\ KidsAre(s) /\ KidsDiffer(s) /\ SidesAre(s)

\* A nook with a side that is not done is on the worklist.
IsDue(s, i, side) == SideOf(Chosen(s, i), side) \in bocage.ors /\ ~ SideDone(s[i], side)
DueIn(s, work) ==
    /\ s # <<>>
    /\ \A i \in DOMAIN s : \A side \in Sides :
          IsDue(s, i, side) => \E k \in DOMAIN work : work[k] = i

\* The tree T goes on from the stack; it is before it, in the order of the search.
Extends(T, s) == \A i \in DOMAIN s : Chosen(s, i) \in T
IsBefore(T, s) ==
    \E i \in DOMAIN s :
        /\ \A j \in 1 .. (i - 1) : Chosen(s, j) \in T
        /\ \E c \in 1 .. (s[i].choice - 1) : order[s[i].or][c] \in T

\* The and-node of a nook.
LEMMA ChosenIs ==
    ASSUME ForestIsSound, NEW s, NooksAre(s), NEW i \in DOMAIN s
    PROVE  /\ s[i].or \in bocage.ors /\ s[i].choice \in DOMAIN order[s[i].or]
           /\ Chosen(s, i) \in Ordered /\ Chosen(s, i).parent = s[i].or
           /\ Divides(s[i].or, Chosen(s, i))
           /\ s[i] \in NookSet /\ s[i].choice \in Nat \ {0}
           /\ Len(order[s[i].or]) \in Nat /\ s[i].choice <= Len(order[s[i].or])
<1>1. s[i] \in NookSet /\ s[i].choice <= Len(order[s[i].or])
  BY DEF NooksAre
<1>2. s[i].or \in bocage.ors /\ s[i].choice \in Nat \ {0}
  BY <1>1 DEF NookSet
<1>3. s[i].choice \in DOMAIN order[s[i].or]
  BY <1>1, <1>2 DEF ForestIsSound
<1>4. Chosen(s, i) \in Range(order[s[i].or])
  BY <1>3 DEF Chosen, Range
<1>5. Divides(s[i].or, Chosen(s, i))
  BY <1>2, <1>3 DEF ForestIsSound, Chosen
<1>6. Len(order[s[i].or]) \in Nat
  BY <1>2 DEF ForestIsSound
<1> QED BY <1>1, <1>2, <1>3, <1>4, <1>5, <1>6 DEF Ordered, Divides

\* What is below the and-node of a nook is one of its sides.
LEMMA BelowIsSide ==
    ASSUME NEW a
    PROVE  /\ \A x : x \in Below(a) <=> x \in bocage.ors /\ \E side \in Sides : x = SideOf(a, side)
           /\ SideOf(a, "cause") = a.cause /\ SideOf(a, "pred") = a.pred
BY DEF Below, SideOf, Sides

\* No tree goes on from a stack in which the or-node of a nook would be again below
\* another: as a nook of its own has been given to that side, or to another side, or-nodes
\* that span some input would be below two and-nodes.
LEMMA CycleEndsSearch ==
    ASSUME ForestIsSound, NEW s, Shaped(s), Exact(inUse, s),
           NEW w \in DOMAIN s, NEW side \in Sides, IsDue(s, w, side),
           SpanOf(SideOf(Chosen(s, w), side)) > 0, SideOf(Chosen(s, w), side) \in inUse,
           NEW T, IsTree(T, bocage.top, {}), Extends(T, s)
    PROVE  FALSE
<1> DEFINE a == Chosen(s, w)
           o == SideOf(a, side)
<1>1. PICK j \in DOMAIN s : s[j].or = o /\ SpanOf(s[j].or) > 0
  BY DEF Exact, Spanning
<1>2. NooksAre(s) /\ RootIs(s) /\ KidsAre(s) /\ SidesAre(s)
  BY DEF Shaped
<1>3. a \in T /\ o \in Below(a) /\ o \in bocage.ors
  BY BelowIsSide DEF Extends, IsDue
<1>4. j # 1
  <2>1. CASE j = 1
    <3>1. o = bocage.top
      BY <1>1, <1>2, <2>1 DEF RootIs
    <3> QED BY <1>3, <3>1, RootIsBelowNone
  <2> QED BY <2>1
<1>5. PICK p \in DOMAIN s : s[j].parent = p /\ p \in 1 .. (j - 1)
  <2>1. s[j].parent \in 1 .. (j - 1)
    BY <1>2, <1>4 DEF KidsAre
  <2>2. Len(s) \in Nat /\ DOMAIN s = 1 .. Len(s)
    BY <1>2 DEF NooksAre
  <2> QED BY <2>1, <2>2
<1> DEFINE b == Chosen(s, p)
           other == KidSide(s[j])
<1>6. o = SideOf(b, other) /\ other \in Sides /\ b \in T
  BY <1>1, <1>2, <1>4, <1>5 DEF KidsAre, Sides, KidSide, Extends
<1>7. o \in Below(b)
  BY <1>3, <1>6, BelowIsSide
<1>8. a = b
  BY <1>3, <1>6, <1>7 DEF IsTree
<1>9. s[p].or = s[w].or /\ Divides(s[p].or, b) /\ s[p].or \in bocage.ors
  BY <1>2, <1>8, ChosenIs
<1>10. SpanOf(s[p].or) > 0
  <2>1. s[p].or.origin <= o.origin /\ o.at <= s[p].or.at
    BY <1>7, <1>9 DEF Divides
  <2>2. o.origin \in Nat /\ o.at \in Nat /\ s[p].or.origin \in Nat /\ s[p].or.at \in Nat
    BY <1>3, <1>9 DEF ForestIsSound
  <2>3. o.at - o.origin > 0
    BY DEF SpanOf
  <2> QED BY <2>1, <2>2, <2>3 DEF SpanOf
<1>11. p = w
  BY <1>9, <1>10 DEF Exact, Spanning
<1>12. CASE other = side
  <2>1. IsKid(s, j, w, side)
    BY <1>4, <1>5, <1>11, <1>12 DEF IsKid
  <2>2. SideDone(s[w], side)
    BY <1>2, <1>3, <2>1 DEF SidesAre
  <2> QED BY <2>2 DEF IsDue
<1>13. CASE other # side
  <2>1. a.pred = o /\ a.cause = o
    BY <1>6, <1>8, <1>13, BelowIsSide DEF Sides, SideOf
  <2>2. o.at <= o.origin
    BY <1>3, <1>8, <1>9, <2>1 DEF Divides, Below
  <2>3. o.origin \in Nat /\ o.at \in Nat
    BY <1>3 DEF ForestIsSound
  <2> QED BY <2>2, <2>3 DEF SpanOf
<1> QED BY <1>12, <1>13

-----------------------------------------------------------------------------
(***************************************************************************)
(* A stack of which nothing is due is a tree.                              *)
(***************************************************************************)
TreeOn(s) == {Chosen(s, i) : i \in DOMAIN s}
Finished(s) == s # <<>> /\ \A i \in DOMAIN s : \A side \in Sides : ~ IsDue(s, i, side)

\* Its or-nodes, and that each has one and-node.
LEMMA OwnersOn ==
    ASSUME ForestIsSound, NEW s, Shaped(s), Exact(inUse, s)
    PROVE  /\ \A x : x \in Owners(TreeOn(s)) <=> \E i \in DOMAIN s : x = s[i].or
           /\ TreeOn(s) \subseteq Ordered
           /\ \A a \in TreeOn(s) : \A b \in TreeOn(s) : a.parent = b.parent => a = b
<1>1. NooksAre(s)
  BY DEF Shaped
<1>2. \A i \in DOMAIN s : /\ Chosen(s, i) \in Ordered /\ Chosen(s, i).parent = s[i].or
  BY <1>1, ChosenIs
<1>3. ASSUME NEW i \in DOMAIN s, NEW j \in DOMAIN s, s[i].or = s[j].or
      PROVE  Chosen(s, i) = Chosen(s, j)
  <2>1. CASE SpanOf(s[i].or) > 0
    <3>1. i = j
      BY <1>3, <2>1 DEF Exact, Spanning
    <3> QED BY <3>1
  <2>2. CASE ~ (SpanOf(s[i].or) > 0)
    <3>1. s[i].or \in bocage.ors
      BY <1>1, ChosenIs
    <3>2. SpanOf(s[i].or) = 0
      BY <2>2, <3>1 DEF ForestIsSound, SpanOf
    <3> QED BY <1>2, <1>3, <3>2, OrderedAnds
  <2> QED BY <2>1, <2>2
<1>4. \A x : x \in Owners(TreeOn(s)) <=> \E i \in DOMAIN s : x = s[i].or
  BY <1>2 DEF Owners, TreeOn
<1>5. \A a \in TreeOn(s) : \A b \in TreeOn(s) : a.parent = b.parent => a = b
  BY <1>2, <1>3 DEF TreeOn
<1> QED BY <1>2, <1>4, <1>5 DEF TreeOn

\* If nothing is due, what is below a nook has a nook above it in the stack.
LEMMA KidOn ==
    ASSUME ForestIsSound, NEW s, Shaped(s), Finished(s),
           NEW i \in DOMAIN s, NEW x \in Below(Chosen(s, i))
    PROVE  \E j \in DOMAIN s : j # 1 /\ s[j].parent = i /\ s[j].or = x /\ i \in 1 .. (j - 1)
<1>1. PICK side \in Sides : x = SideOf(Chosen(s, i), side) /\ x \in bocage.ors
  BY BelowIsSide
<1>2. SideDone(s[i], side)
  BY <1>1 DEF Finished, IsDue
<1>3. PICK j \in DOMAIN s : IsKid(s, j, i, side)
  BY <1>1, <1>2 DEF Shaped, SidesAre
<1>4. j # 1 /\ s[j].parent = i /\ KidSide(s[j]) = side
  BY <1>3 DEF IsKid
<1>5. s[j].or = SideOf(Chosen(s, i), side) /\ i \in 1 .. (j - 1)
  BY <1>4 DEF Shaped, KidsAre
<1> QED BY <1>1, <1>4, <1>5

\* A set of the or-nodes that holds the first, and what is below each of its own, holds all.
LEMMA StackFromTop ==
    ASSUME ForestIsSound, NEW s, Shaped(s), NEW S, bocage.top \in S,
           \A i \in DOMAIN s : s[i].or \in S => Below(Chosen(s, i)) \subseteq S
    PROVE  \A i \in DOMAIN s : s[i].or \in S
<1> DEFINE Good == {n \in Nat : \A i \in DOMAIN s : i <= n => s[i].or \in S}
<1>1. NooksAre(s) /\ RootIs(s) /\ KidsAre(s)
  BY DEF Shaped
<1>2. Len(s) \in Nat /\ DOMAIN s = 1 .. Len(s)
  BY <1>1 DEF NooksAre
<1>3. 0 \in Good
  BY <1>2
<1>4. ASSUME NEW n \in Nat, n \in Good PROVE n + 1 \in Good
  <2> SUFFICES ASSUME NEW i \in DOMAIN s, i = n + 1 PROVE s[i].or \in S
    BY <1>2, <1>4
  <2>1. CASE i = 1
    BY <1>1, <2>1 DEF RootIs
  <2>2. CASE i # 1
    <3>1. PICK p : p = s[i].parent /\ p \in 1 .. (i - 1)
      BY <1>1, <2>2 DEF KidsAre
    <3>2. p \in DOMAIN s /\ p <= n
      BY <1>2, <3>1
    <3>3. Below(Chosen(s, p)) \subseteq S
      BY <1>4, <3>2
    <3>4. s[i].or = SideOf(Chosen(s, p), KidSide(s[i])) /\ KidSide(s[i]) \in Sides
      BY <1>1, <2>2, <3>1 DEF KidsAre, KidSide, Sides
    <3>5. s[i].or \in bocage.ors
      BY <1>1, ChosenIs
    <3> QED BY <3>3, <3>4, <3>5, BelowIsSide
  <2> QED BY <2>1, <2>2
<1>5. Nat \subseteq Good
  <2> HIDE DEF Good
  <2> QED BY <1>3, <1>4, SetInduction
<1> QED BY <1>2, <1>5

\* A nonempty set of natural numbers has a least one.
LEMMA LeastNumber ==
    ASSUME NEW S \in SUBSET Nat, S # {}
    PROVE  \E n \in S : \A m \in S : n <= m
<1>1. IsWellFoundedOn(OpToRel(<, Nat), Nat)
  BY NatLessThanWellFounded
<1>2. PICK n \in S : \A m \in S : ~ (<<m, n>> \in OpToRel(<, Nat))
  BY <1>1, WFMin
<1>3. \A m \in S : ~ (m < n)
  BY <1>2 DEF OpToRel
<1> QED BY <1>3

\* Of a set of its or-nodes, one has nothing below in the set: one that spans nothing
\* with the fewest nulling symbols, or else the last on the stack.
LEMMA NoCycleOn ==
    ASSUME ForestIsSound, NEW s, Shaped(s), Exact(inUse, s), Finished(s),
           NEW S \in SUBSET Owners(TreeOn(s)), S # {}
    PROVE  \E i \in DOMAIN s : s[i].or \in S /\ Below(Chosen(s, i)) \cap S = {}
<1>1. NooksAre(s) /\ \A x \in S : \E i \in DOMAIN s : x = s[i].or
  BY OwnersOn DEF Shaped
<1>2. Len(s) \in Nat /\ DOMAIN s = 1 .. Len(s)
  BY <1>1 DEF NooksAre
<1>3. \A x \in S : x \in bocage.ors /\ x.origin \in Nat /\ x.at \in Nat /\ x.nulls \in Nat
                   /\ x.origin <= x.at
  BY <1>1, ChosenIs DEF ForestIsSound
<1>4. CASE \E x \in S : SpanOf(x) = 0
  <2> DEFINE N == {n \in Nat : \E x \in S : SpanOf(x) = 0 /\ n = x.nulls}
  <2>1. N \in SUBSET Nat /\ N # {}
    BY <1>3, <1>4
  <2>2. PICK n \in N : \A m \in N : n <= m
    <3> HIDE DEF N
    <3> QED BY <2>1, LeastNumber
  <2>3. PICK x \in S : SpanOf(x) = 0 /\ x.nulls = n
    BY <2>2
  <2>4. PICK i \in DOMAIN s : s[i].or = x
    BY <1>1
  <2>5. Divides(x, Chosen(s, i))
    BY <1>1, <2>4, ChosenIs
  <2>6. ASSUME NEW c \in Below(Chosen(s, i)), c \in S PROVE FALSE
    <3>1. x.origin <= c.origin /\ c.at <= x.at /\ c.nulls < x.nulls
      BY <2>3, <2>5 DEF Divides
    <3>2. SpanOf(c) = 0
      BY <1>3, <2>3, <2>6, <3>1 DEF SpanOf
    <3>3. c.nulls \in N
      BY <1>3, <2>6, <3>2
    <3>4. n <= c.nulls /\ n = x.nulls
      BY <2>2, <2>3, <3>3
    <3> QED BY <1>3, <2>6, <3>1, <3>4
  <2> QED BY <2>3, <2>4, <2>6
<1>5. CASE \A x \in S : SpanOf(x) # 0
  <2>1. \A x \in S : SpanOf(x) > 0
    BY <1>3, <1>5 DEF SpanOf
  <2> DEFINE N == {n \in Nat : \E i \in DOMAIN s : s[i].or \in S /\ n = Len(s) - i}
  <2>2. N \in SUBSET Nat /\ N # {}
    <3>1. PICK i \in DOMAIN s : s[i].or \in S
      BY <1>1
    <3>2. Len(s) - i \in N
      BY <1>2, <3>1
    <3> QED BY <3>2
  <2>3. PICK n \in N : \A m \in N : n <= m
    <3> HIDE DEF N
    <3> QED BY <2>2, LeastNumber
  <2>4. PICK i \in DOMAIN s : s[i].or \in S /\ n = Len(s) - i
    BY <2>3
  <2>5. ASSUME NEW c \in Below(Chosen(s, i)), c \in S PROVE FALSE
    <3>1. PICK j \in DOMAIN s : s[j].or = c /\ i \in 1 .. (j - 1)
      BY KidOn
    <3>2. Len(s) - j \in N /\ Len(s) - j < n
      BY <1>2, <2>4, <2>5, <3>1
    <3> QED BY <1>2, <2>3, <3>1, <3>2
  <2> QED BY <2>4, <2>5
<1> QED BY <1>4, <1>5

\* It is a tree.
LEMMA FinishedIsTree ==
    ASSUME ForestIsSound, NEW s, Shaped(s), Exact(inUse, s), Finished(s)
    PROVE  IsTree(TreeOn(s), bocage.top, {})
<1> DEFINE T == TreeOn(s)
<1>1. NooksAre(s) /\ RootIs(s)
  BY DEF Shaped
<1>2. Len(s) \in Nat /\ DOMAIN s = 1 .. Len(s) /\ 1 \in DOMAIN s
  BY <1>1 DEF NooksAre, Finished
<1>3. /\ \A x : x \in Owners(T) <=> \E i \in DOMAIN s : x = s[i].or
      /\ T \subseteq Ordered
      /\ \A a \in T : \A b \in T : a.parent = b.parent => a = b
  BY OwnersOn
<1>4. \A a \in T : \E i \in DOMAIN s : a = Chosen(s, i) /\ a.parent = s[i].or
  BY <1>1, ChosenIs DEF TreeOn
<1>5. bocage.top \in Owners(T)
  BY <1>1, <1>2, <1>3 DEF RootIs
<1>6. Closed(Owners(T), T)
  <2> SUFFICES ASSUME NEW a \in T, NEW x \in Below(a) PROVE x \in Owners(T)
    BY DEF Closed
  <2>1. PICK i \in DOMAIN s : a = Chosen(s, i)
    BY <1>4
  <2>2. \E j \in DOMAIN s : s[j].or = x
    BY <2>1, KidOn
  <2> QED BY <1>3, <2>2
<1>7. ASSUME NEW S \in SUBSET Owners(T), bocage.top \in S, Closed(S, T) PROVE S = Owners(T)
  <2>1. \A i \in DOMAIN s : Chosen(s, i) \in T /\ Chosen(s, i).parent = s[i].or
    BY <1>1, ChosenIs DEF TreeOn
  <2>2. \A i \in DOMAIN s : s[i].or \in S => Below(Chosen(s, i)) \subseteq S
    BY <1>7, <2>1 DEF Closed
  <2>3. \A i \in DOMAIN s : s[i].or \in S
    BY <1>7, <2>2, StackFromTop
  <2> QED BY <1>3, <1>7, <2>3
<1>8. ASSUME NEW S \in SUBSET Owners(T), S # {}
      PROVE  \E a \in T : a.parent \in S /\ Below(a) \cap S = {}
  <2>1. PICK i \in DOMAIN s : s[i].or \in S /\ Below(Chosen(s, i)) \cap S = {}
    BY <1>8, NoCycleOn
  <2>2. Chosen(s, i) \in T /\ Chosen(s, i).parent = s[i].or
    BY <1>1, ChosenIs DEF TreeOn
  <2> QED BY <2>1, <2>2
<1>9. ASSUME NEW a \in T, NEW b \in T, NEW x \in Below(a) \cap Below(b), SpanOf(x) > 0
      PROVE  a = b
  <2>1. PICK i \in DOMAIN s : a = Chosen(s, i)
    BY <1>4
  <2>2. PICK j \in DOMAIN s : b = Chosen(s, j)
    BY <1>4
  <2>3. PICK k \in DOMAIN s : s[k].or = x /\ s[k].parent = i
    BY <2>1, KidOn
  <2>4. PICK l \in DOMAIN s : s[l].or = x /\ s[l].parent = j
    BY <2>2, KidOn
  <2>5. k = l
    BY <1>9, <2>3, <2>4 DEF Exact, Spanning
  <2> QED BY <2>1, <2>2, <2>3, <2>4, <2>5
<1> HIDE DEF T
<1>10. /\ \A a, b \in T : a.parent = b.parent => a = b
       /\ \A a, b \in T : \A x \in Below(a) \cap Below(b) : SpanOf(x) > 0 => a = b
  BY <1>3, <1>9
<1>11. IsTree(T, bocage.top, {})
  BY <1>3, <1>5, <1>6, <1>7, <1>8, <1>10 DEF IsTree
<1> QED BY <1>11 DEF T

\* It is the only tree that goes on from the stack, and not before the stack.
LEMMA FinishedIsNew ==
    ASSUME ForestIsSound, NEW s, Shaped(s), Exact(inUse, s), Finished(s)
    PROVE  /\ \A T : IsTree(T, bocage.top, {}) /\ Extends(T, s) <=> T = TreeOn(s)
           /\ ~ IsBefore(TreeOn(s), s)
<1> DEFINE C == TreeOn(s)
<1>1. NooksAre(s) /\ RootIs(s)
  BY DEF Shaped
<1>2. Len(s) \in Nat /\ DOMAIN s = 1 .. Len(s) /\ 1 \in DOMAIN s
  BY <1>1 DEF NooksAre, Finished
<1>3. \A i \in DOMAIN s : Chosen(s, i) \in C /\ Chosen(s, i).parent = s[i].or
  BY <1>1, ChosenIs DEF TreeOn
<1>4. IsTree(C, bocage.top, {}) /\ Extends(C, s)
  BY <1>3, FinishedIsTree DEF Extends
<1>5. ASSUME NEW T, IsTree(T, bocage.top, {}), Extends(T, s) PROVE T = C
  <2>1. C \subseteq T
    BY <1>5 DEF Extends, TreeOn
  <2>2. \A x : x \in Owners(C) <=> \E i \in DOMAIN s : x = s[i].or
    BY OwnersOn
  <2>3. ASSUME NEW a \in T, a.parent \in Owners(C) PROVE a \in C
    <3>1. PICK i \in DOMAIN s : a.parent = s[i].or
      BY <2>2, <2>3
    <3>2. Chosen(s, i) \in T /\ Chosen(s, i) \in C /\ Chosen(s, i).parent = a.parent
      BY <1>3, <2>1, <3>1
    <3>3. a = Chosen(s, i)
      BY <1>5, <3>2 DEF IsTree
    <3> QED BY <3>2, <3>3
  <2>4. Closed(Owners(C), T)
    <3>1. Closed(Owners(C), C)
      BY <1>4 DEF IsTree
    <3> QED BY <2>3, <3>1 DEF Closed
  <2>5. Owners(C) \subseteq Owners(T)
    BY <2>1 DEF Owners
  <2>6. bocage.top \in Owners(C)
    BY <1>4 DEF IsTree
  <2>7. Owners(C) = Owners(T)
    BY <1>5, <2>4, <2>5, <2>6 DEF IsTree
  <2>8. \A a \in T : a.parent \in Owners(T)
    BY DEF Owners
  <2> QED BY <2>1, <2>3, <2>7, <2>8
<1>6. ASSUME IsBefore(C, s) PROVE FALSE
  <2>1. PICK i \in DOMAIN s : \E c \in 1 .. (s[i].choice - 1) : order[s[i].or][c] \in C
    BY <1>6 DEF IsBefore
  <2>2. PICK c \in 1 .. (s[i].choice - 1) : order[s[i].or][c] \in C
    BY <2>1
  <2>3. s[i].choice \in Nat /\ s[i].or \in bocage.ors /\ s[i].choice \in DOMAIN order[s[i].or]
    <3>1. s[i] \in NookSet
      BY <1>1 DEF NooksAre
    <3> QED BY <1>1, <3>1, ChosenIs DEF NookSet
  <2>4. c \in DOMAIN order[s[i].or] /\ c # s[i].choice
    BY <2>2, <2>3 DEF ForestIsSound
  <2>5. order[s[i].or][c].parent = s[i].or
    BY <2>3, <2>4 DEF ForestIsSound, Divides
  <2>6. order[s[i].or][c] = Chosen(s, i)
    BY <1>3, <1>4, <2>2, <2>5 DEF IsTree
  <2>7. IsInjective(order[s[i].or])
    BY <2>3 DEF ForestIsSound
  <2> QED BY <2>3, <2>4, <2>6, <2>7 DEF Chosen, IsInjective
<1> QED BY <1>4, <1>5, <1>6

-----------------------------------------------------------------------------
(***************************************************************************)
(* How the steps on the stack s, which becomes t, move the search on.      *)
(***************************************************************************)
ChoiceKept(s, t, i) == t[i].or = s[i].or /\ t[i].choice = s[i].choice

\* The same choices.
LEMMA SearchStays ==
    ASSUME NEW s, NEW t, DOMAIN t = DOMAIN s, \A i \in DOMAIN s : ChoiceKept(s, t, i),
           \A i \in DOMAIN s : \A j \in 1 .. (i - 1) : j \in DOMAIN s, NEW T
    PROVE  (Extends(T, t) <=> Extends(T, s)) /\ (IsBefore(T, t) <=> IsBefore(T, s))
<1>1. \A i \in DOMAIN s : Chosen(t, i) = Chosen(s, i)
  BY DEF Chosen, ChoiceKept
<1>2. \A i \in DOMAIN s : \A j \in 1 .. (i - 1) : Chosen(t, j) = Chosen(s, j)
  BY <1>1
<1>3. ASSUME NEW i \in DOMAIN s
      PROVE  (/\ \A j \in 1 .. (i - 1) : Chosen(t, j) \in T
              /\ \E c \in 1 .. (t[i].choice - 1) : order[t[i].or][c] \in T)
             <=> /\ \A j \in 1 .. (i - 1) : Chosen(s, j) \in T
                 /\ \E c \in 1 .. (s[i].choice - 1) : order[s[i].or][c] \in T
  BY <1>2 DEF ChoiceKept
<1> QED BY <1>1, <1>3 DEF Extends, IsBefore

\* The next choice of the last nook: the trees that went on from the stack are before it.
LEMMA SearchChooses ==
    ASSUME ForestIsSound, NEW s, NooksAre(s), NEW n, n = Len(s), n \in DOMAIN s,
           NEW t, DOMAIN t = DOMAIN s, \A i \in DOMAIN s \ {n} : t[i] = s[i],
           t[n].or = s[n].or, t[n].choice = s[n].choice + 1, NEW T
    PROVE  IsBefore(T, t) <=> IsBefore(T, s) \/ Extends(T, s)
<1>1. DOMAIN s = 1 .. n /\ n \in Nat
  BY DEF NooksAre
<1>2. s[n].choice \in Nat \ {0} /\ Chosen(s, n) = order[s[n].or][s[n].choice]
  BY ChosenIs DEF Chosen
<1>3. \A i \in DOMAIN s : \A j \in 1 .. (i - 1) : Chosen(t, j) = Chosen(s, j)
  BY <1>1 DEF Chosen
<1>4. ASSUME IsBefore(T, t) PROVE IsBefore(T, s) \/ Extends(T, s)
  <2>1. PICK i \in DOMAIN s : /\ \A j \in 1 .. (i - 1) : Chosen(s, j) \in T
                              /\ \E c \in 1 .. (t[i].choice - 1) : order[t[i].or][c] \in T
    BY <1>3, <1>4 DEF IsBefore
  <2>2. CASE i # n
    BY <2>1, <2>2 DEF IsBefore
  <2>3. CASE i = n
    <3>1. PICK c \in 1 .. s[n].choice : order[s[n].or][c] \in T
      BY <1>2, <2>1, <2>3
    <3>2. CASE c = s[n].choice
      <4>1. \A j \in DOMAIN s : j = n \/ j \in 1 .. (n - 1)
        BY <1>1
      <4> QED BY <1>2, <2>1, <2>3, <3>1, <3>2, <4>1 DEF Extends
    <3>3. CASE c # s[n].choice
      <4>1. c \in 1 .. (s[n].choice - 1)
        BY <1>2, <3>3
      <4> QED BY <2>1, <2>3, <3>1, <4>1 DEF IsBefore
    <3> QED BY <3>2, <3>3
  <2> QED BY <2>2, <2>3
<1>5. ASSUME IsBefore(T, s) PROVE IsBefore(T, t)
  <2>1. PICK i \in DOMAIN s : /\ \A j \in 1 .. (i - 1) : Chosen(t, j) \in T
                              /\ \E c \in 1 .. (s[i].choice - 1) : order[s[i].or][c] \in T
    BY <1>3, <1>5 DEF IsBefore
  <2>2. PICK c \in 1 .. (s[i].choice - 1) : order[s[i].or][c] \in T
    BY <2>1
  <2>3. c \in 1 .. (t[i].choice - 1) /\ t[i].or = s[i].or
    BY <1>2, <2>2
  <2> QED BY <2>1, <2>2, <2>3 DEF IsBefore
<1>6. ASSUME Extends(T, s) PROVE IsBefore(T, t)
  <2>1. \A j \in 1 .. (n - 1) : Chosen(t, j) \in T
    BY <1>1, <1>3, <1>6 DEF Extends
  <2>2. s[n].choice \in 1 .. (t[n].choice - 1) /\ order[t[n].or][s[n].choice] \in T
    BY <1>2, <1>6 DEF Extends
  <2> QED BY <2>1, <2>2 DEF IsBefore
<1> QED BY <1>4, <1>5, <1>6

\* A push: the trees before the stack are the same.
LEMMA SearchPushes ==
    ASSUME NEW s, NEW t, NEW n \in Nat, DOMAIN s = 1 .. n, DOMAIN t = 1 .. (n + 1),
           \A i \in DOMAIN s : ChoiceKept(s, t, i), t[n + 1].choice = 1, NEW T
    PROVE  IsBefore(T, t) <=> IsBefore(T, s)
<1>1. \A i \in 1 .. (n + 1) : \A j \in 1 .. (i - 1) : Chosen(t, j) = Chosen(s, j)
  BY DEF Chosen, ChoiceKept
<1>2. ASSUME IsBefore(T, t) PROVE IsBefore(T, s)
  <2>1. PICK i \in DOMAIN t : /\ \A j \in 1 .. (i - 1) : Chosen(s, j) \in T
                              /\ \E c \in 1 .. (t[i].choice - 1) : order[t[i].or][c] \in T
    BY <1>1, <1>2 DEF IsBefore
  <2>2. i # n + 1
    BY <2>1
  <2>3. i \in DOMAIN s /\ ChoiceKept(s, t, i)
    BY <2>2
  <2> QED BY <2>1, <2>3 DEF IsBefore, ChoiceKept
<1>3. ASSUME IsBefore(T, s) PROVE IsBefore(T, t)
  <2>1. PICK i \in DOMAIN s : /\ \A j \in 1 .. (i - 1) : Chosen(s, j) \in T
                              /\ \E c \in 1 .. (s[i].choice - 1) : order[s[i].or][c] \in T
    BY <1>3 DEF IsBefore
  <2>2. i \in DOMAIN t /\ ChoiceKept(s, t, i) /\ \A j \in 1 .. (i - 1) : Chosen(t, j) \in T
    BY <1>1, <2>1
  <2> QED BY <2>1, <2>2 DEF IsBefore, ChoiceKept
<1> QED BY <1>2, <1>3

\* A nook that has had all its choices is taken off: a tree that goes on from the rest of
\* the stack has one of them.
LEMMA SearchPops ==
    ASSUME ForestIsSound, NEW s, Shaped(s), NEW n, n = Len(s), n \in DOMAIN s,
           ~ HasChoice(s[n].or, s[n].choice + 1),
           NEW t, DOMAIN t = 1 .. (n - 1), \A i \in DOMAIN t : ChoiceKept(s, t, i),
           NEW T, IsTree(T, bocage.top, {})
    PROVE  IsBefore(T, t) \/ Extends(T, t) <=> IsBefore(T, s) \/ Extends(T, s)
<1>1. NooksAre(s) /\ RootIs(s) /\ KidsAre(s)
  BY DEF Shaped
<1>2. DOMAIN s = 1 .. n /\ n \in Nat
  BY <1>1 DEF NooksAre
<1>3. \A i \in DOMAIN t : Chosen(t, i) = Chosen(s, i) /\ i \in DOMAIN s
  BY <1>2 DEF Chosen, ChoiceKept
<1>4. \A i \in DOMAIN s : \A j \in 1 .. (i - 1) : j \in DOMAIN t
  BY <1>2
<1>5. Extends(T, t) <=> \A j \in 1 .. (n - 1) : Chosen(s, j) \in T
  BY <1>3 DEF Extends
<1>6. IsBefore(T, t) <=>
        \E i \in DOMAIN t :
           /\ \A j \in 1 .. (i - 1) : Chosen(s, j) \in T
           /\ \E c \in 1 .. (s[i].choice - 1) : order[s[i].or][c] \in T
  <2>1. ASSUME NEW i \in DOMAIN t
        PROVE  (/\ \A j \in 1 .. (i - 1) : Chosen(t, j) \in T
                /\ \E c \in 1 .. (t[i].choice - 1) : order[t[i].or][c] \in T)
               <=> /\ \A j \in 1 .. (i - 1) : Chosen(s, j) \in T
                   /\ \E c \in 1 .. (s[i].choice - 1) : order[s[i].or][c] \in T
    <3>1. \A j \in 1 .. (i - 1) : Chosen(t, j) = Chosen(s, j)
      BY <1>3, <1>4
    <3>2. ChoiceKept(s, t, i)
      OBVIOUS
    <3> QED BY <3>1, <3>2 DEF ChoiceKept
  <2> QED BY <2>1 DEF IsBefore
<1>7. ASSUME Extends(T, t) PROVE IsBefore(T, s) \/ Extends(T, s)
  <2> DEFINE o == s[n].or
  <2>1. o \in Owners(T)
    <3>1. CASE n = 1
      <4>1. o = bocage.top
        BY <1>1, <3>1 DEF RootIs
      <4> QED BY <4>1 DEF IsTree
    <3>2. CASE n # 1
      <4>1. PICK p \in 1 .. (n - 1) : o = SideOf(Chosen(s, p), KidSide(s[n]))
        BY <1>1, <3>2 DEF KidsAre
      <4>2. KidSide(s[n]) \in Sides /\ o \in bocage.ors
        BY <1>1, ChosenIs DEF KidSide, Sides
      <4>3. o \in Below(Chosen(s, p)) /\ Chosen(s, p) \in T
        BY <1>5, <1>7, <4>1, <4>2, BelowIsSide
      <4>4. Chosen(s, p).parent \in Owners(T)
        BY <4>3 DEF Owners
      <4> QED BY <4>3, <4>4 DEF IsTree, Closed
    <3> QED BY <3>1, <3>2
  <2>2. PICK a \in T : a.parent = o
    BY <2>1 DEF Owners
  <2>3. a \in Range(order[o])
    BY <2>2, OrderedAnds DEF IsTree
  <2>4. PICK c \in DOMAIN order[o] : a = order[o][c]
    BY <2>3 DEF Range
  <2>5. /\ c \in 1 .. Len(order[o]) /\ Len(order[o]) \in Nat
        /\ s[n].choice \in Nat /\ s[n].choice <= Len(order[o])
    <3>1. o \in bocage.ors
      BY <1>1, ChosenIs
    <3>2. c \in 1 .. Len(order[o])
      BY <2>4, <3>1 DEF ForestIsSound
    <3> QED BY <1>1, <3>2, ChosenIs
  <2>6. s[n].choice = Len(order[o])
    BY <2>5 DEF HasChoice
  <2>7. CASE c = s[n].choice
    <3>1. Chosen(s, n) \in T
      BY <2>4, <2>7 DEF Chosen
    <3>2. \A i \in DOMAIN s : i = n \/ i \in 1 .. (n - 1)
      BY <1>2
    <3> QED BY <1>5, <1>7, <3>1, <3>2 DEF Extends
  <2>8. CASE c # s[n].choice
    <3>1. c \in 1 .. (s[n].choice - 1)
      BY <2>5, <2>6, <2>8
    <3> QED BY <1>5, <1>7, <2>4, <3>1 DEF IsBefore
  <2> QED BY <2>7, <2>8
<1>8. ASSUME IsBefore(T, t) PROVE IsBefore(T, s)
  BY <1>3, <1>6, <1>8 DEF IsBefore
<1>9. ASSUME Extends(T, s) PROVE Extends(T, t)
  BY <1>3, <1>9 DEF Extends
<1>10. ASSUME IsBefore(T, s) PROVE IsBefore(T, t) \/ Extends(T, t)
  <2>1. PICK i \in DOMAIN s : /\ \A j \in 1 .. (i - 1) : Chosen(s, j) \in T
                              /\ \E c \in 1 .. (s[i].choice - 1) : order[s[i].or][c] \in T
    BY <1>10 DEF IsBefore
  <2>2. CASE i = n
    BY <1>5, <2>1, <2>2
  <2>3. CASE i # n
    <3>1. i \in DOMAIN t
      BY <1>2, <2>3
    <3> QED BY <1>6, <2>1, <3>1
  <2> QED BY <2>2, <2>3
<1> QED BY <1>7, <1>8, <1>9, <1>10

-----------------------------------------------------------------------------
(***************************************************************************)
(* How the steps keep the shape of the stack.                              *)
(***************************************************************************)
\* Only the marks of the sides that are done may differ.
SamePlace(nook, other) ==
    /\ other.or = nook.or /\ other.choice = nook.choice /\ other.parent = nook.parent
    /\ other.isCause = nook.isCause /\ other.isPred = nook.isPred

\* Kids.
LEMMA KidIs ==
    ASSUME NEW s, KidsAre(s), NooksAre(s), NEW i, NEW j, NEW side, IsKid(s, j, i, side)
    PROVE  /\ j \in DOMAIN s /\ j # 1 /\ s[j].parent = i /\ KidSide(s[j]) = side
           /\ i \in 1 .. (j - 1) /\ i \in DOMAIN s /\ side \in Sides
<1>1. j \in DOMAIN s /\ j # 1 /\ s[j].parent = i /\ KidSide(s[j]) = side
  BY DEF IsKid
<1>2. i \in 1 .. (j - 1)
  BY <1>1 DEF KidsAre
<1>3. DOMAIN s = 1 .. Len(s) /\ Len(s) \in Nat
  BY DEF NooksAre
<1> QED BY <1>1, <1>2, <1>3 DEF KidSide, Sides

\* The marks of one nook.
LEMMA MarkShape ==
    ASSUME ForestIsSound, NEW s, Shaped(s), NEW w \in DOMAIN s, NEW t,
           t = [i \in DOMAIN s |-> t[i]], \A i \in DOMAIN s \ {w} : t[i] = s[i],
           t[w] \in NookSet, SamePlace(s[w], t[w])
    PROVE  /\ DOMAIN t = DOMAIN s /\ Len(t) = Len(s)
           /\ \A i \in DOMAIN s : SamePlace(s[i], t[i])
           /\ NooksAre(t) /\ RootIs(t) /\ KidsAre(t) /\ KidsDiffer(t)
           /\ \A i \in DOMAIN s : Chosen(t, i) = Chosen(s, i)
           /\ \A j : \A i : \A side : IsKid(t, j, i, side) <=> IsKid(s, j, i, side)
<1>1. NooksAre(s) /\ RootIs(s) /\ KidsAre(s) /\ KidsDiffer(s)
  BY DEF Shaped
<1>2. Len(s) \in Nat /\ DOMAIN s = 1 .. Len(s) /\ \A i \in DOMAIN s : s[i] \in NookSet
  BY <1>1 DEF NooksAre
<1>3. DOMAIN t = DOMAIN s
  OBVIOUS
<1>4. \A i \in DOMAIN s : t[i] \in NookSet
  BY <1>2
<1>5. t \in Seq(NookSet) /\ Len(t) = Len(s)
  <2>1. t \in [1 .. Len(s) -> NookSet]
    BY <1>2, <1>4
  <2> QED BY <1>2, <2>1
<1>6. \A i \in DOMAIN s : SamePlace(s[i], t[i])
  BY DEF SamePlace
<1>7. \A i \in DOMAIN s : Chosen(t, i) = Chosen(s, i) /\ KidSide(t[i]) = KidSide(s[i])
  BY <1>6 DEF SamePlace, Chosen, KidSide
<1>8. NooksAre(t) /\ RootIs(t)
  BY <1>1, <1>3, <1>5, <1>6 DEF NooksAre, RootIs, SamePlace
<1>9. KidsAre(t)
  <2> SUFFICES ASSUME NEW i \in DOMAIN s \ {1}
               PROVE  /\ t[i].parent \in 1 .. (i - 1)
                      /\ t[i].isPred <=> ~ t[i].isCause
                      /\ t[i].or = SideOf(Chosen(t, t[i].parent), KidSide(t[i]))
    BY <1>3 DEF KidsAre
  <2>1. PICK p : p = s[i].parent /\ p \in 1 .. (i - 1) /\ p \in DOMAIN s
    BY <1>1, <1>2 DEF KidsAre
  <2>2. Chosen(t, p) = Chosen(s, p) /\ SamePlace(s[i], t[i])
    BY <1>6, <1>7, <2>1
  <2> QED BY <1>1, <1>7, <2>1, <2>2 DEF KidsAre, SamePlace
<1>10. KidsDiffer(t)
  BY <1>1, <1>3, <1>6, <1>7 DEF KidsDiffer, SamePlace
<1>11. \A j : \A i : \A side : IsKid(t, j, i, side) <=> IsKid(s, j, i, side)
  BY <1>3, <1>6, <1>7 DEF IsKid, SamePlace
<1> QED BY <1>3, <1>5, <1>6, <1>7, <1>8, <1>9, <1>10, <1>11

\* The marks of one nook, of sides that have their nooks, or none that needs it.
LEMMA MarkKeepsShape ==
    ASSUME ForestIsSound, NEW s, Shaped(s), NEW w \in DOMAIN s, NEW t,
           t = [i \in DOMAIN s |-> t[i]], \A i \in DOMAIN s \ {w} : t[i] = s[i],
           t[w] \in NookSet, SamePlace(s[w], t[w]),
           \A side \in Sides : SideOf(Chosen(s, w), side) \in bocage.ors =>
               (SideDone(t[w], side) <=> SideDone(s[w], side))
    PROVE  /\ Shaped(t)
           /\ \A i \in DOMAIN s : \A side \in Sides : IsDue(t, i, side) <=> IsDue(s, i, side)
<1>1. /\ DOMAIN t = DOMAIN s
      /\ NooksAre(t) /\ RootIs(t) /\ KidsAre(t) /\ KidsDiffer(t)
      /\ \A i \in DOMAIN s : Chosen(t, i) = Chosen(s, i)
      /\ \A j : \A i : \A side : IsKid(t, j, i, side) <=> IsKid(s, j, i, side)
  BY MarkShape
<1>2. SidesAre(s)
  BY DEF Shaped
<1>3. ASSUME NEW i \in DOMAIN s, NEW side \in Sides, SideOf(Chosen(s, i), side) \in bocage.ors
      PROVE  SideDone(t[i], side) <=> SideDone(s[i], side)
  <2>1. CASE i = w
    BY <1>3, <2>1
  <2>2. CASE i # w
    <3>1. t[i] = s[i]
      BY <2>2
    <3> QED BY <3>1
  <2> QED BY <2>1, <2>2
<1>4. SidesAre(t)
  <2> SUFFICES ASSUME NEW i \in DOMAIN s, NEW side \in Sides,
                      SideOf(Chosen(s, i), side) \in bocage.ors
               PROVE  SideDone(t[i], side) <=> \E j \in DOMAIN s : IsKid(t, j, i, side)
    BY <1>1 DEF SidesAre
  <2>1. SideDone(s[i], side) <=> \E j \in DOMAIN s : IsKid(s, j, i, side)
    BY <1>2 DEF SidesAre
  <2> QED BY <1>1, <1>3, <2>1
<1>5. \A i \in DOMAIN s : \A side \in Sides : IsDue(t, i, side) <=> IsDue(s, i, side)
  BY <1>1, <1>3 DEF IsDue
<1> QED BY <1>1, <1>4, <1>5 DEF Shaped

\* The last nook has no kids.
LEMMA LastHasNoKid ==
    ASSUME NEW s, NooksAre(s), KidsAre(s), NEW j, NEW side
    PROVE  ~ IsKid(s, j, Len(s), side)
<1> SUFFICES ASSUME IsKid(s, j, Len(s), side) PROVE FALSE
  OBVIOUS
<1>1. j \in DOMAIN s /\ Len(s) \in 1 .. (j - 1)
  BY KidIs
<1> QED BY <1>1 DEF NooksAre

\* A nook with its next choice.
NextNook(nook, other) ==
    /\ other \in NookSet /\ other.or = nook.or /\ other.choice = nook.choice + 1
    /\ other.parent = nook.parent /\ other.isCause = nook.isCause /\ other.isPred = nook.isPred
    /\ ~ other.causeDone /\ ~ other.predDone

\* The change that NextChoice makes to the last nook.
LEMMA NextNookIs ==
    ASSUME NEW nook \in NookSet, NEW m, m = nook.choice + 1,
           NEW other, other = [nook EXCEPT !.choice = m, !.causeDone = FALSE, !.predDone = FALSE]
    PROVE  NextNook(nook, other)
<1>1. m \in Nat \ {0}
  BY DEF NookSet
<1> QED BY <1>1 DEF NextNook, NookSet

\* The next choice of the last nook.
LEMMA ChoiceKeepsShape ==
    ASSUME ForestIsSound, NEW s, Shaped(s), NEW n, n = Len(s), n \in DOMAIN s,
           HasChoice(s[n].or, s[n].choice + 1), NEW t,
           t = [i \in DOMAIN s |-> t[i]], \A i \in DOMAIN s \ {n} : t[i] = s[i],
           NextNook(s[n], t[n])
    PROVE  Shaped(t) /\ DOMAIN t = DOMAIN s /\ t[n].or = s[n].or /\ t[n].choice = s[n].choice + 1
<1>1. NooksAre(s) /\ RootIs(s) /\ KidsAre(s) /\ KidsDiffer(s) /\ SidesAre(s)
  BY DEF Shaped
<1>2. n \in Nat /\ DOMAIN s = 1 .. n /\ \A i \in DOMAIN s : s[i] \in NookSet
  BY <1>1 DEF NooksAre
<1>3. /\ t[n] \in NookSet /\ t[n].or = s[n].or /\ t[n].choice = s[n].choice + 1
      /\ t[n].parent = s[n].parent /\ t[n].isCause = s[n].isCause /\ t[n].isPred = s[n].isPred
      /\ ~ t[n].causeDone /\ ~ t[n].predDone
  BY DEF NextNook
<1>4. DOMAIN t = DOMAIN s /\ \A i \in DOMAIN s : t[i] \in NookSet
  BY <1>2, <1>3
<1>5. NooksAre(t)
  <2>1. t \in [1 .. n -> NookSet]
    BY <1>2, <1>4
  <2>2. t \in Seq(NookSet)
    BY <1>2, <2>1
  <2>3. \A i \in DOMAIN t : t[i].choice <= Len(order[t[i].or])
    BY <1>1, <1>3, <1>4 DEF NooksAre, HasChoice
  <2> QED BY <2>2, <2>3 DEF NooksAre
<1>6. \A i \in DOMAIN s : /\ t[i].parent = s[i].parent /\ KidSide(t[i]) = KidSide(s[i])
                          /\ t[i].or = s[i].or /\ t[i].isPred = s[i].isPred
                          /\ t[i].isCause = s[i].isCause
  BY <1>3 DEF KidSide
<1>7. \A i \in DOMAIN s \ {n} : Chosen(t, i) = Chosen(s, i)
  BY DEF Chosen
<1>8. RootIs(t) /\ KidsDiffer(t)
  BY <1>1, <1>4, <1>6 DEF RootIs, KidsDiffer
<1>9. KidsAre(t)
  <2> SUFFICES ASSUME NEW i \in DOMAIN s \ {1}
               PROVE  /\ t[i].parent \in 1 .. (i - 1)
                      /\ t[i].isPred <=> ~ t[i].isCause
                      /\ t[i].or = SideOf(Chosen(t, t[i].parent), KidSide(t[i]))
    BY <1>4 DEF KidsAre
  <2>1. PICK p : p = s[i].parent /\ p \in 1 .. (i - 1) /\ p \in DOMAIN s \ {n}
    BY <1>1, <1>2 DEF KidsAre
  <2>2. Chosen(t, p) = Chosen(s, p)
    BY <1>7, <2>1
  <2> QED BY <1>1, <1>6, <2>1, <2>2 DEF KidsAre
<1>10. \A j : \A i : \A side : IsKid(t, j, i, side) <=> IsKid(s, j, i, side)
  BY <1>4, <1>6 DEF IsKid
<1>11. SidesAre(t)
  <2> SUFFICES ASSUME NEW i \in DOMAIN s, NEW side \in Sides,
                      SideOf(Chosen(t, i), side) \in bocage.ors
               PROVE  SideDone(t[i], side) <=> \E j \in DOMAIN s : IsKid(s, j, i, side)
    BY <1>4, <1>10 DEF SidesAre
  <2>1. CASE i = n
    <3>1. ~ SideDone(t[i], side)
      BY <1>3, <2>1 DEF SideDone
    <3>2. \A j : ~ IsKid(s, j, i, side)
      BY <1>1, <2>1, LastHasNoKid
    <3> QED BY <3>1, <3>2
  <2>2. CASE i # n
    <3>1. t[i] = s[i] /\ Chosen(t, i) = Chosen(s, i)
      BY <1>7, <2>2
    <3> QED BY <1>1, <3>1 DEF SidesAre
  <2> QED BY <2>1, <2>2
<1> QED BY <1>3, <1>4, <1>5, <1>8, <1>9, <1>11 DEF Shaped

\* The last nook is taken off, and its side of its parent is no longer done.
LEMMA PopKeepsShape ==
    ASSUME ForestIsSound, NEW s, Shaped(s), NEW n, n = Len(s), n \in DOMAIN s,
           NEW t, t \in Seq(NookSet), DOMAIN t = 1 .. (n - 1),
           \A i \in DOMAIN t : SamePlace(s[i], t[i]),
           \A i \in DOMAIN t : \A side \in Sides :
               SideDone(t[i], side) <=> SideDone(s[i], side) /\ ~ IsKid(s, n, i, side)
    PROVE  Shaped(t)
<1>1. NooksAre(s) /\ RootIs(s) /\ KidsAre(s) /\ KidsDiffer(s) /\ SidesAre(s)
  BY DEF Shaped
<1>2. n \in Nat /\ DOMAIN s = 1 .. n /\ DOMAIN t \subseteq DOMAIN s
  BY <1>1 DEF NooksAre
<1>3. \A i \in DOMAIN t : Chosen(t, i) = Chosen(s, i) /\ KidSide(t[i]) = KidSide(s[i])
  BY DEF SamePlace, Chosen, KidSide
<1>4. NooksAre(t) /\ RootIs(t)
  BY <1>1, <1>2 DEF NooksAre, RootIs, SamePlace
<1>5. KidsAre(t)
  <2> SUFFICES ASSUME NEW i \in DOMAIN t \ {1}
               PROVE  /\ t[i].parent \in 1 .. (i - 1)
                      /\ t[i].isPred <=> ~ t[i].isCause
                      /\ t[i].or = SideOf(Chosen(t, t[i].parent), KidSide(t[i]))
    BY DEF KidsAre
  <2>1. PICK p : p = s[i].parent /\ p \in 1 .. (i - 1) /\ p \in DOMAIN t
    BY <1>1, <1>2 DEF KidsAre
  <2>2. Chosen(t, p) = Chosen(s, p) /\ SamePlace(s[i], t[i])
    BY <1>3, <2>1
  <2> QED BY <1>1, <1>2, <1>3, <2>1, <2>2 DEF KidsAre, SamePlace
<1>6. KidsDiffer(t)
  BY <1>1, <1>2, <1>3 DEF KidsDiffer, SamePlace
<1>7. \A j \in DOMAIN t : \A i : \A side : IsKid(t, j, i, side) <=> IsKid(s, j, i, side)
  BY <1>2, <1>3 DEF IsKid, SamePlace
<1>8. SidesAre(t)
  <2> SUFFICES ASSUME NEW i \in DOMAIN t, NEW side \in Sides,
                      SideOf(Chosen(s, i), side) \in bocage.ors
               PROVE  SideDone(t[i], side) <=> \E j \in DOMAIN t : IsKid(s, j, i, side)
    BY <1>3, <1>7 DEF SidesAre
  <2>1. SideDone(s[i], side) <=> \E j \in DOMAIN s : IsKid(s, j, i, side)
    BY <1>1, <1>2 DEF SidesAre
  <2>2. \A j \in DOMAIN s : j = n \/ j \in DOMAIN t
    BY <1>2
  <2>3. CASE IsKid(s, n, i, side)
    <3>1. ~ SideDone(t[i], side)
      BY <2>3
    <3>2. ASSUME NEW j \in DOMAIN t, IsKid(s, j, i, side) PROVE FALSE
      <4>1. j = n
        BY <1>1, <2>3, <3>2 DEF KidsDiffer, IsKid
      <4> QED BY <1>2, <4>1
    <3> QED BY <3>1, <3>2
  <2>4. CASE ~ IsKid(s, n, i, side)
    <3>1. SideDone(t[i], side) <=> SideDone(s[i], side)
      BY <2>4
    <3> QED BY <1>2, <2>1, <2>2, <2>4, <3>1
  <2> QED BY <2>3, <2>4
<1> QED BY <1>4, <1>5, <1>6, <1>8 DEF Shaped

\* A nook is pushed for a side that is due.
LEMMA PushKeepsShape ==
    ASSUME ForestIsSound, NEW s, Shaped(s), NEW n, n = Len(s) + 1, NEW w \in DOMAIN s,
           NEW side \in Sides, IsDue(s, w, side),
           NEW t, t \in Seq(NookSet), DOMAIN t = 1 .. n,
           \A i \in DOMAIN s : SamePlace(s[i], t[i]),
           \A i \in DOMAIN s \ {w} : t[i] = s[i],
           SideDone(t[w], side),
           \A other \in Sides \ {side} : SideOf(Chosen(s, w), other) \in bocage.ors =>
               (SideDone(t[w], other) <=> SideDone(s[w], other)),
           t[n].or = SideOf(Chosen(s, w), side), t[n].choice = 1, t[n].parent = w,
           KidSide(t[n]) = side, t[n].isPred <=> ~ t[n].isCause,
           ~ t[n].causeDone, ~ t[n].predDone
    PROVE  Shaped(t)
<1>1. NooksAre(s) /\ RootIs(s) /\ KidsAre(s) /\ KidsDiffer(s) /\ SidesAre(s)
  BY DEF Shaped
<1>2. n \in Nat /\ DOMAIN s = 1 .. (n - 1) /\ w \in 1 .. (n - 1) /\ n # 1
      /\ DOMAIN t = DOMAIN s \cup {n} /\ n \notin DOMAIN s
  BY <1>1 DEF NooksAre
<1>3. \A i \in DOMAIN s : Chosen(t, i) = Chosen(s, i) /\ KidSide(t[i]) = KidSide(s[i])
  BY DEF SamePlace, Chosen, KidSide
<1>4. NooksAre(t)
  <2>1. Len(order[t[n].or]) \in Nat \ {0}
    BY DEF IsDue, ForestIsSound
  <2>2. \A i \in DOMAIN t : t[i].choice <= Len(order[t[i].or])
    BY <1>1, <1>2, <2>1 DEF NooksAre, SamePlace
  <2> QED BY <2>2 DEF NooksAre
<1>5. RootIs(t)
  BY <1>1, <1>2 DEF RootIs, SamePlace
<1>6. KidsAre(t)
  <2> SUFFICES ASSUME NEW i \in DOMAIN t \ {1}
               PROVE  /\ t[i].parent \in 1 .. (i - 1)
                      /\ t[i].isPred <=> ~ t[i].isCause
                      /\ t[i].or = SideOf(Chosen(t, t[i].parent), KidSide(t[i]))
    BY DEF KidsAre
  <2>1. CASE i = n
    BY <1>2, <1>3, <2>1
  <2>2. CASE i # n
    <3>1. PICK p : p = s[i].parent /\ p \in 1 .. (i - 1) /\ p \in DOMAIN s
      BY <1>1, <1>2, <2>2 DEF KidsAre
    <3>2. Chosen(t, p) = Chosen(s, p) /\ SamePlace(s[i], t[i])
      BY <1>2, <1>3, <2>2, <3>1
    <3> QED BY <1>1, <1>2, <1>3, <2>2, <3>1, <3>2 DEF KidsAre, SamePlace
  <2> QED BY <2>1, <2>2
<1>7. \A j \in DOMAIN s : \A i : \A sd : IsKid(t, j, i, sd) <=> IsKid(s, j, i, sd)
  BY <1>2, <1>3 DEF IsKid, SamePlace
<1>8. \A i : \A sd : IsKid(t, n, i, sd) <=> i = w /\ sd = side
  BY <1>2 DEF IsKid
<1>9. \A j \in DOMAIN s : ~ IsKid(s, j, w, side)
  BY <1>1 DEF SidesAre, IsDue
<1>10. KidsDiffer(t)
  <2>1. ASSUME NEW i \in DOMAIN s \ {1}
        PROVE  ~ (t[i].parent = w /\ KidSide(t[i]) = side)
    BY <1>3, <1>9 DEF IsKid, SamePlace
  <2>2. \A i \in DOMAIN t \ {1} : i = n \/ i \in DOMAIN s \ {1}
    BY <1>2
  <2>3. \A i \in DOMAIN s \ {1} : \A j \in DOMAIN s \ {1} :
            t[i].parent = t[j].parent /\ KidSide(t[i]) = KidSide(t[j]) => i = j
    BY <1>1, <1>3 DEF KidsDiffer, SamePlace
  <2> QED BY <2>1, <2>2, <2>3 DEF KidsDiffer
<1>11. SidesAre(t)
  <2> SUFFICES ASSUME NEW i \in DOMAIN t, NEW sd \in Sides,
                      SideOf(Chosen(t, i), sd) \in bocage.ors
               PROVE  SideDone(t[i], sd) <=> \E j \in DOMAIN t : IsKid(t, j, i, sd)
    BY DEF SidesAre
  <2>1. CASE i = n
    <3>1. ~ SideDone(t[i], sd)
      BY <2>1 DEF SideDone
    <3>2. ASSUME NEW j \in DOMAIN t, IsKid(t, j, i, sd) PROVE FALSE
      <4>1. i \in 1 .. (j - 1)
        BY <1>4, <1>6, <3>2, KidIs
      <4> QED BY <1>2, <2>1, <4>1
    <3> QED BY <3>1, <3>2
  <2>2. CASE i # n /\ i = w /\ sd = side
    BY <1>2, <1>8, <2>2
  <2>3. CASE i # n /\ ~ (i = w /\ sd = side)
    <3>1. i \in DOMAIN s /\ SideOf(Chosen(s, i), sd) \in bocage.ors
      BY <1>2, <1>3, <2>3
    <3>2. SideDone(t[i], sd) <=> SideDone(s[i], sd)
      <4>1. CASE i = w
        BY <2>3, <3>1, <4>1
      <4>2. CASE i # w
        <5>1. t[i] = s[i]
          BY <3>1, <4>2
        <5> QED BY <5>1
      <4> QED BY <4>1, <4>2
    <3>3. SideDone(s[i], sd) <=> \E j \in DOMAIN s : IsKid(s, j, i, sd)
      BY <1>1, <3>1 DEF SidesAre
    <3>4. ~ IsKid(t, n, i, sd)
      BY <1>8, <2>3
    <3> QED BY <1>2, <1>7, <3>2, <3>3, <3>4
  <2> QED BY <2>1, <2>2, <2>3
<1> QED BY <1>4, <1>5, <1>6, <1>10, <1>11 DEF Shaped

\* The empty stack, and that of the top or-node alone.
LEMMA StartShapes ==
    /\ Shaped(<<>>)
    /\ ForestIsSound => \A nook : nook = Nook(bocage.top, 0, FALSE, FALSE) => Shaped(<<nook>>)
<1>1. Shaped(<<>>)
  BY DEF Shaped, NooksAre, RootIs, KidsAre, KidsDiffer, SidesAre
<1>2. ASSUME ForestIsSound, NEW nook, nook = Nook(bocage.top, 0, FALSE, FALSE)
      PROVE  Shaped(<<nook>>)
  <2>1. /\ nook \in NookSet /\ nook.or = bocage.top /\ nook.choice = 1
        /\ ~ nook.isCause /\ ~ nook.isPred /\ ~ nook.causeDone /\ ~ nook.predDone
    BY <1>2 DEF Nook, NookSet, ForestIsSound
  <2>2. Len(order[nook.or]) \in Nat \ {0}
    BY <1>2, <2>1 DEF ForestIsSound
  <2>3. PICK s : s = <<nook>>
    OBVIOUS
  <2>4. s \in Seq(NookSet) /\ DOMAIN s = {1} /\ s[1] = nook
    BY <2>1, <2>3
  <2>5. \A i \in DOMAIN s : \A side \in Sides :
            ~ SideDone(s[i], side) /\ \A j \in DOMAIN s : ~ IsKid(s, j, i, side)
    BY <2>1, <2>4 DEF SideDone, IsKid
  <2>6. Shaped(s)
    BY <2>1, <2>2, <2>4, <2>5 DEF Shaped, NooksAre, RootIs, KidsAre, KidsDiffer, SidesAre
  <2> QED BY <2>3, <2>6
<1> QED BY <1>1, <1>2

-----------------------------------------------------------------------------
(***************************************************************************)
(* The search.                                                             *)
(***************************************************************************)
\* What the trees found are: those before the stack and, unless the stack is being
\* expanded, those that go on from it.
Passed(T) ==
    \/ exhausted
    \/ IsBefore(T, nooks)
    \/ (turn = "iterate" \/ (turn = "idle" /\ parseCount > 0)) /\ Extends(T, nooks)

SearchInv ==
    ForestIsSound /\ ~ bocage.nulling /\ turn # "none" =>
        /\ Shaped(nooks)
        /\ turn = "expand" => DueIn(nooks, worklist)
        /\ exhausted => turn = "idle"
        /\ IsFiniteSet(parses) /\ parseCount = Cardinality(parses)
        /\ \A T : T \in parses <=> IsTree(T, bocage.top, {}) /\ Passed(T)

\* While there is a tree its forest stays, and so does what is said of it.
LEMMA SoundStays ==
    ASSUME UNCHANGED <<bocage, order>>
    PROVE  ForestIsSound' <=> ForestIsSound
BY DEF ForestIsSound, Divides, Below, SpanOf

LEMMA TreeStays ==
    ASSUME UNCHANGED <<bocage, order>>, NEW T
    PROVE  IsTree(T, bocage.top, {})' <=> IsTree(T, bocage.top, {})
BY DEF IsTree, Ordered, Owners, Closed, Below, SpanOf

LEMMA ShapeStays ==
    ASSUME UNCHANGED <<bocage, order>>, NEW t, t = nooks'
    PROVE  Shaped(nooks)' <=> Shaped(t)
<1>1. NooksAre(nooks)' <=> NooksAre(t)
  BY DEF NooksAre, NookSet
<1>2. RootIs(nooks)' <=> RootIs(t)
  BY DEF RootIs
<1>3. KidsAre(nooks)' <=> KidsAre(t)
  BY DEF KidsAre, Chosen, SideOf, KidSide
<1>4. KidsDiffer(nooks)' <=> KidsDiffer(t)
  BY DEF KidsDiffer, KidSide
<1>5. SidesAre(nooks)' <=> SidesAre(t)
  BY DEF SidesAre, Chosen, SideOf, SideDone, IsKid, KidSide
<1> QED BY <1>1, <1>2, <1>3, <1>4, <1>5 DEF Shaped

LEMMA DueStays ==
    ASSUME UNCHANGED <<bocage, order>>, NEW t, t = nooks', NEW work, work = worklist'
    PROVE  DueIn(nooks, worklist)' <=> DueIn(t, work)
BY DEF DueIn, IsDue, Chosen, SideOf, SideDone

LEMMA PassedStays ==
    ASSUME UNCHANGED <<bocage, order>>, NEW t, t = nooks', NEW T
    PROVE  /\ Extends(T, nooks)' <=> Extends(T, t)
           /\ IsBefore(T, nooks)' <=> IsBefore(T, t)
BY DEF Extends, IsBefore, Chosen

\* What is left to show of a step.
LEMMA SearchKept ==
    ASSUME UNCHANGED <<bocage, order>>, NEW t, t = nooks', NEW work, work = worklist',
           Shaped(t), turn' = "expand" => DueIn(t, work), exhausted' => turn' = "idle",
           IsFiniteSet(parses'), parseCount' = Cardinality(parses'),
           \A T : T \in parses' <=>
               /\ IsTree(T, bocage.top, {})
               /\ \/ exhausted'
                  \/ IsBefore(T, t)
                  \/ (turn' = "iterate" \/ (turn' = "idle" /\ parseCount' > 0)) /\ Extends(T, t)
    PROVE  SearchInv'
<1>1. Shaped(nooks)' /\ (DueIn(nooks, worklist)' <=> DueIn(t, work))
  BY ShapeStays, DueStays
<1>2. \A T : Passed(T)' <=>
          \/ exhausted'
          \/ IsBefore(T, t)
          \/ (turn' = "iterate" \/ (turn' = "idle" /\ parseCount' > 0)) /\ Extends(T, t)
  BY PassedStays DEF Passed
<1>3. \A T : IsTree(T, bocage.top, {})' <=> IsTree(T, bocage.top, {})
  BY TreeStays
<1> QED BY <1>1, <1>2, <1>3 DEF SearchInv

\* A finite search, about a tree of a sound forest.
Searching == SearchInv /\ ForestIsSound /\ ~ bocage.nulling /\ turn # "none"

\* The next choice of the last nook.
LEMMA SearchNextChoice ==
    ASSUME Searching, NookInv, NextChoice
    PROVE  SearchInv'
<1> PICK s : s = nooks
  OBVIOUS
<1> PICK t : t = nooks'
  OBVIOUS
<1> PICK n : n = Len(nooks)
  OBVIOUS
<1>1. Shaped(s) /\ NooksAre(s)
  BY DEF Searching, SearchInv, Shaped
<1>2. n \in DOMAIN s /\ n = Len(s) /\ DOMAIN s = 1 .. n
  BY <1>1 DEF NooksAre, NextChoice
<1>3. /\ t = [i \in DOMAIN s |-> t[i]]
      /\ \A i \in DOMAIN s \ {n} : t[i] = s[i]
      /\ NextNook(s[n], t[n])
  <2>1. PICK nook \in NookSet : nook = s[n]
    BY <1>1, <1>2 DEF NooksAre
  <2>2. PICK m : m = nook.choice + 1
    OBVIOUS
  <2>3. /\ t = [i \in DOMAIN s |-> t[i]]
        /\ \A i \in DOMAIN s \ {n} : t[i] = s[i]
        /\ t[n] = [nook EXCEPT !.choice = m, !.causeDone = FALSE, !.predDone = FALSE]
    BY <1>2, <2>1, <2>2 DEF NextChoice
  <2> QED BY <2>1, <2>2, <2>3, NextNookIs
<1>4. HasChoice(s[n].or, s[n].choice + 1)
  BY DEF NextChoice, TopNook
<1>5. Shaped(t) /\ DOMAIN t = DOMAIN s /\ t[n].or = s[n].or /\ t[n].choice = s[n].choice + 1
  BY <1>1, <1>2, <1>3, <1>4, ChoiceKeepsShape DEF Searching
<1>6. \A T : IsBefore(T, t) <=> IsBefore(T, s) \/ Extends(T, s)
  BY <1>1, <1>2, <1>3, <1>5, SearchChooses DEF Searching
<1> PICK work : work = worklist'
  OBVIOUS
<1>7. DueIn(t, work)
  <2>1. work = [i \in DOMAIN s |-> i]
    BY DEF NextChoice, AllNooks
  <2>2. \A i \in DOMAIN t : work[i] = i /\ i \in DOMAIN work
    BY <1>5, <2>1
  <2>3. t # <<>>
    BY <1>2, <1>5
  <2> QED BY <2>2, <2>3 DEF DueIn
<1>8. /\ turn = "iterate" /\ turn' = "expand" /\ exhausted' = exhausted
      /\ parses' = parses /\ parseCount' = parseCount /\ UNCHANGED <<bocage, order>>
  BY DEF NextChoice, ForestUnchanged, orderVars
<1>9. ~ exhausted
  BY <1>8 DEF Searching, SearchInv
<1>10. \A T : T \in parses' <=> IsTree(T, bocage.top, {}) /\ IsBefore(T, t)
  BY <1>6, <1>8, <1>9 DEF Searching, SearchInv, Passed
<1>11. IsFiniteSet(parses') /\ parseCount' = Cardinality(parses')
  BY <1>8 DEF Searching, SearchInv
<1> QED BY <1>5, <1>7, <1>8, <1>9, <1>10, <1>11, SearchKept

\* The flags of a parent whose nook is taken off.
LEMMA UnexpandedIs ==
    ASSUME NookInv, NEW s, s = nooks, NooksAre(s), RootIs(s), KidsAre(s),
           NEW n, n = Len(s), n \in DOMAIN s,
           NEW t, t = Front(Unexpanded(s[n]))
    PROVE  /\ t \in Seq(NookSet) /\ DOMAIN t = 1 .. (n - 1)
           /\ \A i \in DOMAIN t : SamePlace(s[i], t[i])
           /\ \A i \in DOMAIN t : \A side \in Sides :
                SideDone(t[i], side) <=> SideDone(s[i], side) /\ ~ IsKid(s, n, i, side)
<1> PICK u : u = Unexpanded(s[n])
  OBVIOUS
<1>1. n \in Nat \ {0} /\ DOMAIN s = 1 .. n /\ \A i \in DOMAIN s : s[i] \in NookSet
  BY DEF NooksAre
<1>2. \A i \in DOMAIN s : SamePlace(s[i], s[i])
  BY DEF SamePlace
<1>3. /\ DOMAIN u = 1 .. n
      /\ \A i \in 1 .. (n - 1) : u[i] \in NookSet /\ SamePlace(s[i], u[i])
      /\ \A i \in 1 .. (n - 1) : \A side \in Sides :
            SideDone(u[i], side) <=> SideDone(s[i], side) /\ ~ IsKid(s, n, i, side)
  <2>1. CASE n = 1
    <3>1. ~ s[n].isCause /\ ~ s[n].isPred
      BY <2>1 DEF RootIs
    <3>2. u = s
      BY <3>1 DEF Unexpanded
    <3>3. 1 .. (n - 1) = {}
      BY <2>1
    <3> QED BY <1>1, <3>2, <3>3
  <2>2. CASE n # 1
    <3>1. PICK p : p = s[n].parent /\ p \in 1 .. (n - 1) /\ p \in DOMAIN s
      BY <1>1, <2>2 DEF KidsAre
    <3>2. s[n].isPred <=> ~ s[n].isCause
      BY <2>2 DEF KidsAre
    <3>3. PICK nook \in NookSet : nook = s[p]
      BY <1>1, <3>1
    <3>4. \A i : \A side : IsKid(s, n, i, side) <=> i = p /\ side = KidSide(s[n])
      BY <2>2, <3>1 DEF IsKid
    <3>5. PICK mark \in NookSet :
              /\ u = [s EXCEPT ![p] = mark] /\ SamePlace(nook, mark)
              /\ \A side \in Sides :
                    SideDone(mark, side) <=> SideDone(nook, side) /\ side # KidSide(s[n])
      <4>1. CASE s[n].isCause
        <5>1. PICK mark : mark = [nook EXCEPT !.causeDone = FALSE]
          OBVIOUS
        <5>2. /\ mark \in NookSet /\ SamePlace(nook, mark)
              /\ mark.causeDone = FALSE /\ mark.predDone = nook.predDone
          BY <5>1 DEF NookSet, SamePlace
        <5>3. u = [s EXCEPT ![p] = mark]
          BY <3>1, <3>3, <4>1, <5>1 DEF Unexpanded
        <5>4. \A side \in Sides :
                  SideDone(mark, side) <=> SideDone(nook, side) /\ side # KidSide(s[n])
          BY <4>1, <5>2 DEF Sides, SideDone, KidSide
        <5> QED BY <5>2, <5>3, <5>4
      <4>2. CASE ~ s[n].isCause
        <5>1. PICK mark : mark = [nook EXCEPT !.predDone = FALSE]
          OBVIOUS
        <5>2. /\ mark \in NookSet /\ SamePlace(nook, mark)
              /\ mark.predDone = FALSE /\ mark.causeDone = nook.causeDone
          BY <5>1 DEF NookSet, SamePlace
        <5>3. u = [s EXCEPT ![p] = mark]
          BY <3>1, <3>2, <3>3, <4>2, <5>1 DEF Unexpanded
        <5>4. \A side \in Sides :
                  SideDone(mark, side) <=> SideDone(nook, side) /\ side # KidSide(s[n])
          BY <4>2, <5>2 DEF Sides, SideDone, KidSide
        <5> QED BY <5>2, <5>3, <5>4
      <4> QED BY <4>1, <4>2
    <3>6. DOMAIN u = 1 .. n /\ \A i \in 1 .. (n - 1) : u[i] = IF i = p THEN mark ELSE s[i]
      BY <1>1, <3>1, <3>5
    <3>7. ASSUME NEW i \in 1 .. (n - 1)
          PROVE  /\ u[i] \in NookSet /\ SamePlace(s[i], u[i])
                 /\ \A side \in Sides :
                        SideDone(u[i], side) <=> SideDone(s[i], side) /\ ~ IsKid(s, n, i, side)
      <4>1. CASE i = p
        <5>1. u[i] = mark /\ s[i] = nook
          BY <3>3, <3>6, <4>1
        <5> QED BY <3>4, <3>5, <4>1, <5>1
      <4>2. CASE i # p
        <5>1. u[i] = s[i] /\ i \in DOMAIN s
          BY <1>1, <3>6, <4>2
        <5> QED BY <1>1, <1>2, <3>4, <4>2, <5>1
      <4> QED BY <4>1, <4>2
    <3> QED BY <3>6, <3>7
  <2> QED BY <2>1, <2>2
<1>4. Len(u) = n /\ \E S : u \in Seq(S)
  BY UnexpandedNooks
<1>5. t = [i \in 1 .. (n - 1) |-> u[i]]
  BY <1>1, <1>4 DEF Front
<1> QED BY <1>1, <1>3, <1>5

\* The last nook is taken off.
LEMMA SearchPopNook ==
    ASSUME Searching, NookInv, PopNook
    PROVE  SearchInv'
<1> PICK s : s = nooks
  OBVIOUS
<1> PICK t : t = nooks'
  OBVIOUS
<1> PICK n : n = Len(nooks)
  OBVIOUS
<1>1. Shaped(s) /\ NooksAre(s) /\ RootIs(s) /\ KidsAre(s)
  BY DEF Searching, SearchInv, Shaped
<1>2. n \in DOMAIN s /\ n = Len(s) /\ DOMAIN s = 1 .. n
  BY <1>1 DEF NooksAre, PopNook
<1>3. t = Front(Unexpanded(s[n])) /\ ~ HasChoice(s[n].or, s[n].choice + 1)
  BY DEF PopNook, TopNook
<1>4. /\ t \in Seq(NookSet) /\ DOMAIN t = 1 .. (n - 1)
      /\ \A i \in DOMAIN t : SamePlace(s[i], t[i])
      /\ \A i \in DOMAIN t : \A side \in Sides :
            SideDone(t[i], side) <=> SideDone(s[i], side) /\ ~ IsKid(s, n, i, side)
  BY <1>1, <1>2, <1>3, UnexpandedIs
<1>5. Shaped(t)
  BY <1>1, <1>2, <1>4, PopKeepsShape DEF Searching
<1>6. \A i \in DOMAIN t : ChoiceKept(s, t, i)
  BY <1>4 DEF SamePlace, ChoiceKept
<1>7. ASSUME NEW T, IsTree(T, bocage.top, {})
      PROVE  IsBefore(T, t) \/ Extends(T, t) <=> IsBefore(T, s) \/ Extends(T, s)
  BY <1>1, <1>2, <1>3, <1>4, <1>6, <1>7, SearchPops DEF Searching
<1>8. /\ turn = "iterate" /\ turn' = "iterate" /\ exhausted' = exhausted
      /\ parses' = parses /\ parseCount' = parseCount /\ UNCHANGED <<bocage, order>>
  BY DEF PopNook, ForestUnchanged, orderVars
<1>9. ~ exhausted
  BY <1>8 DEF Searching, SearchInv
<1>10. \A T : T \in parses' <=> IsTree(T, bocage.top, {}) /\ (IsBefore(T, t) \/ Extends(T, t))
  BY <1>7, <1>8, <1>9 DEF Searching, SearchInv, Passed
<1>11. IsFiniteSet(parses') /\ parseCount' = Cardinality(parses')
  BY <1>8 DEF Searching, SearchInv
<1> PICK work : work = worklist'
  OBVIOUS
<1> QED BY <1>5, <1>8, <1>9, <1>10, <1>11, SearchKept

\* The stack is empty: every tree goes on from it.
LEMMA SearchNoMore ==
    ASSUME Searching, NoMoreTrees
    PROVE  SearchInv'
<1> PICK t : t = nooks'
  OBVIOUS
<1> PICK work : work = worklist'
  OBVIOUS
<1>1. /\ turn = "iterate" /\ turn' = "idle" /\ exhausted' /\ t = <<>> /\ nooks = <<>>
      /\ parses' = parses /\ parseCount' = parseCount /\ UNCHANGED <<bocage, order>>
  BY DEF NoMoreTrees, TreeExhaust, ForestUnchanged, orderVars
<1>2. \A T : Extends(T, nooks)
  BY <1>1 DEF Extends
<1>3. \A T : T \in parses' <=> IsTree(T, bocage.top, {})
  BY <1>1, <1>2 DEF Searching, SearchInv, Passed
<1>4. IsFiniteSet(parses') /\ parseCount' = Cardinality(parses')
  BY <1>1 DEF Searching, SearchInv
<1>5. Shaped(t)
  BY <1>1, StartShapes
<1> QED BY <1>1, <1>3, <1>4, <1>5, SearchKept

-----------------------------------------------------------------------------
\* The nook that is expanded, and whether one of its sides is due.
LEMMA WorkIs ==
    ASSUME Searching, NookInv, Expanding
    PROVE  /\ Shaped(nooks) /\ NooksAre(nooks) /\ DueIn(nooks, worklist) /\ Exact(inUse, nooks)
           /\ worklist[Len(worklist)] \in DOMAIN nooks
           /\ Work = nooks[worklist[Len(worklist)]] /\ Work \in NookSet
           /\ CauseIsDue <=> IsDue(nooks, worklist[Len(worklist)], "cause")
           /\ PredIsDue <=> ~ CauseIsDue /\ IsDue(nooks, worklist[Len(worklist)], "pred")
           /\ CauseIsDue => Child = SideOf(Chosen(nooks, worklist[Len(worklist)]), "cause")
           /\ PredIsDue => Child = SideOf(Chosen(nooks, worklist[Len(worklist)]), "pred")
<1> PICK w : w = worklist[Len(worklist)]
  OBVIOUS
<1>1. /\ Shaped(nooks) /\ NooksAre(nooks) /\ DueIn(nooks, worklist) /\ Exact(inUse, nooks)
      /\ ForestIsSound
  BY DEF Searching, SearchInv, Shaped, NookInv, Expanding
<1>2. w \in DOMAIN nooks /\ Work = nooks[w]
  BY WorkNook DEF Work
<1>3. nooks[w] \in NookSet /\ Divides(nooks[w].or, Chosen(nooks, w))
  BY <1>1, <1>2, ChosenIs
<1>4. AndOf(Work) = Chosen(nooks, w)
  BY <1>2 DEF AndOf, Chosen
<1>5. PICK a : a = Chosen(nooks, w)
  OBVIOUS
<1>6. /\ a.cause.type = "or" <=> a.cause \in bocage.ors
      /\ a.pred \in bocage.ors \cup {NoOr} /\ NoOr \notin bocage.ors
  BY <1>1, <1>3, <1>5 DEF Divides, ForestIsSound
<1>7. /\ SideOf(a, "cause") = a.cause /\ SideOf(a, "pred") = a.pred
      /\ SideDone(Work, "cause") <=> Work.causeDone
      /\ SideDone(Work, "pred") <=> Work.predDone
  BY DEF SideOf, SideDone
<1>8. CauseIsDue <=> IsDue(nooks, w, "cause")
  BY <1>2, <1>4, <1>5, <1>6, <1>7 DEF CauseIsDue, IsDue
<1>9. PredIsDue <=> ~ CauseIsDue /\ IsDue(nooks, w, "pred")
  BY <1>2, <1>4, <1>5, <1>6, <1>7 DEF PredIsDue, IsDue
<1>10. /\ CauseIsDue => Child = SideOf(Chosen(nooks, w), "cause")
       /\ PredIsDue => Child = SideOf(Chosen(nooks, w), "pred")
  BY <1>4, <1>5, <1>7 DEF Child, PredIsDue
<1> QED BY <1>1, <1>2, <1>3, <1>8, <1>9, <1>10

\* New marks of the nook that is expanded.
LEMMA WorkMarked ==
    ASSUME NEW s, NooksAre(s), NEW w \in DOMAIN s, NEW mark \in NookSet, SamePlace(s[w], mark),
           NEW t, t = [s EXCEPT ![w] = mark]
    PROVE  /\ t = [i \in DOMAIN s |-> t[i]] /\ \A i \in DOMAIN s \ {w} : t[i] = s[i]
           /\ t[w] = mark /\ t[w] \in NookSet /\ SamePlace(s[w], t[w])
<1>1. s = [i \in DOMAIN s |-> s[i]]
  BY DEF NooksAre
<1> QED BY <1>1

\* The tree is given up: none goes on from the stack.
LEMMA SearchExpandCycle ==
    ASSUME Searching, NookInv, ExpandCycle
    PROVE  SearchInv'
<1> PICK s : s = nooks
  OBVIOUS
<1> PICK t : t = nooks'
  OBVIOUS
<1> PICK w : w = worklist[Len(worklist)]
  OBVIOUS
<1>1. /\ Shaped(s) /\ NooksAre(s) /\ Exact(inUse, s) /\ w \in DOMAIN s /\ s[w] \in NookSet
      /\ CauseIsDue <=> IsDue(s, w, "cause")
      /\ PredIsDue <=> ~ CauseIsDue /\ IsDue(s, w, "pred")
      /\ CauseIsDue => Child = SideOf(Chosen(s, w), "cause")
      /\ PredIsDue => Child = SideOf(Chosen(s, w), "pred")
  BY WorkIs DEF ExpandCycle
<1>2. CauseIsDue \/ PredIsDue
  BY DEF ExpandCycle
<1>3. IsCycle(Child)
  BY DEF ExpandCycle
<1>4. PICK side \in Sides : IsDue(s, w, side) /\ Child = SideOf(Chosen(s, w), side)
  BY <1>1, <1>2 DEF Sides
<1>5. ASSUME NEW T, IsTree(T, bocage.top, {}), Extends(T, s) PROVE FALSE
  BY <1>1, <1>3, <1>4, <1>5, CycleEndsSearch DEF IsCycle, Searching
<1>6. PICK c \in BOOLEAN : c <=> s[w].causeDone \/ PredIsDue
  OBVIOUS
<1>7. PICK p \in BOOLEAN : p = s[w].predDone
  BY <1>1 DEF NookSet
<1> PICK nook : nook = s[w]
  OBVIOUS
<1> PICK mark : mark = [nook EXCEPT !.causeDone = c, !.predDone = p]
  OBVIOUS
<1>8. t = [s EXCEPT ![w] = mark]
  <2>1. PICK d : d = (nook.causeDone \/ PredIsDue)
    OBVIOUS
  <2>2. t = [s EXCEPT ![w] = [nook EXCEPT !.causeDone = d]]
    BY <2>1 DEF ExpandCycle
  <2>3. d = c
    BY <1>6, <2>1
  <2>4. [nook EXCEPT !.causeDone = c] = mark
    BY <1>1, <1>7 DEF NookSet
  <2> QED BY <2>2, <2>3, <2>4
<1>9. /\ t = [i \in DOMAIN s |-> t[i]] /\ \A i \in DOMAIN s \ {w} : t[i] = s[i]
      /\ t[w] \in NookSet /\ SamePlace(s[w], t[w])
      /\ SideDone(t[w], "cause") <=> c
      /\ SideDone(t[w], "pred") <=> p
  <2>1. /\ mark \in NookSet /\ SamePlace(nook, mark)
        /\ SideDone(mark, "cause") <=> c
        /\ SideDone(mark, "pred") <=> p
    BY <1>1 DEF NookSet, SamePlace, SideDone
  <2> QED BY <1>1, <1>8, <2>1, WorkMarked
<1>10. ASSUME NEW sd \in Sides, SideOf(Chosen(s, w), sd) \in bocage.ors
       PROVE  SideDone(t[w], sd) <=> SideDone(s[w], sd)
  <2>1. CASE sd = "cause"
    <3>1. SideDone(s[w], sd) <=> s[w].causeDone
      BY <2>1 DEF SideDone
    <3>2. PredIsDue => s[w].causeDone
      BY <1>1, <1>10, <2>1, <3>1 DEF IsDue
    <3> QED BY <1>6, <1>9, <2>1, <3>1, <3>2
  <2>2. CASE sd = "pred"
    <3>1. SideDone(s[w], sd) <=> s[w].predDone
      BY <2>2 DEF SideDone
    <3> QED BY <1>7, <1>9, <2>2, <3>1
  <2> QED BY <2>1, <2>2 DEF Sides
<1>11. Shaped(t) /\ DOMAIN t = DOMAIN s
  BY <1>1, <1>9, <1>10, MarkKeepsShape DEF Searching
<1>12. \A i \in DOMAIN s : ChoiceKept(s, t, i)
  BY <1>9 DEF SamePlace, ChoiceKept
<1>13. \A i \in DOMAIN s : \A j \in 1 .. (i - 1) : j \in DOMAIN s
  BY <1>1 DEF NooksAre
<1>14. \A T : (Extends(T, t) <=> Extends(T, s)) /\ (IsBefore(T, t) <=> IsBefore(T, s))
  BY <1>11, <1>12, <1>13, SearchStays
<1>15. /\ turn = "expand" /\ turn' = "iterate" /\ exhausted' = exhausted
       /\ parses' = parses /\ parseCount' = parseCount /\ UNCHANGED <<bocage, order>>
  BY DEF ExpandCycle, Expanding, ForestUnchanged, orderVars
<1>16. ~ exhausted
  BY <1>15 DEF Searching, SearchInv
<1>17. \A T : T \in parses' <=> IsTree(T, bocage.top, {}) /\ (IsBefore(T, t) \/ Extends(T, t))
  BY <1>5, <1>14, <1>15, <1>16 DEF Searching, SearchInv, Passed
<1>18. IsFiniteSet(parses') /\ parseCount' = Cardinality(parses')
  BY <1>15 DEF Searching, SearchInv
<1> PICK work : work = worklist'
  OBVIOUS
<1> QED BY <1>11, <1>15, <1>16, <1>17, <1>18, SearchKept

\* A nook of which nothing is due is taken off the worklist.
LEMMA SearchExpandDone ==
    ASSUME Searching, NookInv, ExpandDone
    PROVE  SearchInv'
<1> PICK s : s = nooks
  OBVIOUS
<1> PICK t : t = nooks'
  OBVIOUS
<1> PICK w : w = worklist[Len(worklist)]
  OBVIOUS
<1>1. /\ Shaped(s) /\ NooksAre(s) /\ DueIn(s, worklist) /\ w \in DOMAIN s /\ s[w] \in NookSet
      /\ CauseIsDue <=> IsDue(s, w, "cause")
      /\ PredIsDue <=> ~ CauseIsDue /\ IsDue(s, w, "pred")
  BY WorkIs DEF ExpandDone
<1>2. ~ CauseIsDue /\ ~ PredIsDue
  BY DEF ExpandDone
<1>3. \A side \in Sides : ~ IsDue(s, w, side)
  BY <1>1, <1>2 DEF Sides
<1> PICK nook : nook = s[w]
  OBVIOUS
<1> PICK mark : mark = [nook EXCEPT !.causeDone = TRUE, !.predDone = TRUE]
  OBVIOUS
<1>4. t = [s EXCEPT ![w] = mark]
  BY DEF ExpandDone
<1>5. /\ t = [i \in DOMAIN s |-> t[i]] /\ \A i \in DOMAIN s \ {w} : t[i] = s[i]
      /\ t[w] \in NookSet /\ SamePlace(s[w], t[w])
      /\ SideDone(t[w], "cause") /\ SideDone(t[w], "pred")
  <2>1. /\ mark \in NookSet /\ SamePlace(nook, mark)
        /\ SideDone(mark, "cause") /\ SideDone(mark, "pred")
    BY <1>1 DEF NookSet, SamePlace, SideDone
  <2> QED BY <1>1, <1>4, <2>1, WorkMarked
<1>6. \A sd \in Sides : SideOf(Chosen(s, w), sd) \in bocage.ors =>
          (SideDone(t[w], sd) <=> SideDone(s[w], sd))
  BY <1>3, <1>5 DEF Sides, IsDue
<1>7. /\ Shaped(t) /\ DOMAIN t = DOMAIN s
      /\ \A i \in DOMAIN s : \A side \in Sides : IsDue(t, i, side) <=> IsDue(s, i, side)
  BY <1>1, <1>5, <1>6, MarkKeepsShape DEF Searching
<1>8. \A i \in DOMAIN s : ChoiceKept(s, t, i)
  BY <1>5 DEF SamePlace, ChoiceKept
<1>9. \A i \in DOMAIN s : \A j \in 1 .. (i - 1) : j \in DOMAIN s
  BY <1>1 DEF NooksAre
<1>10. \A T : (Extends(T, t) <=> Extends(T, s)) /\ (IsBefore(T, t) <=> IsBefore(T, s))
  BY <1>7, <1>8, <1>9, SearchStays
<1> PICK work : work = worklist'
  OBVIOUS
<1>11. DueIn(t, work)
  <2>1. work = Front(worklist) /\ worklist \in Seq(Nat) /\ worklist # <<>>
    BY DEF ExpandDone, Expanding, NookInv
  <2>2. \A k \in DOMAIN worklist : k # Len(worklist) => k \in DOMAIN work /\ work[k] = worklist[k]
    BY <2>1 DEF Front
  <2>3. t # <<>>
    BY <1>1, <1>7
  <2>4. ASSUME NEW i \in DOMAIN t, NEW side \in Sides, IsDue(t, i, side)
        PROVE  \E k \in DOMAIN work : work[k] = i
    <3>1. IsDue(s, i, side) /\ i # w
      BY <1>3, <1>7, <2>4
    <3>2. PICK k \in DOMAIN worklist : worklist[k] = i
      BY <1>1, <1>7, <3>1 DEF DueIn
    <3> QED BY <2>2, <3>1, <3>2
  <2> QED BY <2>3, <2>4 DEF DueIn
<1>12. /\ turn = "expand" /\ turn' = "expand" /\ exhausted' = exhausted
       /\ parses' = parses /\ parseCount' = parseCount /\ UNCHANGED <<bocage, order>>
  BY DEF ExpandDone, Expanding, ForestUnchanged, orderVars
<1>13. ~ exhausted
  BY <1>12 DEF Searching, SearchInv
<1>14. \A T : T \in parses' <=> IsTree(T, bocage.top, {}) /\ IsBefore(T, t)
  BY <1>10, <1>12, <1>13 DEF Searching, SearchInv, Passed
<1>15. IsFiniteSet(parses') /\ parseCount' = Cardinality(parses')
  BY <1>12 DEF Searching, SearchInv
<1> QED BY <1>7, <1>11, <1>12, <1>13, <1>14, <1>15, SearchKept

\* A nook is pushed for a side that is due.
LEMMA SearchExpandChild ==
    ASSUME Searching, NookInv, ExpandChild
    PROVE  SearchInv'
<1> PICK s : s = nooks
  OBVIOUS
<1> PICK t : t = nooks'
  OBVIOUS
<1> PICK w : w = worklist[Len(worklist)]
  OBVIOUS
<1> PICK n : n = Len(nooks) + 1
  OBVIOUS
<1>1. /\ Shaped(s) /\ NooksAre(s) /\ DueIn(s, worklist) /\ w \in DOMAIN s /\ s[w] \in NookSet
      /\ CauseIsDue <=> IsDue(s, w, "cause")
      /\ PredIsDue <=> ~ CauseIsDue /\ IsDue(s, w, "pred")
      /\ CauseIsDue => Child = SideOf(Chosen(s, w), "cause")
      /\ PredIsDue => Child = SideOf(Chosen(s, w), "pred")
  BY WorkIs DEF ExpandChild
<1>2. CauseIsDue \/ PredIsDue
  BY DEF ExpandChild
<1> DEFINE side == IF CauseIsDue THEN "cause" ELSE "pred"
<1>3. /\ side \in Sides /\ IsDue(s, w, side) /\ Child = SideOf(Chosen(s, w), side)
      /\ side = "cause" <=> CauseIsDue
      /\ side = "pred" <=> PredIsDue
  BY <1>1, <1>2 DEF Sides, PredIsDue
<1> HIDE DEF side
<1>4. /\ n = Len(s) + 1 /\ n \in Nat /\ Len(s) \in Nat /\ DOMAIN s = 1 .. (n - 1) /\ n - 1 \in Nat
      /\ n - 1 + 1 = n /\ s \in Seq(NookSet)
  BY <1>1 DEF NooksAre
<1> PICK nook : nook = s[w]
  OBVIOUS
<1> PICK p : p = (nook.predDone \/ PredIsDue)
  OBVIOUS
<1> PICK mark : mark = [nook EXCEPT !.causeDone = TRUE, !.predDone = p]
  OBVIOUS
<1> PICK u : u = [s EXCEPT ![w] = mark]
  OBVIOUS
<1> PICK kid : kid = Nook(Child, w, CauseIsDue, PredIsDue)
  OBVIOUS
<1>5. t = Append(u, kid)
  BY DEF ExpandChild
<1>6. /\ mark \in NookSet /\ SamePlace(nook, mark)
      /\ SideDone(mark, "cause") /\ (SideDone(mark, "pred") <=> nook.predDone \/ PredIsDue)
  BY <1>1 DEF NookSet, SamePlace, SideDone
<1>7. /\ u = [i \in DOMAIN s |-> u[i]] /\ \A i \in DOMAIN s \ {w} : u[i] = s[i]
      /\ u[w] = mark
  BY <1>1, <1>6, WorkMarked
<1>8. kid \in NookSet /\ kid.or = SideOf(Chosen(s, w), side) /\ kid.choice = 1 /\ kid.parent = w
      /\ KidSide(kid) = side /\ (kid.isPred <=> ~ kid.isCause)
      /\ ~ kid.causeDone /\ ~ kid.predDone
  <2>1. Child \in bocage.ors /\ w \in Nat
    BY <1>1, <1>3, <1>4 DEF IsDue
  <2>2. CauseIsDue \in BOOLEAN /\ PredIsDue \in BOOLEAN
    BY DEF CauseIsDue, PredIsDue
  <2>3. kid \in NookSet /\ kid.or = Child /\ kid.choice = 1 /\ kid.parent = w
        /\ kid.isCause = CauseIsDue /\ kid.isPred = PredIsDue
        /\ ~ kid.causeDone /\ ~ kid.predDone
    BY <2>1, <2>2 DEF Nook, NookSet
  <2>4. PredIsDue <=> ~ CauseIsDue
    BY <1>2 DEF PredIsDue
  <2> QED BY <1>3, <2>3, <2>4 DEF KidSide
<1>9. u \in Seq(NookSet) /\ Len(u) = n - 1 /\ DOMAIN u = 1 .. (n - 1)
  <2>1. \A i \in DOMAIN s : u[i] \in NookSet
    BY <1>4, <1>6, <1>7
  <2>2. u \in [1 .. (n - 1) -> NookSet]
    BY <1>4, <1>7, <2>1
  <2> QED BY <1>4, <2>2
<1>10. /\ t \in Seq(NookSet) /\ DOMAIN t = 1 .. n /\ t[n] = kid
       /\ \A i \in DOMAIN s : t[i] = u[i]
  BY <1>4, <1>5, <1>8, <1>9
<1>11. \A i \in DOMAIN s : SamePlace(s[i], t[i])
  BY <1>6, <1>7, <1>10 DEF SamePlace
<1>12. SideDone(t[w], side)
  BY <1>1, <1>3, <1>6, <1>7, <1>10 DEF Sides
<1>13. ASSUME NEW other \in Sides \ {side}, SideOf(Chosen(s, w), other) \in bocage.ors
       PROVE  SideDone(t[w], other) <=> SideDone(s[w], other)
  <2>1. t[w] = mark
    BY <1>1, <1>7, <1>10
  <2>2. CASE other = "cause"
    <3>1. PredIsDue /\ ~ CauseIsDue
      BY <1>3, <2>2 DEF Sides
    <3>2. SideDone(s[w], other)
      BY <1>1, <1>13, <2>2, <3>1 DEF IsDue
    <3> QED BY <1>6, <2>1, <2>2, <3>2
  <2>3. CASE other = "pred"
    <3>1. ~ PredIsDue
      BY <1>3, <2>3
    <3>2. SideDone(s[w], other) <=> nook.predDone
      BY <2>3 DEF SideDone
    <3> QED BY <1>6, <2>1, <2>3, <3>1, <3>2
  <2> QED BY <2>2, <2>3 DEF Sides
<1>14. \A i \in DOMAIN s \ {w} : t[i] = s[i]
  BY <1>7, <1>10
<1>15. Shaped(t)
  <2>1. /\ t[n].or = SideOf(Chosen(s, w), side) /\ t[n].choice = 1 /\ t[n].parent = w
        /\ KidSide(t[n]) = side /\ (t[n].isPred <=> ~ t[n].isCause)
        /\ ~ t[n].causeDone /\ ~ t[n].predDone
    BY <1>8, <1>10
  <2> QED BY <1>1, <1>3, <1>4, <1>10, <1>11, <1>12, <1>13, <1>14, <2>1, PushKeepsShape
          DEF Searching
<1>16. \A i \in DOMAIN s : ChoiceKept(s, t, i) /\ Chosen(t, i) = Chosen(s, i)
  BY <1>11 DEF SamePlace, ChoiceKept, Chosen
<1>17. \A T : IsBefore(T, t) <=> IsBefore(T, s)
  <2>1. PICK m \in Nat : m = n - 1 /\ DOMAIN s = 1 .. m /\ DOMAIN t = 1 .. (m + 1)
                         /\ t[m + 1].choice = 1
    BY <1>4, <1>8, <1>10
  <2> QED BY <1>16, <2>1, SearchPushes
<1> PICK work : work = worklist'
  OBVIOUS
<1>18. DueIn(t, work)
  <2>1. work = Append(worklist, n) /\ worklist \in Seq(Nat) /\ worklist # <<>>
    BY DEF ExpandChild, Expanding, NookInv
  <2>2. /\ \A k \in DOMAIN worklist : k \in DOMAIN work /\ work[k] = worklist[k]
        /\ \E k \in DOMAIN work : work[k] = n
        /\ \E k \in DOMAIN work : work[k] = w
    <3>1. Len(worklist) \in DOMAIN worklist
      BY <2>1
    <3>2. Len(work) \in DOMAIN work /\ work[Len(work)] = n
      BY <2>1, <1>4
    <3>3. \A k \in DOMAIN worklist : k \in DOMAIN work /\ work[k] = worklist[k]
      BY <2>1, <1>4
    <3> QED BY <3>1, <3>2, <3>3
  <2>3. t # <<>>
    BY <1>4, <1>10
  <2>4. ASSUME NEW i \in DOMAIN t, NEW sd \in Sides, IsDue(t, i, sd)
        PROVE  \E k \in DOMAIN work : work[k] = i
    <3>1. CASE i = n \/ i = w
      BY <2>2, <3>1
    <3>2. CASE i # n /\ i # w
      <4>1. i \in DOMAIN s /\ t[i] = s[i] /\ Chosen(t, i) = Chosen(s, i)
        BY <1>4, <1>10, <1>14, <1>16, <3>2
      <4>2. IsDue(s, i, sd)
        BY <2>4, <4>1 DEF IsDue
      <4>3. PICK k \in DOMAIN worklist : worklist[k] = i
        BY <1>1, <4>1, <4>2 DEF DueIn
      <4> QED BY <2>2, <4>3
    <3> QED BY <3>1, <3>2
  <2> QED BY <2>3, <2>4 DEF DueIn
<1>19. /\ turn = "expand" /\ turn' = "expand" /\ exhausted' = exhausted
       /\ parses' = parses /\ parseCount' = parseCount /\ UNCHANGED <<bocage, order>>
  BY DEF ExpandChild, Expanding, ForestUnchanged, orderVars
<1>20. ~ exhausted
  BY <1>19 DEF Searching, SearchInv
<1>21. \A T : T \in parses' <=> IsTree(T, bocage.top, {}) /\ IsBefore(T, t)
  BY <1>17, <1>19, <1>20 DEF Searching, SearchInv, Passed
<1>22. IsFiniteSet(parses') /\ parseCount' = Cardinality(parses')
  BY <1>19 DEF Searching, SearchInv
<1> QED BY <1>15, <1>18, <1>19, <1>20, <1>21, <1>22, SearchKept

\* Nothing is due: the stack is a tree, the only one that goes on from it, and a new one.
LEMMA SearchFinished ==
    ASSUME Searching, NookInv, TreeFinished
    PROVE  SearchInv'
<1> PICK s : s = nooks
  OBVIOUS
<1> PICK work : work = worklist'
  OBVIOUS
<1>1. /\ turn = "expand" /\ turn' = "idle" /\ exhausted' = exhausted /\ worklist = <<>>
      /\ parses' = parses \cup {CurrentTree} /\ parseCount' = parseCount + 1
      /\ UNCHANGED <<bocage, order>> /\ s = nooks'
  BY DEF TreeFinished, ForestUnchanged, orderVars
<1>2. Shaped(s) /\ Exact(inUse, s) /\ DueIn(s, worklist) /\ ForestIsSound /\ ~ exhausted
  BY <1>1 DEF Searching, SearchInv, NookInv
<1>3. Finished(s)
  <2>1. DOMAIN worklist = {}
    BY <1>1
  <2> QED BY <1>2, <2>1 DEF DueIn, Finished
<1>4. CurrentTree = TreeOn(s)
  BY DEF CurrentTree, TreeOn, AndOf, Chosen
<1>5. /\ \A T : IsTree(T, bocage.top, {}) /\ Extends(T, s) <=> T = CurrentTree
      /\ ~ IsBefore(CurrentTree, s)
  BY <1>2, <1>3, <1>4, FinishedIsNew
<1>6. /\ \A T : T \in parses <=> IsTree(T, bocage.top, {}) /\ IsBefore(T, s)
      /\ IsFiniteSet(parses) /\ parseCount = Cardinality(parses)
  BY <1>1, <1>2 DEF Searching, SearchInv, Passed
<1>7. CurrentTree \notin parses
  BY <1>5, <1>6
<1>8. /\ IsFiniteSet(parses') /\ parseCount' = Cardinality(parses') /\ parseCount' > 0
  <2>1. Cardinality(parses) \in Nat
    BY <1>6, FS_CardinalityType
  <2> QED BY <1>1, <1>6, <1>7, <2>1, FS_AddElement
<1>9. \A T : T \in parses' <=> IsTree(T, bocage.top, {}) /\ (IsBefore(T, s) \/ Extends(T, s))
  BY <1>1, <1>5, <1>6
<1> QED BY <1>1, <1>2, <1>8, <1>9, SearchKept

\* The search begins with the top or-node, or goes on from the last tree.
LEMMA SearchBegin ==
    ASSUME Searching, PauseInv, TreeNextBegin
    PROVE  SearchInv'
<1> PICK t : t = nooks'
  OBVIOUS
<1> PICK work : work = worklist'
  OBVIOUS
<1>1. /\ turn = "idle" /\ ~ exhausted /\ ~ exhausted' /\ parses' = parses
      /\ parseCount' = parseCount /\ UNCHANGED <<bocage, order>> /\ parseCount \in Nat
  BY DEF TreeNextBegin, ForestUnchanged, orderVars, PauseInv
<1>2. /\ IsFiniteSet(parses) /\ parseCount = Cardinality(parses) /\ ForestIsSound
      /\ Shaped(nooks)
  BY DEF Searching, SearchInv
<1>3. CASE parseCount < 1
  <2>1. parses = {}
    BY <1>1, <1>2, <1>3, FS_EmptySet
  <2>2. PICK nook : nook = Nook(bocage.top, 0, FALSE, FALSE)
    OBVIOUS
  <2>3. t = <<nook>> /\ work = <<1>> /\ turn' = "expand"
    BY <1>3, <2>2 DEF TreeNextBegin
  <2>4. Shaped(t)
    BY <1>2, <2>2, <2>3, StartShapes
  <2>5. DOMAIN t = {1} /\ t[1].choice = 1 /\ 1 \in DOMAIN work /\ work[1] = 1 /\ t # <<>>
    BY <2>2, <2>3 DEF Nook
  <2>6. DueIn(t, work)
    BY <2>5 DEF DueIn
  <2>7. \A T : ~ IsBefore(T, t)
    <3>1. 1 .. (t[1].choice - 1) = {}
      BY <2>5
    <3> QED BY <2>5, <3>1 DEF IsBefore
  <2>8. \A T : T \in parses' <=> IsTree(T, bocage.top, {}) /\ IsBefore(T, t)
    BY <1>1, <2>1, <2>7
  <2> QED BY <1>1, <1>2, <2>3, <2>4, <2>6, <2>8, SearchKept
<1>4. CASE ~ (parseCount < 1)
  <2>1. t = nooks /\ turn' = "iterate" /\ parseCount > 0
    BY <1>1, <1>4 DEF TreeNextBegin
  <2>2. \A T : T \in parses' <=> IsTree(T, bocage.top, {}) /\ (IsBefore(T, t) \/ Extends(T, t))
    BY <1>1, <2>1 DEF Searching, SearchInv, Passed
  <2> QED BY <1>1, <1>2, <2>1, <2>2, SearchKept
<1> QED BY <1>3, <1>4

\* A new tree has found nothing.
LEMMA SearchNew ==
    ASSUME TreeNew
    PROVE  SearchInv'
<1> PICK t : t = nooks'
  OBVIOUS
<1> PICK work : work = worklist'
  OBVIOUS
<1>1. /\ turn' = "idle" /\ t = <<>> /\ ~ exhausted' /\ parses' = {} /\ parseCount' = 0
      /\ UNCHANGED <<bocage, order>>
  BY DEF TreeNew, ForestUnchanged
<1>2. \A T : ~ IsBefore(T, t)
  BY <1>1 DEF IsBefore
<1>3. IsFiniteSet(parses') /\ parseCount' = Cardinality(parses')
  BY <1>1, FS_EmptySet
<1>4. Shaped(t)
  BY <1>1, StartShapes
<1>5. \A T : T \in parses' <=>
          /\ IsTree(T, bocage.top, {})
          /\ \/ exhausted'
             \/ IsBefore(T, t)
             \/ (turn' = "iterate" \/ (turn' = "idle" /\ parseCount' > 0)) /\ Extends(T, t)
  BY <1>1, <1>2
<1> QED BY <1>1, <1>3, <1>4, <1>5, SearchKept

\* Steps that leave the forest and the tree alone.
LEMMA SearchQuiet ==
    ASSUME SearchInv,
           UNCHANGED <<bocage, order, turn, nooks, worklist, exhausted, parseCount, parses>>
    PROVE  SearchInv'
<1>1. CASE turn # "none" /\ ForestIsSound /\ ~ bocage.nulling
  <2>1. Searching
    BY <1>1 DEF Searching
  <2> PICK t : t = nooks'
    OBVIOUS
  <2> PICK work : work = worklist'
    OBVIOUS
  <2>2. t = nooks /\ work = worklist
    OBVIOUS
  <2>3. \A T : T \in parses' <=>
          /\ IsTree(T, bocage.top, {})
          /\ \/ exhausted'
             \/ IsBefore(T, t)
             \/ (turn' = "iterate" \/ (turn' = "idle" /\ parseCount' > 0)) /\ Extends(T, t)
    BY <2>1, <2>2 DEF Searching, SearchInv, Passed
  <2>4. /\ Shaped(t) /\ (turn' = "expand" => DueIn(t, work)) /\ (exhausted' => turn' = "idle")
        /\ IsFiniteSet(parses') /\ parseCount' = Cardinality(parses')
    BY <2>1, <2>2 DEF Searching, SearchInv
  <2> QED BY <2>3, <2>4, SearchKept
<1>2. CASE turn = "none" \/ ~ ForestIsSound \/ bocage.nulling
  <2>1. turn' = "none" \/ ~ ForestIsSound' \/ bocage'.nulling
    BY <1>2, SoundStays
  <2> QED BY <2>1 DEF SearchInv
<1> QED BY <1>1, <1>2

\* Each step keeps SearchInv.
LEMMA SearchStep ==
    ASSUME PauseInv, NookInv, SearchInv, [AllNext]_allVars
    PROVE  SearchInv'
<1>1. CASE turn = "none"
  <2>1. CASE TreeNew
    BY <2>1, SearchNew
  <2>2. CASE ~ TreeNew
    <3>1. turn' = "none"
      BY <1>1, <2>2 DEF AllNext, treeVars, TreeNext, TreeNextRefused, TreeNextNulling, TreeNextBegin,
         Turn, NextChoice, PopNook, NoMoreTrees, ExpandCycle, ExpandChild, ExpandDone, Expanding,
         TreeFinished, ValueNew, ValueFree, allVars
    <3> QED BY <3>1 DEF SearchInv
  <2> QED BY <2>1, <2>2
<1>2. CASE turn # "none"
  <2>0. frozen /\ order # NoOrder
    BY <1>2 DEF PauseInv
  <2>1. CASE Searching
    <3>1. CASE NextChoice \/ PopNook \/ NoMoreTrees \/ ExpandCycle \/ ExpandChild \/ ExpandDone
               \/ TreeFinished \/ TreeNextBegin
      BY <2>1, <3>1, SearchNextChoice, SearchPopNook, SearchNoMore, SearchExpandCycle,
         SearchExpandChild, SearchExpandDone, SearchFinished, SearchBegin
    <3>2. CASE TreeNextRefused \/ ValueNew \/ ValueFree \/ UNCHANGED allVars
               \/ (OrderCall /\ UNCHANGED treeVars)
      <4>1. UNCHANGED <<bocage, order, turn, nooks, worklist, exhausted, parseCount, parses>>
        BY <2>0, <3>2 DEF TreeNextRefused, ValueNew, ValueFree, ForestUnchanged, orderVars,
           treeVars, allVars, bocageVars, OrderCall, HighRankOnlySet, RankBocage, OrderAmbiguityMetric
      <4> QED BY <4>1, SearchQuiet
    <3>3. ~ TreeNew /\ ~ OrderNew /\ ~ TreeNextNulling
      BY <1>2, <2>0, <2>1 DEF TreeNew, OrderNew, TreeNextNulling, Searching
    <3>4. CASE UNCHANGED allVars
      BY <3>2, <3>4
    <3>5. CASE AllNext
      <4>1. \/ OrderCall /\ UNCHANGED treeVars
            \/ TreeNext \/ Turn \/ ValueNew \/ ValueFree
        BY <2>0, <3>3, <3>5 DEF AllNext
      <4>2. CASE TreeNext
        BY <3>1, <3>2, <3>3, <4>2 DEF TreeNext
      <4>3. CASE Turn
        BY <3>1, <4>3 DEF Turn
      <4> QED BY <3>2, <4>1, <4>2, <4>3
    <3> QED BY <3>4, <3>5
  <2>2. CASE ~ Searching
    <3>1. UNCHANGED <<bocage, order>>
      <4>1. CASE TreeNext \/ ValueNew \/ ValueFree \/ UNCHANGED allVars \/ OrderCall
        BY <2>0, <4>1 DEF TreeNext, TreeNextRefused, TreeNextNulling, TreeNextBegin,
           ValueNew, ValueFree, ForestUnchanged, orderVars,
           treeVars, allVars, bocageVars, OrderCall, HighRankOnlySet, RankBocage, OrderAmbiguityMetric
      <4>2. CASE Turn
        BY <4>2 DEF Turn, NextChoice, PopNook, NoMoreTrees, ExpandCycle, ExpandChild, ExpandDone,
           TreeFinished, ForestUnchanged, orderVars
      <4>3. ~ TreeNew /\ ~ OrderNew
        BY <1>2, <2>0 DEF TreeNew, OrderNew
      <4> QED BY <2>0, <4>1, <4>2, <4>3 DEF AllNext
    <3>2. ~ ForestIsSound \/ bocage.nulling
      BY <1>2, <2>2 DEF Searching
    <3>3. ~ ForestIsSound' \/ bocage'.nulling
      BY <3>1, <3>2, SoundStays
    <3> QED BY <3>3 DEF SearchInv
  <2> QED BY <2>1, <2>2
<1> QED BY <1>1, <1>2

-----------------------------------------------------------------------------
(***************************************************************************)
(* The bocage of a null parse has one tree, which is empty.                *)
(***************************************************************************)
NullingInv ==
    bocage.nulling /\ turn # "none" =>
        /\ turn = "idle" /\ parseCount \in {0, 1}
        /\ parses = IF parseCount = 0 THEN {} ELSE {{}}
        /\ exhausted => parseCount = 1

\* Each step keeps NullingInv.
LEMMA NullingInvStep ==
    ASSUME PauseInv, NullingInv, [AllNext]_allVars
    PROVE  NullingInv'
<1>1. CASE UNCHANGED allVars
  BY <1>1 DEF NullingInv, allVars, bocageVars, treeVars
<1>2. CASE TreeNew
  BY <1>2 DEF TreeNew, ForestUnchanged, NullingInv
<1>3. CASE turn = "none" /\ ~ TreeNew
  <2>1. turn' = "none"
    BY <1>3 DEF AllNext, treeVars, TreeNext, TreeNextRefused, TreeNextNulling, TreeNextBegin,
       Turn, NextChoice, PopNook, NoMoreTrees, ExpandCycle, ExpandChild, ExpandDone, Expanding,
       TreeFinished, ValueNew, ValueFree, allVars
  <2> QED BY <2>1 DEF NullingInv
<1>4. CASE turn # "none" /\ AllNext
  <2>0. frozen /\ order # NoOrder /\ ~ TreeNew /\ ~ OrderNew
    BY <1>4 DEF PauseInv, TreeNew, OrderNew
  <2>1. CASE TreeNextRefused \/ ValueNew \/ ValueFree \/ (OrderCall /\ UNCHANGED treeVars)
    <3>1. UNCHANGED <<bocage, turn, exhausted, parseCount, parses>>
      BY <2>1 DEF TreeNextRefused, ValueNew, ValueFree, ForestUnchanged,
         treeVars, OrderCall, HighRankOnlySet, RankBocage, OrderAmbiguityMetric
    <3> QED BY <3>1 DEF NullingInv
  <2>2. CASE TreeNextNulling
    BY <2>2 DEF TreeNextNulling, TreeExhaust, ForestUnchanged, NullingInv
  <2>3. CASE TreeNextBegin \/ Turn
    <3>1. turn # "idle" \/ ~ bocage.nulling
      BY <2>3 DEF TreeNextBegin, Turn, NextChoice, PopNook, NoMoreTrees, ExpandCycle, ExpandChild,
         ExpandDone, Expanding, TreeFinished
    <3>2. bocage' = bocage
      BY <2>3 DEF TreeNextBegin, Turn, NextChoice, PopNook, NoMoreTrees, ExpandCycle, ExpandChild,
         ExpandDone, TreeFinished, ForestUnchanged
    <3>3. ~ bocage.nulling
      BY <1>4, <3>1 DEF NullingInv
    <3> QED BY <3>2, <3>3 DEF NullingInv
  <2> QED BY <1>4, <2>0, <2>1, <2>2, <2>3 DEF AllNext, TreeNext
<1> QED BY <1>1, <1>2, <1>3, <1>4

\* So the iterator returns what it has to.
LEMMA SearchIsComplete ==
    ASSUME SearchInv, NullingInv, PauseInv,
           turn # "none" => bocage.nulling \/ ForestIsSound
    PROVE  EveryParseOnce
<1> SUFFICES ASSUME turn = "idle"
             PROVE  /\ parses \subseteq AllTrees
                    /\ parseCount = Cardinality(parses)
                    /\ exhausted => parses = AllTrees
  BY DEF EveryParseOnce
<1>1. CASE bocage.nulling
  <2>1. AllTrees = {{}}
    BY <1>1 DEF AllTrees
  <2>2. Cardinality({}) = 0 /\ \A x : Cardinality({x}) = 1
    BY FS_EmptySet, FS_Singleton
  <2>3. \/ parseCount = 0 /\ parses = {} /\ ~ exhausted
        \/ parseCount = 1 /\ parses = {{}}
    BY <1>1 DEF NullingInv
  <2> QED BY <2>1, <2>2, <2>3
<1>2. CASE ~ bocage.nulling
  <2>1. ForestIsSound /\ \A T : T \in AllTrees <=> IsTree(T, bocage.top, {})
    BY <1>2, AllTreesAre
  <2>2. /\ parseCount = Cardinality(parses)
        /\ \A T : T \in parses <=> IsTree(T, bocage.top, {}) /\ Passed(T)
    BY <1>2, <2>1 DEF SearchInv
  <2>3. exhausted => \A T : Passed(T)
    BY DEF Passed
  <2>4. parses \subseteq AllTrees
    BY <2>1, <2>2
  <2>5. ASSUME exhausted PROVE parses = AllTrees
    <3>1. \A T : T \in parses <=> T \in AllTrees
      BY <2>1, <2>2, <2>3, <2>5
    <3> QED BY <3>1
  <2> QED BY <2>2, <2>4, <2>5
<1> QED BY <1>1, <1>2

-----------------------------------------------------------------------------
(***************************************************************************)
(* Every forest that the iterator walks is sound.                          *)
(***************************************************************************)
\* So the iterator finds what it relies on.
LEMMA OrderIsSoundForest ==
    ASSUME BocageIsSound(bocage), OrderedAs(bocage, order)
    PROVE  ForestIsSound
<1>1. ASSUME NEW o \in bocage.ors
      PROVE  /\ o.origin \in Nat /\ o.at \in Nat /\ o.nulls \in Nat /\ o.origin <= o.at
             /\ Len(order[o]) \in Nat \ {0} /\ DOMAIN order[o] = 1 .. Len(order[o])
             /\ IsInjective(order[o])
             /\ \A k \in DOMAIN order[o] : Divides(o, order[o][k])
             /\ SpanOf(o) = 0 => Len(order[o]) = 1
  <2>1. /\ o \in OrSpace /\ o # NoOr /\ o.origin <= o.at
        /\ o.at - o.origin = 0 => o.dot = 0
    BY DEF BocageIsSound, SoundOrs
  <2>2. o.origin \in Nat /\ o.at \in Nat /\ o.nulls \in Nat /\ o.dot \in Nat
    BY <2>1 DEF OrSpace
  <2>3. order[o] \in Seq(AndsOf(bocage, o)) /\ order[o] # <<>> /\ IsInjective(order[o])
    BY DEF OrderedAs, OrdersSome
  <2>4. Len(order[o]) \in Nat \ {0} /\ DOMAIN order[o] = 1 .. Len(order[o])
    BY <2>3
  <2>5. ASSUME NEW k \in DOMAIN order[o]
        PROVE  /\ Divides(o, order[o][k])
               /\ o.dot = 0 => order[o][k] = And(o, OrNode(o.rule, o.dot, o.nulls - 1,
                                                          o.origin, o.at), NullingOr)
    <3> PICK a : a = order[o][k]
      OBVIOUS
    <3>1. a \in AndsOf(bocage, o)
      BY <2>3
    <3>2. a.parent = o /\ DividesAs(bocage.ors, o, a)
      BY <3>1, AndsOfAre DEF AndsOf
    <3>3. a.cause.type = "or" <=> a.cause \in bocage.ors
      <4>1. a.cause \in Causes(bocage.ors)
        BY <3>2 DEF DividesAs
      <4> QED BY <4>1 DEF Causes, BocageIsSound, SoundOrs, OrSpace, NullingOr, TokenOr
    <3>4. /\ a.pred \in bocage.ors \cup {NoOr}
          /\ \A c \in Below(a) : o.origin <= c.origin /\ c.at <= o.at
          /\ a.pred \in bocage.ors /\ a.cause \in bocage.ors => a.pred.at <= a.cause.origin
      BY <3>2 DEF DividesAs, OrsBelow, Below
    <3>5. Below(a) = {a.pred, a.cause} => a.pred \in bocage.ors /\ a.cause \in bocage.ors
      BY DEF Below
    <3>6. ASSUME o.dot = 0
          PROVE  a.cause \notin bocage.ors /\ \A c \in Below(a) : c.nulls < o.nulls
      <4>1. a = And(o, OrNode(o.rule, o.dot, o.nulls - 1, o.origin, o.at), NullingOr)
        BY <3>2, <3>6 DEF DividesAs
      <4>2. a.cause = NullingOr /\ a.pred = OrNode(o.rule, o.dot, o.nulls - 1, o.origin, o.at)
        BY <4>1, AndIs
      <4>3. NullingOr \notin bocage.ors
        BY DEF BocageIsSound, SoundOrs, OrSpace, NullingOr
      <4>4. a.pred # NoOr => a.pred.nulls = o.nulls - 1
        BY <4>2 DEF OrNode
      <4>5. \A c \in Below(a) : c = a.pred /\ c # NoOr
        BY <4>2, <4>3 DEF Below, BocageIsSound, SoundOrs
      <4> QED BY <2>2, <4>2, <4>3, <4>4, <4>5
    <3>7. SpanOf(o) = 0 => o.dot = 0
      BY <2>1 DEF SpanOf
    <3>8. Divides(o, a)
      BY <3>2, <3>3, <3>4, <3>5, <3>6, <3>7 DEF Divides
    <3>9. o.dot = 0 => a = And(o, OrNode(o.rule, o.dot, o.nulls - 1, o.origin, o.at), NullingOr)
      BY <3>2 DEF DividesAs
    <3> QED BY <3>8, <3>9
  <2>6. ASSUME SpanOf(o) = 0 PROVE Len(order[o]) = 1
    <3>1. o.dot = 0
      BY <2>1, <2>6 DEF SpanOf
    <3>2. 1 \in DOMAIN order[o] /\ Len(order[o]) \in DOMAIN order[o]
      BY <2>4
    <3>3. order[o][1] = order[o][Len(order[o])]
      BY <2>5, <3>1, <3>2
    <3> QED BY <2>3, <3>2, <3>3 DEF IsInjective
  <2> QED BY <2>1, <2>2, <2>3, <2>4, <2>5, <2>6
<1>2. IsFiniteSet(bocage.ors) /\ NoOr \notin bocage.ors /\ bocage.top \in bocage.ors
  BY DEF BocageIsSound, SoundOrs
<1>3. DOMAIN order = bocage.ors
  BY DEF OrderedAs
<1> QED BY <1>1, <1>2, <1>3 DEF ForestIsSound

\* A bocage whose and-nodes have causes is sound, and its order is one of it.
SoundForestInv ==
    bocage # NoBocage /\ ~ bocage.nulling /\ CausesExist =>
        BocageIsSound(bocage) /\ (order # NoOrder => OrderedAs(bocage, order))

\* A new bocage is sound.
LEMMA SoundForestNew ==
    ASSUME ChartInv, order = NoOrder, order' = order,
           NEW ordinal \in Ordinals, BocageNew(ordinal)
    PROVE  SoundForestInv'
<1> SUFFICES ASSUME (bocage # NoBocage)', (~ bocage.nulling)', CausesExist'
             PROVE  BocageIsSound(bocage')
  BY DEF SoundForestInv
<1>1. PICK e \in SetOf(ordinal) \ {0} : \E start \in CompletedStarts(e) : bocage' = Forest(start)
  BY DEF BocageNew, NullingBocage
<1>2. PICK start \in CompletedStarts(e) : bocage' = Forest(start)
  BY <1>1
<1>3. start \in items /\ ~ IsPredicted(start)
  BY DEF CompletedStarts
<1>4. \A a \in bocage'.ands : a.cause # NoOr
  BY DEF CausesExist
<1> PICK b : b = bocage'
  OBVIOUS
<1>5. BocageIsSound(b)
  BY <1>2, <1>3, <1>4, ForestOfChart
<1> QED BY <1>5

\* What the calls on an order do to it.
LEMMA SoundForestOrder ==
    ASSUME PauseInv, SoundForestInv, bocage' = bocage,
           \/ order' = order
           \/ order' \in Arrangements(bocage)
           \/ order # NoOrder /\ order' = [o \in DOMAIN order |->
                                              IF highRankOnly = 1 THEN HighestRanked(order[o])
                                                                  ELSE ByRank(order[o])]
    PROVE  SoundForestInv'
<1> SUFFICES ASSUME bocage # NoBocage, ~ bocage.nulling, CausesExist, (order # NoOrder)'
             PROVE  OrderedAs(bocage, order')
  <2>1. CausesExist' <=> CausesExist
    BY DEF CausesExist
  <2> QED BY <2>1 DEF SoundForestInv
<1>1. BocageIsSound(bocage) /\ (order # NoOrder => OrderedAs(bocage, order))
  BY DEF SoundForestInv
<1> PICK ord : ord = order'
  OBVIOUS
<1>2. CASE order' = order
  BY <1>1, <1>2
<1>3. CASE ord \in Arrangements(bocage)
  BY <1>1, <1>3, ArrangementsAre
<1>4. CASE order # NoOrder /\ ord = [o \in DOMAIN order |->
                                        IF highRankOnly = 1 THEN HighestRanked(order[o])
                                                            ELSE ByRank(order[o])]
  <2>1. DOMAIN order = bocage.ors /\ \A o \in bocage.ors : OrdersSome(order[o], AndsOf(bocage, o))
    BY <1>1, <1>4 DEF OrderedAs
  <2>2. ASSUME NEW o \in bocage.ors PROVE OrdersSome(ord[o], AndsOf(bocage, o))
    <3>1. OrdersSome(order[o], AndsOf(bocage, o)) /\ Ranked(order[o])
      BY <1>1, <2>1, OrdersAreRanked
    <3>2. ord[o] = IF highRankOnly = 1 THEN HighestRanked(order[o]) ELSE ByRank(order[o])
      BY <1>4, <2>1
    <3> QED BY <3>1, <3>2, ByRankIs, HighestRankedIs
  <2>3. DOMAIN ord = bocage.ors
    BY <1>4, <2>1
  <2> QED BY <2>2, <2>3 DEF OrderedAs
<1> QED BY <1>2, <1>3, <1>4

\* Only a new order and ranking change the order.
LEMMA OrderSteps ==
    ASSUME AllNext, ForestUnchanged
    PROVE  \/ order' = order
           \/ order' \in Arrangements(bocage)
           \/ order # NoOrder /\ order' = [o \in DOMAIN order |->
                                              IF highRankOnly = 1 THEN HighestRanked(order[o])
                                                                  ELSE ByRank(order[o])]
<1>1. CASE OrderNew
  BY <1>1 DEF OrderNew
<1>2. CASE OrderCall
  BY <1>2 DEF OrderCall, HighRankOnlySet, RankBocage, OrderAmbiguityMetric
<1>3. CASE TreeNew \/ TreeNext \/ ValueNew \/ ValueFree
  BY <1>3 DEF TreeNew, TreeNext, TreeNextRefused, TreeNextNulling, TreeNextBegin, ValueNew,
         ValueFree, orderVars
<1>4. CASE Turn
  BY <1>4 DEF Turn, NextChoice, PopNook, NoMoreTrees, ExpandCycle, ExpandChild, ExpandDone,
         TreeFinished, orderVars
<1> QED BY <1>1, <1>2, <1>3, <1>4 DEF AllNext, orderVars

\* Each step keeps the chart and the forest sound.
LEMMA SoundForestStep ==
    ASSUME ChartInv, PauseInv, SoundForestInv, [AllNext]_allVars
    PROVE  ChartInv' /\ SoundForestInv'
<1>1. CASE UNCHANGED allVars
  <2>1. UNCHANGED vars /\ bocage' = bocage /\ order' = order
    BY <1>1 DEF allVars, bocageVars, orderVars
  <2> QED BY <2>1, ChartStep, SoundForestOrder
<1>2. CASE AllNext /\ ForestUnchanged
  <2>1. RecognizerUnchanged /\ bocage' = bocage
    BY <1>2 DEF ForestUnchanged
  <2> QED BY <1>2, <2>1, ChartUnchanged, OrderSteps, SoundForestOrder
<1>3. CASE BocageNext /\ order = NoOrder /\ UNCHANGED orderVars
  <2>0. order' = order
    BY <1>3 DEF orderVars
  <2>1. CASE Next /\ UNCHANGED bocage
    BY <2>0, <2>1, ChartStep, SoundForestOrder
  <2>2. CASE \E ordinal \in Ordinals : BocageNew(ordinal)
    <3>1. PICK ordinal \in Ordinals : BocageNew(ordinal)
      BY <2>2
    <3>2. RecognizerUnchanged
      BY <3>1 DEF BocageNew, RecognizerUnchanged
    <3> QED BY <1>3, <2>0, <3>1, <3>2, ChartUnchanged, SoundForestNew
  <2> QED BY <1>3, <2>1, <2>2 DEF BocageNext
<1> QED BY <1>1, <1>2, <1>3, ForestSteps

\* Before there is a bocage there is nothing to search.
LEMMA SearchStart ==
    TreeInit => ChartInv /\ SoundForestInv /\ SearchInv /\ NullingInv
BY ChartInit DEF TreeInit, BocageInit, OrderInit, SoundForestInv, SearchInv, NullingInv

\* What a tree is searched in is a sound forest.
LEMMA TreesAreSound ==
    ASSUME PauseInv, SoundForestInv, CausesExist, turn # "none"
    PROVE  bocage.nulling \/ ForestIsSound
BY OrderIsSoundForest DEF PauseInv, SoundForestInv

\* marpa_t_next returns the parse trees of the bocage, each of them once, and is
\* exhausted when it has returned them all, for every grammar, input, order and rank,
\* as long as each and-node has a cause (which is draft_and_node_new's assertion, and
\* does not hold of every grammar).
THEOREM EveryParseIsReturned == TreeSpec => [](CausesExist => EveryParseOnce)
<1>1. PauseInv /\ SoundForestInv /\ SearchInv /\ NullingInv => (CausesExist => EveryParseOnce)
  BY SearchIsComplete, TreesAreSound
<1>2. /\ TreeInit => ForestInv /\ PauseInv /\ NookInv
      /\ ForestInv /\ [AllNext]_allVars => ForestInv'
      /\ PauseInv /\ [AllNext]_allVars => PauseInv'
      /\ ForestInv /\ PauseInv /\ NookInv /\ [AllNext]_allVars => NookInv'
  BY ForestInit, PauseInit, NookInit, ForestStep, PauseStep, NookStep
<1>3. /\ ChartInv /\ PauseInv /\ SoundForestInv /\ [AllNext]_allVars => ChartInv' /\ SoundForestInv'
      /\ PauseInv /\ NookInv /\ SearchInv /\ [AllNext]_allVars => SearchInv'
      /\ PauseInv /\ NullingInv /\ [AllNext]_allVars => NullingInv'
  BY SoundForestStep, SearchStep, NullingInvStep
<1> QED BY <1>1, <1>2, <1>3, SearchStart, PTL DEF TreeSpec

\* So it returns every parse of every input to a grammar without nulling symbols at the
\* end of a right recursive rule, whatever the order and the ranks.
THEOREM EveryParseIsReturnedOnce == NoNullsAfterRecursion => (TreeSpec => []EveryParseOnce)
<1> SUFFICES ASSUME NoNullsAfterRecursion PROVE TreeSpec => []EveryParseOnce
  OBVIOUS
<1>1. TreeInit => PauseInv /\ ChartInv /\ SoundForestInv /\ CausesExist
  BY PauseInit, SearchStart DEF TreeInit, OrderInit, BocageInit, CausesExist
<1>2. PauseInv /\ ChartInv /\ SoundForestInv /\ CausesExist /\ [AllNext]_allVars
        => PauseInv' /\ ChartInv' /\ SoundForestInv' /\ CausesExist'
  <2> SUFFICES ASSUME PauseInv, ChartInv, SoundForestInv, CausesExist, [AllNext]_allVars
               PROVE  PauseInv' /\ ChartInv' /\ SoundForestInv' /\ CausesExist'
    OBVIOUS
  <2>1. PauseInv' /\ ChartInv' /\ SoundForestInv'
    BY PauseStep, SoundForestStep
  <2>2. bocage' = bocage \/ BocageNext
    BY ForestSteps DEF allVars, orderVars, bocageVars, ForestUnchanged
  <2>3. CASE bocage' = bocage
    BY <2>1, <2>3 DEF CausesExist
  <2> QED BY <2>1, <2>2, <2>3, CausesKept
<1>3. TreeSpec => [](CausesExist => EveryParseOnce)
  BY EveryParseIsReturned
<1> QED BY <1>1, <1>2, <1>3, PTL DEF TreeSpec
=============================================================================
