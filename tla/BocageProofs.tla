---------------------------- MODULE BocageProofs ----------------------------
(***************************************************************************)
(* Proofs about the bocage and its orders, for every grammar, every input  *)
(* and every rank: the search for the items of a bocage ends, and the      *)
(* or-nodes and and-nodes made of them are finitely many and sound, if each *)
(* and-node has a cause.  With NoNullsAfterRecursion each has one, and the *)
(* bocage is exactly what the reference derives of the tokens.             *)
(***************************************************************************)
EXTENDS Order, BocageReference, RecognizerRefinementProofs

-----------------------------------------------------------------------------
(***************************************************************************)
(* The links of the chart that a bocage is made of.  The sources of a link *)
(* are in the chart and divide its effect; an item whose dot has moved has *)
(* a link; Leo items never follow each other in a circle, and are of right *)
(* recursive rules.                                                        *)
(***************************************************************************)
SourcesAreThere ==
    /\ \A k \in tokenLinks :
          /\ k.effect \in items /\ k.pred \in items /\ ~ IsCompletion(k.pred.ahm)
          /\ k.pred.at < k.effect.at /\ k.effect = Advance(k.pred, k.effect.at)
    /\ \A k \in completionLinks :
          /\ k.effect \in items /\ k.pred \in items /\ ~ IsCompletion(k.pred.ahm)
          /\ k.cause \in items /\ IsCompletion(k.cause.ahm) /\ k.pred.at = k.cause.origin
          /\ k.effect = Advance(k.pred, k.cause.at)

HasLink(i) ==
    \/ \E k \in tokenLinks : k.effect = i
    \/ \E k \in completionLinks : k.effect = i
    \/ \E k \in leoLinks : k.effect = i

MovedAreLinked == \A i \in items : i.ahm[2] > 0 => HasLink(i)

LimsFounded == \A C \in SUBSET lims : C # {} => \E l \in C : PredecessorOf(l) \cap C = {}

LimsRecur == \A l \in lims : IsLeoCompletion(Trailhead(l))

LinkageInv ==
    /\ SourcesAreThere /\ MovedAreLinked /\ LimsFounded /\ LimsRecur
    /\ IsFiniteSet(lims) /\ IsFiniteSet(tokenLinks)

ChartInv == SpanInv /\ PredictInv /\ LeoInv /\ LinkInv /\ LinkageInv

\* A finite set has finitely many images.
LEMMA ImageIsFinite ==
    ASSUME NEW S, IsFiniteSet(S), NEW f, DOMAIN f = S
    PROVE  IsFiniteSet({f[x] : x \in S})
<1> DEFINE T == {f[x] : x \in S}
           g == [x \in S |-> f[x]]
<1>1. g \in Surjection(S, T)
  BY DEF Surjection
<1> QED BY <1>1, FS_Surjection

\* The empty chart has no link.
LEMMA LinkageInit == Init => LinkageInv
BY FS_EmptySet DEF Init, LinkageInv, SourcesAreThere, MovedAreLinked, LimsFounded, LimsRecur

\* A step that adds no link adds predictions only.
LEMMA LinkageKept ==
    ASSUME LinkageInv, items \subseteq items', \A i \in items' \ items : i.ahm[2] = 0,
           UNCHANGED linkVars
    PROVE  SourcesAreThere' /\ MovedAreLinked' /\ IsFiniteSet(tokenLinks')
<1>1. SourcesAreThere'
  BY DEF LinkageInv, SourcesAreThere, linkVars, Advance
<1>2. MovedAreLinked'
  BY DEF LinkageInv, MovedAreLinked, HasLink, linkVars
<1> QED BY <1>1, <1>2 DEF LinkageInv, linkVars

\* A token makes a link for each item that waits for it.
LEMMA LinkageScan ==
    ASSUME SpanInv, LinkageInv, [Next]_vars, NEW a \in alternatives, ScanToken(a)
    PROVE  SourcesAreThere' /\ MovedAreLinked' /\ IsFiniteSet(tokenLinks')
<1> DEFINE preds == Pims(a.start, a.sym)
           link == [i \in preds |-> [effect |-> Advance(i, current), pred |-> i, token |-> a]]
<1> PICK new : new = {link[i] : i \in preds}
  OBVIOUS
<1>0. TypeInv /\ current \in Nat /\ pc = "scan" /\ phase = "during" /\ a.start < a.end
      /\ a.start \in Nat /\ a.end \in Nat /\ a.end <= current
  BY TokenTypes, CurrentType DEF SpanInv, InputInv, PendingTokens, ScanToken
<1>1. /\ items' = items \cup {Advance(i, current) : i \in preds}
      /\ tokenLinks' = tokenLinks \cup new
      /\ completionLinks' = completionLinks /\ leoLinks' = leoLinks
  BY DEF ScanToken
<1>2. \A i \in preds : i \in items /\ i \in Item /\ i.at = a.start /\ ~ IsCompletion(i.ahm)
  BY <1>0, PimsTypes
<1>3. \A k \in new : \E i \in preds :
          /\ k.effect = Advance(i, current) /\ k.pred = i
          /\ k.effect.at = current
  BY <1>0, <1>2, AdvanceType
<1>4. ASSUME NEW i \in preds PROVE \E k \in new : k.effect = Advance(i, current)
  <2>1. link[i].effect = Advance(i, current)
    OBVIOUS
  <2>2. link[i] \in new
    OBVIOUS
  <2> HIDE DEF link
  <2> QED BY <2>1, <2>2
<1>5. IsFiniteSet(tokenLinks')
  <2>1. items = {} \/ items \subseteq ItemsUpTo(current)
    BY <1>0 DEF SpanInv, ItemsSpan, InputInv, TypeInv, TypeOK, ItemsUpTo, Item
  <2>2. IsFiniteSet(items)
    BY <1>0, <2>1, ItemsAreFinite, FS_Subset, FS_EmptySet
  <2>3. IsFiniteSet(preds)
    BY <1>2, <2>2, FS_Subset
  <2>4. IsFiniteSet(new)
    <3>1. DOMAIN link = preds
      OBVIOUS
    <3> HIDE DEF link, preds
    <3> QED BY <2>3, <3>1, ImageIsFinite
  <2> QED BY <1>1, <2>4, FS_Union DEF LinkageInv
<1> HIDE DEF link
<1>6. SourcesAreThere'
  <2>1. ASSUME NEW k \in tokenLinks'
        PROVE  /\ k.effect \in items' /\ k.pred \in items' /\ ~ IsCompletion(k.pred.ahm)
               /\ k.pred.at < k.effect.at /\ k.effect = Advance(k.pred, k.effect.at)
    <3>1. CASE k \in tokenLinks
      BY <1>1, <3>1 DEF LinkageInv, SourcesAreThere
    <3>2. CASE k \in new
      <4>1. PICK i \in preds : k.effect = Advance(i, current) /\ k.pred = i /\ k.effect.at = current
        BY <1>3, <3>2
      <4>2. i \in items /\ i.at = a.start /\ ~ IsCompletion(i.ahm)
        BY <1>2
      <4>3. i.at < current
        BY <1>0, <4>2
      <4> HIDE DEF preds
      <4> QED BY <1>1, <4>1, <4>2, <4>3
    <3> QED BY <1>1, <3>1, <3>2
  <2>2. ASSUME NEW k \in completionLinks'
        PROVE  /\ k.effect \in items' /\ k.pred \in items' /\ ~ IsCompletion(k.pred.ahm)
               /\ k.cause \in items' /\ IsCompletion(k.cause.ahm) /\ k.pred.at = k.cause.origin
               /\ k.effect = Advance(k.pred, k.cause.at)
    BY <1>1 DEF LinkageInv, SourcesAreThere
  <2> QED BY <2>1, <2>2 DEF SourcesAreThere, Advance
<1>7. MovedAreLinked'
  <2> HIDE DEF preds
  <2>1. ASSUME NEW i \in items', i.ahm[2] > 0 PROVE HasLink(i)'
    <3>1. CASE i \in items
      BY <1>1, <2>1, <3>1 DEF LinkageInv, MovedAreLinked, HasLink
    <3>2. CASE i \notin items
      <4>1. \E k \in new : k.effect = i
        BY <1>1, <1>4, <3>2
      <4> QED BY <1>1, <4>1 DEF HasLink
    <3> QED BY <3>1, <3>2
  <2> QED BY <2>1 DEF MovedAreLinked
<1> QED BY <1>5, <1>6, <1>7

\* So does a completion, one link in all if there is a Leo item.
LEMMA LinkageLeo ==
    ASSUME SpanInv, LinkageInv, [Next]_vars, NEW cause \in stack, CompleteByLeo(cause)
    PROVE  SourcesAreThere' /\ MovedAreLinked' /\ IsFiniteSet(tokenLinks')
<1>1. PICK k : leoLinks' = leoLinks \cup {k} /\ items' = items \cup {k.effect}
  BY LeoLink
<1>2. tokenLinks' = tokenLinks /\ completionLinks' = completionLinks
  BY DEF CompleteByLeo
<1>3. SourcesAreThere'
  BY <1>1, <1>2 DEF LinkageInv, SourcesAreThere, Advance
<1>4. MovedAreLinked'
  BY <1>1, <1>2 DEF LinkageInv, MovedAreLinked, HasLink
<1> QED BY <1>2, <1>3, <1>4 DEF LinkageInv

\* A completion makes a link for each item that waits for its left side.
LEMMA LinkageEarley ==
    ASSUME SpanInv, LinkageInv, [Next]_vars, NEW cause \in stack, CompleteByEarley(cause)
    PROVE  SourcesAreThere' /\ MovedAreLinked' /\ IsFiniteSet(tokenLinks')
<1> DEFINE preds == Pims(cause.origin, LhsOf(cause.ahm))
<1> PICK new :
        new = {[effect |-> Advance(i, current), pred |-> i, cause |-> cause] : i \in preds}
  OBVIOUS
<1>0. TypeInv /\ cause \in items /\ IsCompletion(cause.ahm) /\ cause.at = current
  BY CauseSpan DEF SpanInv, InputInv
<1>1. /\ items' = items \cup {Advance(i, current) : i \in preds}
      /\ completionLinks' = completionLinks \cup new
      /\ tokenLinks' = tokenLinks /\ leoLinks' = leoLinks
  BY DEF CompleteByEarley
<1>2. \A i \in preds : i \in items /\ i.at = cause.origin /\ ~ IsCompletion(i.ahm)
  BY <1>0, PimsTypes
<1>3. \A k \in new : \E i \in preds :
          k.effect = Advance(i, current) /\ k.pred = i /\ k.cause = cause
  OBVIOUS
<1>4. ASSUME NEW i \in preds PROVE \E k \in new : k.effect = Advance(i, current)
  <2>1. PICK e : e = Advance(i, current)
    OBVIOUS
  <2>2. PICK k : k = [effect |-> e, pred |-> i, cause |-> cause]
    OBVIOUS
  <2>3. k \in new
    BY <2>1, <2>2
  <2>4. k.effect = e
    BY <2>2
  <2> QED BY <2>1, <2>3, <2>4
<1> HIDE DEF preds
<1>5. ASSUME NEW k \in completionLinks'
      PROVE  /\ k.effect \in items' /\ k.pred \in items' /\ ~ IsCompletion(k.pred.ahm)
             /\ k.cause \in items' /\ IsCompletion(k.cause.ahm) /\ k.pred.at = k.cause.origin
             /\ k.effect = Advance(k.pred, k.cause.at)
  <2>1. CASE k \in completionLinks
    BY <1>1, <2>1 DEF LinkageInv, SourcesAreThere
  <2>2. CASE k \in new
    <3>1. PICK i \in preds : k.effect = Advance(i, current) /\ k.pred = i /\ k.cause = cause
      BY <1>3, <2>2
    <3> QED BY <1>0, <1>1, <1>2, <3>1
  <2> QED BY <1>1, <2>1, <2>2
<1>6. SourcesAreThere'
  BY <1>1, <1>5 DEF LinkageInv, SourcesAreThere, Advance
<1>7. MovedAreLinked'
  <2>1. ASSUME NEW i \in items', i.ahm[2] > 0 PROVE HasLink(i)'
    <3>1. CASE i \in items
      BY <1>1, <2>1, <3>1 DEF LinkageInv, MovedAreLinked, HasLink
    <3>2. CASE i \notin items
      <4>1. \E k \in new : k.effect = i
        BY <1>1, <1>4, <3>2
      <4> QED BY <1>1, <4>1 DEF HasLink
    <3> QED BY <3>1, <3>2
  <2> QED BY <2>1 DEF MovedAreLinked
<1> QED BY <1>1, <1>6, <1>7 DEF LinkageInv

\* A Leo item that is populated is the predecessor of none that was before it, nor its own.
LEMMA FoundedPopulate ==
    ASSUME SpanInv, PredictInv, LeoInv, LeoInv', LimsFounded,
           NEW n \in newLims, PopulateLim(n)
    PROVE  LimsFounded' /\ (IsFiniteSet(lims) => IsFiniteSet(lims'))
<1>1. PICK new : lims' = lims \cup {new} /\ new.sym = n.sym /\ new.at = n.at /\ new.base = n.base
  <2>1. PICK top, origin, cil : lims' = lims \cup {Populated(n, top, origin, cil)}
    BY DEF PopulateLim
  <2>2. PICK new : new = Populated(n, top, origin, cil)
    OBVIOUS
  <2>3. new.sym = n.sym /\ new.at = n.at /\ new.base = n.base
    BY <2>2 DEF Populated
  <2> QED BY <2>1, <2>2, <2>3
<1>2. ASSUME NEW l \in lims, new \notin lims, new \in PredecessorOf(l)' PROVE FALSE
  <2>1. new.at = l.base.origin /\ new.sym = LhsOf(l.base.ahm)
    BY <1>2 DEF PredecessorOf, LimsFor
  <2>2. n \in PendingPredecessorOf(l)
    BY <1>1, <2>1 DEF PendingPredecessorOf
  <2>3. PICK p \in PredecessorOf(l) : TRUE
    BY <2>2 DEF LeoInv, LimsFollow
  <2>4. p \in lims /\ p.at = new.at /\ p.sym = new.sym
    BY <2>1, <2>3 DEF PredecessorOf, LimsFor
  <2>5. p \in lims' /\ new \in LimsFor(p.at, p.sym)'
    BY <1>1, <2>4 DEF LimsFor
  <2>6. new = p
    BY <2>5 DEF LeoInv, LimsAlone
  <2> QED BY <1>2, <2>4, <2>6
<1>3. new \notin PredecessorOf(new)' \/ new \in lims
  <2>1. PendingPredecessorOf(n) = {}
    BY PopulatedLast
  <2> QED BY <1>1, <2>1 DEF PendingPredecessorOf, PredecessorOf, LimsFor
<1>4. \A l : PredecessorOf(l)' \subseteq PredecessorOf(l) \cup {new}
  BY <1>1 DEF PredecessorOf, LimsFor
<1>5. ASSUME NEW C \in SUBSET lims', C # {} PROVE \E l \in C : PredecessorOf(l)' \cap C = {}
  <2>1. CASE new \in lims
    <3>1. lims' = lims
      BY <1>1, <2>1
    <3>2. PICK l \in C : PredecessorOf(l) \cap C = {}
      BY <1>5, <3>1 DEF LimsFounded
    <3> QED BY <3>1, <3>2 DEF PredecessorOf, LimsFor
  <2>2. CASE new \notin lims /\ C \cap lims # {}
    <3>1. PICK l \in C \cap lims : PredecessorOf(l) \cap (C \cap lims) = {}
      BY <2>2 DEF LimsFounded
    <3>2. new \notin PredecessorOf(l)'
      BY <1>2, <2>2
    <3>3. PredecessorOf(l) \subseteq lims
      BY DEF PredecessorOf, LimsFor
    <3> QED BY <1>4, <3>1, <3>2, <3>3
  <2>3. CASE new \notin lims /\ C \cap lims = {}
    <3>1. C = {new}
      BY <1>1, <1>5, <2>3
    <3> QED BY <1>3, <2>3, <3>1
  <2> QED BY <2>1, <2>2, <2>3
<1>6. LimsFounded'
  BY <1>5 DEF LimsFounded
<1> QED BY <1>1, <1>6, FS_AddElement

\* Each step of the recognizer keeps LinkageInv.
LEMMA LinkageStep ==
    ASSUME SpanInv, PredictInv, LeoInv, LeoInv', LinkageInv, [Next]_vars
    PROVE  LinkageInv'
<1>0. TypeInv /\ items \subseteq items'
  BY ItemsGrow DEF SpanInv, InputInv
<1>1. (\E n \in newLims : PopulateLim(n)) \/ lims' = lims
  <2>1. EarlemeStep => lims' = lims
    BY EarlemeSteps DEF SpanInv
  <2> QED BY <1>0, <2>1, OtherSteps DEF StartInput, ScanToken, CompleteByLeo, CompleteByEarley,
             PredictAndPostdot
<1>2. LimsFounded' /\ IsFiniteSet(lims')
  <2>1. CASE lims' = lims
    BY <2>1 DEF LinkageInv, LimsFounded, PredecessorOf, LimsFor
  <2>2. ASSUME NEW n \in newLims, PopulateLim(n) PROVE LimsFounded' /\ IsFiniteSet(lims')
    BY <2>2, FoundedPopulate DEF LinkageInv
  <2> QED BY <1>1, <2>1, <2>2
<1>3. SourcesAreThere' /\ MovedAreLinked' /\ IsFiniteSet(tokenLinks')
  <2>1. CASE StartInput
    <3>1. items' = StartItems /\ UNCHANGED linkVars
      BY <2>1 DEF StartInput, linkVars
    <3> QED BY <1>0, <3>1, StartItemsSpan, LinkageKept
  <2>2. CASE EarlemeStep
    BY <2>2, EarlemeSteps, LinkageKept DEF SpanInv
  <2>3. CASE \E a \in alternatives : ScanToken(a)
    BY <2>3, LinkageScan
  <2>4. CASE \E cause \in stack : CompleteByLeo(cause) \/ CompleteByEarley(cause)
    BY <2>4, LinkageLeo, LinkageEarley
  <2>5. CASE PredictAndPostdot
    <3>1. /\ items' = items \cup (AtCurrent \cup Predictions(AtCurrent, current))
          /\ UNCHANGED linkVars /\ current \in Nat
      BY <1>0, <2>5, CurrentType DEF PredictAndPostdot
    <3>2. \A i \in items' \ items : i.ahm[2] = 0
      <4>1. \A i \in Predictions(AtCurrent, current) : i.ahm[2] = 0
        BY <3>1, PredictionsTypes, PredictionType, FirstAhmType
      <4> QED BY <3>1, <4>1 DEF AtCurrent
    <3> QED BY <1>0, <3>1, <3>2, LinkageKept
  <2>6. CASE \E n \in newLims : PopulateLim(n)
    BY <2>6, LinkageKept DEF PopulateLim, linkVars
  <2>7. CASE UNCHANGED <<items, linkVars>>
    BY <2>7, LinkageKept
  <2> QED BY <1>0, <2>1, <2>2, <2>3, <2>4, <2>5, <2>6, <2>7, OtherSteps
<1>4. LimsRecur'
  <2>1. ASSUME NEW n \in newLims, PopulateLim(n)
        PROVE  \E l : /\ lims' = lims \cup {l} /\ l.base = n.base
    <3> DEFINE Of(p) == Populated(n, p.top, p.origin, MergedCil(p, Trailhead(n)))
               own == Populated(n, Trailhead(n), n.base.origin, EventAhms(Trailhead(n)))
    <3>1. \/ \E p \in PredecessorOf(n) : lims' = lims \cup {Of(p)}
          \/ lims' = lims \cup {own}
      BY <2>1 DEF PopulateLim
    <3>2. own.base = n.base /\ \A p : Of(p).base = n.base
      BY DEF Populated
    <3> HIDE DEF Of, own
    <3> QED BY <3>1, <3>2
  <2>2. \A n \in newLims : IsLeoCompletion(Trailhead(n))
    BY TrailheadGroup
  <2>3. CASE lims' = lims
    BY <2>3 DEF LinkageInv, LimsRecur
  <2>4. ASSUME NEW n \in newLims, PopulateLim(n) PROVE LimsRecur'
    <3>1. PICK l : lims' = lims \cup {l} /\ l.base = n.base
      BY <2>1, <2>4
    <3>2. Trailhead(l) = Trailhead(n)
      BY <3>1 DEF Trailhead
    <3> QED BY <2>2, <3>1, <3>2 DEF LinkageInv, LimsRecur
  <2> QED BY <1>1, <2>3, <2>4
<1> QED BY <1>2, <1>3, <1>4 DEF LinkageInv

\* A new recognizer has an empty chart.
LEMMA ChartInit == Init => ChartInv
BY SpanInit, PredictInit, LeoInit, LinkInit, LinkageInit DEF ChartInv

\* Each step of the recognizer keeps ChartInv.
LEMMA ChartStep ==
    ASSUME ChartInv, [Next]_vars
    PROVE  ChartInv'
<1>1. SpanInv' /\ PredictInv' /\ LeoInv'
  BY SpanStep, PredictStep, LeoStep DEF ChartInv
<1>2. LinkInv'
  BY <1>1, LinkStep DEF ChartInv
<1>3. LinkageInv'
  BY <1>1, LinkageStep DEF ChartInv
<1> QED BY <1>1, <1>2, <1>3 DEF ChartInv

\* What a step that leaves the chart alone keeps of the types of the recognizer.
LEMMA TypeUnchanged ==
    ASSUME TypeInv, RecognizerUnchanged
    PROVE  TypeInv'
BY DEF TypeInv, TypeOK, BuiltDuringInput, NothingBefore, CallState, RecognizerUnchanged,
       inputVars, chartVars, linkVars, valueVars, settingVars

\* A call that leaves the recognizer's chart alone.
LEMMA ChartUnchanged ==
    ASSUME ChartInv, RecognizerUnchanged
    PROVE  ChartInv'
<1> USE DEF RecognizerUnchanged, inputVars, chartVars, linkVars, valueVars, settingVars
<1>1. TypeInv'
  BY TypeUnchanged DEF ChartInv, SpanInv, InputInv
<1>2. SpanInv'
  BY <1>1 DEF ChartInv, SpanInv, InputInv, PendingTokens, FurthestIsBacked, ExhaustionIsExact,
              ItemsSpan, LimsSpan, Pims
<1>3. PredictInv'
  BY DEF ChartInv, PredictInv, StartSet, PredictionsClosed, PredictionsBacked, Done
<1>4. LeoInv'
  BY DEF ChartInv, LeoInv, LimsAlone, NewLimsAlone, LimsFollow, PredecessorOf,
         PendingPredecessorOf, LimsFor, Pims
<1>5. LinkInv'
  BY DEF ChartInv, LinkInv, LinksAreLeo, LinksAreMade, LimsFor
<1>6. LinkageInv'
  BY DEF ChartInv, LinkageInv, SourcesAreThere, MovedAreLinked, HasLink, LimsFounded,
         LimsRecur, PredecessorOf, LimsFor
<1> QED BY <1>2, <1>3, <1>4, <1>5, <1>6 DEF ChartInv

-----------------------------------------------------------------------------
(***************************************************************************)
(* The chain of a Leo item: the least set that has it and the predecessors *)
(* of its members.                                                         *)
(***************************************************************************)
Upward(C) == \A l \in C : PredecessorLim(l) \subseteq C
Chain(l) == {m \in lims : \A C \in SUBSET lims : l \in C /\ Upward(C) => m \in C}

AboveAs(f) == f = [l \in lims |-> {l} \cup UNION {f[p] : p \in PredecessorLim(l)}]

\* The predecessor of a Leo item, if it has one.
LEMMA PredecessorIs ==
    ASSUME ChartInv, NEW l \in lims
    PROVE  /\ PredecessorLim(l) \subseteq lims /\ PredecessorLim(l) \subseteq PredecessorOf(l)
           /\ l.base \in items /\ l.base.at = l.at /\ l.base.origin <= l.at
           /\ l.at \in Nat /\ l.base.origin \in Nat
           /\ ~ IsCompletion(l.base.ahm) /\ l.base.ahm \in Ahm
           /\ PredecessorLim(l) = {} => l.top = Trailhead(l) /\ l.origin = l.base.origin
           /\ \A p \in PredecessorLim(l) :
                /\ p.at = l.base.origin /\ p.at <= l.at /\ p.at \in Nat
                /\ p.top = l.top /\ p.origin = l.origin
<1>1. /\ l.base \in items /\ l.base.at = l.at /\ PostdotIs(l.base.ahm, l.sym)
      /\ l.base \in Item
  BY DEF ChartInv, SpanInv, LimsSpan, InputInv, TypeInv, TypeOK
<1>2. /\ l.base.origin <= l.at /\ l.at \in Nat /\ l.base.origin \in Nat
      /\ l.base.ahm \in Ahm /\ ~ IsCompletion(l.base.ahm)
  BY <1>1, ItemTypes DEF ChartInv, SpanInv, ItemsSpan, PostdotIs
<1>3. /\ PredecessorLim(l) \subseteq PredecessorOf(l) /\ PredecessorOf(l) \subseteq lims
      /\ \A p \in PredecessorOf(l) : p.at = l.base.origin
  BY DEF PredecessorLim, PredecessorOf, LimsFor
<1>4. PredecessorOf(l) = {} => l.top = Trailhead(l) /\ l.origin = l.base.origin
  BY DEF ChartInv, LeoInv, LimsFollow
<1>5. ASSUME NEW p \in PredecessorOf(l) PROVE p.top = l.top /\ p.origin = l.origin
  <2>1. PICK q \in PredecessorOf(l) : l.top = q.top /\ l.origin = q.origin
    BY <1>5 DEF ChartInv, LeoInv, LimsFollow
  <2>2. q = p
    BY DEF ChartInv, LeoInv, LimsAlone, PredecessorOf, LimsFor
  <2> QED BY <2>1, <2>2
<1>6. PredecessorLim(l) = {} => l.top = Trailhead(l) /\ l.origin = l.base.origin
  BY <1>4 DEF PredecessorLim
<1> QED BY <1>1, <1>2, <1>3, <1>5, <1>6

\* Chains are a solution of the recursion of Above.
LEMMA ChainIs ==
    ASSUME ChartInv, NEW l \in lims
    PROVE  /\ l \in Chain(l) /\ Chain(l) \subseteq lims /\ Upward(Chain(l))
           /\ \A C \in SUBSET lims : l \in C /\ Upward(C) => Chain(l) \subseteq C
<1>1. \A m \in lims : PredecessorLim(m) \subseteq lims
  BY PredecessorIs
<1>2. ASSUME NEW m \in Chain(l), NEW p \in PredecessorLim(m) PROVE p \in Chain(l)
  <2>1. p \in lims
    BY <1>1 DEF Chain
  <2>2. ASSUME NEW C \in SUBSET lims, l \in C, Upward(C) PROVE p \in C
    BY <2>2 DEF Chain, Upward
  <2> QED BY <2>1, <2>2 DEF Chain
<1> QED BY <1>2 DEF Chain, Upward

\* A chain is its Leo item and the chain of the predecessor.
LEMMA ChainUnfolds ==
    ASSUME ChartInv, NEW l \in lims
    PROVE  Chain(l) = {l} \cup UNION {Chain(p) : p \in PredecessorLim(l)}
<1> DEFINE C == {l} \cup UNION {Chain(p) : p \in PredecessorLim(l)}
<1>0. PredecessorLim(l) \subseteq lims
  BY PredecessorIs
<1>1. \A p \in PredecessorLim(l) :
          /\ p \in Chain(p) /\ Chain(p) \subseteq lims /\ Upward(Chain(p))
          /\ \A D \in SUBSET lims : p \in D /\ Upward(D) => Chain(p) \subseteq D
  BY <1>0, ChainIs
<1>2. C \subseteq lims /\ l \in C
  BY <1>1
<1>3. Upward(C)
  BY <1>1 DEF Upward
<1>4. Chain(l) \subseteq C
  BY <1>2, <1>3, ChainIs
<1>5. PredecessorLim(l) \subseteq Chain(l) /\ l \in Chain(l) /\ Chain(l) \subseteq lims
      /\ Upward(Chain(l))
  BY ChainIs DEF Upward
<1>6. C \subseteq Chain(l)
  BY <1>1, <1>5
<1> QED BY <1>4, <1>6

\* There is no other, since no Leo item is above itself.
LEMMA AboveIsChain ==
    ASSUME ChartInv, NEW l \in lims
    PROVE  Above[l] = Chain(l)
<1> DEFINE f == CHOOSE h : AboveAs(h)
           g == [m \in lims |-> Chain(m)]
<1>1. AboveAs(g)
  <2>1. \A m \in lims : g[m] = {m} \cup UNION {g[p] : p \in PredecessorLim(m)}
    <3>1. ASSUME NEW m \in lims PROVE Chain(m) = {m} \cup UNION {g[p] : p \in PredecessorLim(m)}
      <4>1. \A p \in PredecessorLim(m) : g[p] = Chain(p)
        BY PredecessorIs
      <4>2. {g[p] : p \in PredecessorLim(m)} = {Chain(p) : p \in PredecessorLim(m)}
        BY <4>1
      <4> HIDE DEF g
      <4> QED BY <4>2, ChainUnfolds
    <3> QED BY <3>1
  <2> QED BY <2>1, Zenon DEF AboveAs
<1>2. AboveAs(f)
  <2> HIDE DEF g
  <2> QED BY <1>1
<1>3. Above = f
  BY Zenon DEF Above, AboveAs
<1> HIDE DEF f
<1> DEFINE Bad == {m \in lims : f[m] # Chain(m)}
<1> SUFFICES ASSUME Bad # {} PROVE FALSE
  BY <1>3
<1>4. PICK m \in Bad : PredecessorOf(m) \cap Bad = {}
  BY DEF ChartInv, LinkageInv, LimsFounded
<1>5. m \in lims /\ f[m] # Chain(m)
  OBVIOUS
<1>6. \A p \in PredecessorLim(m) : f[p] = Chain(p)
  BY <1>4, <1>5, PredecessorIs
<1>7. f[m] = {m} \cup UNION {f[p] : p \in PredecessorLim(m)}
  BY <1>2, <1>5 DEF AboveAs
<1> HIDE DEF Bad
<1>8. {f[p] : p \in PredecessorLim(m)} = {Chain(p) : p \in PredecessorLim(m)}
  BY <1>6
<1>9. Chain(m) = {m} \cup UNION {Chain(p) : p \in PredecessorLim(m)}
  BY <1>5, ChainUnfolds
<1> QED BY <1>5, <1>7, <1>8, <1>9

\* The members of a chain: all but the first are predecessors of another, they share
\* the top and the origin, and one of them has no predecessor.
LEMMA AboveIs ==
    ASSUME ChartInv, NEW l \in lims
    PROVE  /\ l \in Above[l] /\ Above[l] \subseteq lims
           /\ \A m \in Above[l] :
                /\ m.top = l.top /\ m.origin = l.origin /\ m.at <= l.at
                /\ PredecessorLim(m) \subseteq Above[l]
                /\ m = l \/ \E n \in Above[l] : m \in PredecessorLim(n)
           /\ \E m \in Above[l] : PredecessorLim(m) = {}
<1> DEFINE C == Chain(l)
<1>1. Above[l] = C
  BY AboveIsChain
<1>2. /\ l \in C /\ C \subseteq lims /\ Upward(C)
      /\ \A D \in SUBSET lims : l \in D /\ Upward(D) => C \subseteq D
  BY ChainIs
<1> HIDE DEF C
<1>3. \A m \in C : m.top = l.top /\ m.origin = l.origin /\ m.at <= l.at
  <2> DEFINE D == {m \in C : m.top = l.top /\ m.origin = l.origin /\ m.at <= l.at}
  <2>1. l \in D
    BY <1>2, PredecessorIs
  <2>2. ASSUME NEW m \in D, NEW p \in PredecessorLim(m) PROVE p \in D
    <3>1. m \in lims /\ p \in C
      BY <1>2 DEF Upward
    <3>2. p.top = m.top /\ p.origin = m.origin /\ p.at <= m.at /\ p.at \in Nat /\ m.at \in Nat
      BY <3>1, PredecessorIs
    <3>3. l.at \in Nat
      BY PredecessorIs
    <3> QED BY <3>1, <3>2, <3>3
  <2>3. C \subseteq D
    BY <1>2, <2>1, <2>2 DEF Upward
  <2> QED BY <2>3
<1>4. ASSUME NEW m \in C, m # l PROVE \E n \in C : m \in PredecessorLim(n)
  <2> SUFFICES ASSUME \A n \in C : m \notin PredecessorLim(n) PROVE FALSE
    OBVIOUS
  <2>1. l \in C \ {m} /\ Upward(C \ {m}) /\ C \ {m} \in SUBSET lims
    BY <1>2, <1>4 DEF Upward
  <2> QED BY <1>2, <2>1
<1>5. \E m \in C : PredecessorLim(m) = {}
  <2>1. PICK m \in C : PredecessorOf(m) \cap C = {}
    BY <1>2 DEF ChartInv, LinkageInv, LimsFounded
  <2>2. PredecessorLim(m) \subseteq C /\ PredecessorLim(m) \subseteq PredecessorOf(m)
    BY <1>2, PredecessorIs DEF Upward
  <2> QED BY <2>1, <2>2
<1> QED BY <1>1, <1>2, <1>3, <1>4, <1>5 DEF Upward

-----------------------------------------------------------------------------
(***************************************************************************)
(* The items of a bocage.                                                  *)
(***************************************************************************)
\* The sources of a link, of the three kinds.
LinkSource(i, k) == k \in tokenLinks /\ i = k.pred
PairSource(i, k) == k \in completionLinks /\ (i = k.pred \/ i = k.cause)
LeoSource(i, k)  == k \in leoLinks /\ (i = k.cause \/ \E l \in Above[k.lim] : i = l.base)

\* What the sources of a set of items are, by the links into it.
LEMMA SourcesAre ==
    ASSUME NEW I, NEW i
    PROVE  i \in Sources(I) <=>
              \/ \E k \in tokenLinks : k.effect \in I /\ LinkSource(i, k)
              \/ \E k \in completionLinks : k.effect \in I /\ PairSource(i, k)
              \/ \E k \in leoLinks : k.effect \in I /\ LeoSource(i, k)
<1>1. i \in {k.pred : k \in {j \in tokenLinks : j.effect \in I}}
        <=> \E k \in tokenLinks : k.effect \in I /\ LinkSource(i, k)
  BY DEF LinkSource
<1>2. i \in UNION {{k.pred, k.cause} : k \in {j \in completionLinks : j.effect \in I}}
        <=> \E k \in completionLinks : k.effect \in I /\ PairSource(i, k)
  BY DEF PairSource
<1>3. i \in UNION {LeoSources(k) : k \in {j \in leoLinks : j.effect \in I}}
        <=> \E k \in leoLinks : k.effect \in I /\ LeoSource(i, k)
  <2>1. \A k \in leoLinks : i \in LeoSources(k) <=> LeoSource(i, k)
    BY DEF LeoSource, LeoSources
  <2> QED BY <2>1
<1>4. i \in Sources(I)
        <=> \/ i \in {k.pred : k \in {j \in tokenLinks : j.effect \in I}}
            \/ i \in UNION {{k.pred, k.cause} : k \in {j \in completionLinks : j.effect \in I}}
            \/ i \in UNION {LeoSources(k) : k \in {j \in leoLinks : j.effect \in I}}
  BY DEF Sources
<1> QED BY <1>1, <1>2, <1>3, <1>4

\* They are items, and more items have more sources.
LEMMA SourcesStay ==
    ASSUME ChartInv, NEW I \in SUBSET items
    PROVE  /\ Sources(I) \subseteq items
           /\ \A J \in SUBSET I : Sources(J) \subseteq Sources(I)
<1>1. ASSUME NEW i \in Sources(I) PROVE i \in items
  <2>1. CASE \E k \in tokenLinks : k.effect \in I /\ LinkSource(i, k)
    BY <2>1 DEF LinkSource, ChartInv, LinkageInv, SourcesAreThere
  <2>2. CASE \E k \in completionLinks : k.effect \in I /\ PairSource(i, k)
    BY <2>2 DEF PairSource, ChartInv, LinkageInv, SourcesAreThere
  <2>3. CASE \E k \in leoLinks : k.effect \in I /\ LeoSource(i, k)
    <3>1. PICK k \in leoLinks : LeoSource(i, k)
      BY <2>3
    <3>2. k.cause \in items /\ k.lim \in lims
      BY DEF ChartInv, LinkInv, LinksAreLeo, LimsFor
    <3>3. \A l \in Above[k.lim] : l.base \in items
      BY <3>2, AboveIs, PredecessorIs
    <3> QED BY <3>1, <3>2, <3>3 DEF LeoSource
  <2> QED BY <2>1, <2>2, <2>3, SourcesAre
<1>2. ASSUME NEW J \in SUBSET I, NEW i \in Sources(J) PROVE i \in Sources(I)
  BY <1>2, SourcesAre
<1> QED BY <1>1, <1>2

\* So a round of the search stays within the chart, and keeps what it has.
LEMMA OnwardStays ==
    ASSUME ChartInv, NEW I \in SUBSET items
    PROVE  /\ I \subseteq Onward(I) /\ Onward(I) \subseteq items
           /\ \A J \in SUBSET I : Onward(J) \subseteq Onward(I)
BY SourcesStay DEF Onward

\* The chart is finite.
LEMMA ChartIsFinite == ChartInv => IsFiniteSet(items)
<1> SUFFICES ASSUME ChartInv PROVE IsFiniteSet(items)
  OBVIOUS
<1>1. CASE phase = "before"
  <2>1. items = {}
    BY <1>1 DEF ChartInv, SpanInv, InputInv, TypeInv, NothingBefore
  <2> QED BY <2>1, FS_EmptySet
<1>2. CASE phase # "before"
  <2>1. current \in Nat
    BY <1>2 DEF ChartInv, SpanInv, InputInv, TypeInv, TypeOK
  <2>2. items \subseteq ItemsUpTo(current)
    BY <2>1 DEF ChartInv, SpanInv, ItemsSpan, InputInv, TypeInv, TypeOK, ItemsUpTo, Item
  <2> QED BY <2>1, <2>2, ItemsAreFinite, FS_Subset
<1> QED BY <1>1, <1>2

Rounds(f) == f = [I \in SUBSET items |-> IF Onward(I) = I THEN I ELSE f[Onward(I)]]
Closing(D) ==
    {i \in items : \A C \in SUBSET items : D \subseteq C /\ Onward(C) \subseteq C => i \in C}

\* The least closed sets are a solution of the recursion of Reached.
LEMMA ClosingIs ==
    ASSUME ChartInv, NEW D \in SUBSET items
    PROVE  /\ Onward(D) = D => Closing(D) = D
           /\ Closing(D) = Closing(Onward(D))
<1>1. Onward(D) = D => Closing(D) = D
  BY DEF Closing
<1>2. ASSUME NEW C \in SUBSET items, Onward(C) \subseteq C
      PROVE  D \subseteq C <=> Onward(D) \subseteq C
  BY <1>2, OnwardStays
<1>3. Closing(D) = Closing(Onward(D))
  BY <1>2 DEF Closing
<1> QED BY <1>1, <1>3

\* Every solution is the closing of a set, since the items are finitely many.
LEMMA RoundsClose ==
    ASSUME ChartInv, NEW f, Rounds(f), NEW C \in SUBSET items
    PROVE  f[C] = Closing(C)
<1> DEFINE S == items
           Good(D) == f[D] = Closing(D)
           Bad == {D \in SUBSET S : ~ Good(D)}
           Rest == {S \ D : D \in Bad}
<1> SUFFICES ASSUME Bad # {} PROVE FALSE
  OBVIOUS
<1>1. IsFiniteSet(S)
  BY ChartIsFinite
<1>2. IsWellFoundedOn(StrictSubsetOrdering(S), SUBSET S)
  BY <1>1, FS_StrictSubsetOrderingWellFounded, FS_FiniteSubsetsOfFinite
<1>3. Rest \subseteq SUBSET S /\ Rest # {}
  OBVIOUS
<1>4. PICK R \in Rest : \A T \in Rest : ~ (<<T, R>> \in StrictSubsetOrdering(S))
  <2> HIDE DEF Rest
  <2> QED BY <1>2, <1>3, WFMin
<1>5. PICK D \in Bad : R = S \ D
  BY <1>4
<1>6. f[D] = IF Onward(D) = D THEN D ELSE f[Onward(D)]
  BY <1>5 DEF Rounds
<1>7. CASE Onward(D) = D
  BY <1>5, <1>6, <1>7, ClosingIs
<1>8. CASE Onward(D) # D
  <2> DEFINE E == Onward(D)
  <2>1. E \in SUBSET S /\ D \subseteq E /\ E # D
    BY <1>5, <1>8, OnwardStays
  <2>2. <<S \ E, S \ D>> \in StrictSubsetOrdering(S)
    <3>1. S \ E \subseteq S \ D /\ S \ E # S \ D
      BY <1>5, <2>1
    <3> HIDE DEF E, S
    <3> QED BY <3>1 DEF StrictSubsetOrdering
  <2>3. E \notin Bad
    BY <1>4, <1>5, <2>2
  <2>4. Good(E)
    BY <2>1, <2>3
  <2>5. Closing(D) = Closing(E)
    BY <1>5, ClosingIs
  <2> QED BY <1>5, <1>6, <1>8, <2>1, <2>4, <2>5
<1> QED BY <1>7, <1>8

\* The closing of a set has it, and is closed.
LEMMA ClosingCloses ==
    ASSUME ChartInv, NEW D \in SUBSET items
    PROVE  D \subseteq Closing(D) /\ Closing(D) \subseteq items /\ Onward(Closing(D)) = Closing(D)
<1> DEFINE E == Closing(D)
<1>1. D \subseteq E /\ E \in SUBSET items
  BY DEF Closing
<1>2. \A C \in SUBSET items : D \subseteq C /\ Onward(C) \subseteq C => E \subseteq C
  BY DEF Closing
<1> HIDE DEF E
<1>3. E \subseteq Onward(E) /\ Onward(E) \in SUBSET items
  BY <1>1, OnwardStays
<1>4. ASSUME NEW C \in SUBSET items, D \subseteq C, Onward(C) \subseteq C
      PROVE  Onward(E) \subseteq C
  <2>1. E \in SUBSET C
    BY <1>2, <1>4
  <2>2. Onward(E) \subseteq Onward(C)
    BY <2>1, OnwardStays
  <2> QED BY <1>4, <2>2
<1>5. Onward(E) \subseteq E
  BY <1>3, <1>4 DEF E, Closing
<1> QED BY <1>1, <1>3, <1>5 DEF E

\* The search ends, and finds the least set that leaves out no source of what it has
\* but predictions.
LEMMA ReachedIs ==
    ASSUME ChartInv, NEW start \in items
    PROVE  /\ start \in Reached(start) /\ Reached(start) \subseteq items
           /\ \A i \in Sources(Reached(start)) : IsPredicted(i) \/ i \in Reached(start)
           /\ \A C \in SUBSET items : start \in C /\ Onward(C) \subseteq C => Reached(start) \subseteq C
<1> DEFINE f == CHOOSE h : Rounds(h)
           g == [D \in SUBSET items |-> Closing(D)]
<1>1. Rounds(g)
  <2>1. \A D \in SUBSET items : g[D] = IF Onward(D) = D THEN D ELSE g[Onward(D)]
    BY ClosingIs, OnwardStays
  <2> QED BY <2>1, Zenon DEF Rounds
<1>2. Rounds(f)
  <2> HIDE DEF g
  <2> QED BY <1>1
<1>3. Reached(start) = f[{start}]
  BY Zenon DEF Reached, Rounds
<1> HIDE DEF f
<1>4. Reached(start) = Closing({start})
  BY <1>2, <1>3, RoundsClose
<1>5. start \in Reached(start) /\ Reached(start) \subseteq items
      /\ Onward(Reached(start)) = Reached(start)
  BY <1>4, ClosingCloses
<1>6. \A C \in SUBSET items : start \in C /\ Onward(C) \subseteq C => Reached(start) \subseteq C
  BY <1>4 DEF Closing
<1> QED BY <1>5, <1>6 DEF Onward

-----------------------------------------------------------------------------
(***************************************************************************)
(* The or-nodes of a bocage.                                               *)
(***************************************************************************)
OrSpace == [type : {"or"}, rule : Rule, dot : Nat, nulls : Nat, origin : Nat, at : Nat]

\* The or-node of a place in a rule: there is one but at the very beginning.
LEMMA OrNodeIs ==
    ASSUME NEW r \in Rule, NEW d \in Nat, NEW n \in Nat, NEW f \in Nat, NEW e \in Nat
    PROVE  /\ d = 0 /\ n = 0 => OrNode(r, d, n, f, e) = NoOr
           /\ d # 0 \/ n # 0 =>
                /\ OrNode(r, d, n, f, e) \in OrSpace /\ OrNode(r, d, n, f, e) # NoOr
                /\ OrNode(r, d, n, f, e) = [type |-> "or", rule |-> r, dot |-> d, nulls |-> n,
                                            origin |-> f, at |-> e]
BY BocageAssumption DEF OrNode, OrSpace

\* It is NoOr there only.
LEMMA OrNodeIsNot ==
    \A r \in Rule : \A d \in Nat : \A n \in Nat : \A f \in Nat : \A e \in Nat :
        n # 0 \/ d # 0 => OrNode(r, d, n, f, e) # NoOr
BY OrNodeIs

\* The or-node of a place after the first symbol.
LEMMA MovedOrIs ==
    ASSUME NEW r \in Rule, NEW d \in Nat, d # 0, NEW f \in Nat, NEW e \in Nat,
           NEW o, o = OrNode(r, d, 0, f, e)
    PROVE  o \in OrSpace /\ o # NoOr /\ o.dot = d /\ o.origin = f /\ o.at = e
<1>1. o = [type |-> "or", rule |-> r, dot |-> d, nulls |-> 0, origin |-> f, at |-> e]
  BY DEF OrNode
<1> QED BY <1>1, BocageAssumption DEF OrSpace

\* What an or-node says of its place.
LEMMA OrNodeHas ==
    ASSUME NEW r \in Rule, NEW d \in Nat, NEW n \in Nat, NEW f \in Nat, NEW e \in Nat,
           NEW o, o = OrNode(r, d, n, f, e), o # NoOr
    PROVE  /\ o \in OrSpace /\ o.rule = r /\ o.dot = d /\ o.nulls = n
           /\ o.origin = f /\ o.at = e
<1>1. o = [type |-> "or", rule |-> r, dot |-> d, nulls |-> n, origin |-> f, at |-> e]
  BY DEF OrNode
<1> QED BY <1>1 DEF OrSpace

\* An item has what an or-node is made of, and spans some input once its dot has moved.
LEMMA ItemIs ==
    ASSUME ChartInv, NEW i \in items
    PROVE  /\ RuleOf(i.ahm) \in Rule /\ i.ahm[2] \in Nat /\ NullCount[i.ahm] \in Nat
           /\ i.origin \in Nat /\ i.at \in Nat /\ i.origin <= i.at /\ i.ahm \in Ahm
           /\ i.ahm[2] > 0 => i.origin < i.at
<1>1. i.ahm \in Ahm /\ i.origin \in Nat /\ i.at \in Nat
  BY ItemTypes DEF ChartInv, SpanInv, InputInv, TypeInv, TypeOK
<1> QED BY <1>1, AhmTypes, BocageAssumption DEF ChartInv, SpanInv, ItemsSpan

\* A Leo link completes what the Leo item of its cause says.
LEMMA LeoLinkIs ==
    ASSUME ChartInv, NEW k \in leoLinks
    PROVE  /\ k.cause \in items /\ IsCompletion(k.cause.ahm)
           /\ k.effect \in items /\ k.effect.at = k.cause.at
           /\ k.effect.ahm = k.lim.top /\ k.effect.origin = k.lim.origin
           /\ k.lim \in lims /\ k.lim.at = k.cause.origin
<1>1. LinksAreLeo
  BY DEF ChartInv, LinkInv
<1>2. /\ k.cause \in items /\ IsCompletion(k.cause.ahm) /\ k.effect \in items
      /\ k.effect = [ahm |-> k.lim.top, origin |-> k.lim.origin, at |-> k.cause.at]
      /\ k.lim \in LimsFor(k.cause.origin, LhsOf(k.cause.ahm))
  BY <1>1 DEF LinksAreLeo
<1>3. k.effect.ahm = k.lim.top /\ k.effect.origin = k.lim.origin /\ k.effect.at = k.cause.at
  BY <1>2
<1> QED BY <1>2, <1>3 DEF LimsFor

\* The dot of the effect of a link has moved.
LEMMA EffectIs ==
    ASSUME ChartInv
    PROVE  /\ \A k \in tokenLinks : k.effect \in items /\ k.effect.ahm[2] > 0
           /\ \A k \in completionLinks : k.effect \in items /\ k.effect.ahm[2] > 0
           /\ \A k \in leoLinks : k.effect \in items /\ k.effect.ahm[2] > 0
<1>1. ASSUME NEW i \in items, ~ IsCompletion(i.ahm), NEW e PROVE Advance(i, e).ahm[2] > 0
  BY <1>1, ItemIs, NextAhmType DEF Advance
<1>2. ASSUME NEW k \in leoLinks PROVE k.effect \in items /\ k.effect.ahm[2] > 0
  <2>1. k.effect \in items /\ k.lim \in lims /\ k.effect.ahm = k.lim.top
    BY LeoLinkIs
  <2>2. PICK m \in lims : PredecessorLim(m) = {} /\ m.top = k.lim.top
    BY <2>1, AboveIs, ZenonT(40)
  <2>3. m.top = NextAhm(m.base.ahm) /\ m.base \in items /\ ~ IsCompletion(m.base.ahm)
    BY <2>2, PredecessorIs DEF Trailhead
  <2> QED BY <2>1, <2>2, <2>3, ItemIs, NextAhmType
<1> QED BY <1>1, <1>2 DEF ChartInv, LinkageInv, SourcesAreThere

-----------------------------------------------------------------------------
(***************************************************************************)
(* The items of a bocage: what their links come from has an or-node, or is *)
(* a prediction without one.                                               *)
(***************************************************************************)
IsHeld(I) ==
    /\ I \subseteq items
    /\ \A s \in Sources(I) :
          /\ s \in items /\ OrOf(s) \in ItemOrs(I) \cup {NoOr}
          /\ ~ IsPredicted(s) => OrOf(s) \in ItemOrs(I)

\* The or-nodes of an item.
LEMMA OrsOfItem ==
    ASSUME ChartInv, NEW I \in SUBSET items, NEW i \in I, NEW n \in 0 .. NullCount[i.ahm]
    PROVE  /\ OrNode(RuleOf(i.ahm), i.ahm[2], n, i.origin, i.at) \in ItemOrs(I) \cup {NoOr}
           /\ n > 0 \/ i.ahm[2] > 0 =>
                OrNode(RuleOf(i.ahm), i.ahm[2], n, i.origin, i.at) \in ItemOrs(I)
<1>1. /\ n \in Nat /\ i \in items /\ RuleOf(i.ahm) \in Rule /\ i.ahm[2] \in Nat
      /\ i.origin \in Nat /\ i.at \in Nat
  BY ItemIs
<1>2. n # 0 \/ i.ahm[2] # 0 => OrNode(RuleOf(i.ahm), i.ahm[2], n, i.origin, i.at) # NoOr
  BY <1>1, OrNodeIsNot, Zenon
<1>3. OrNode(RuleOf(i.ahm), i.ahm[2], n, i.origin, i.at)
        \in UNION {{OrNode(RuleOf(j.ahm), j.ahm[2], m, j.origin, j.at) :
                       m \in 0 .. NullCount[j.ahm]} : j \in I}
  OBVIOUS
<1> QED BY <1>1, <1>2, <1>3 DEF ItemOrs

\* The items of the bocage that begins with an item are such a set.
LEMMA HeldIs ==
    ASSUME ChartInv, NEW start \in items
    PROVE  IsHeld(WithOr(Reached(start))) /\ start \in WithOr(Reached(start))
<1> DEFINE R == Reached(start)
           I == WithOr(R)
<1>1. start \in R /\ R \subseteq items /\ \A i \in Sources(R) : IsPredicted(i) \/ i \in R
  BY ReachedIs
<1> HIDE DEF R
<1>2. I = R \cup {i \in Sources(R) : IsPredicted(i) /\ NullCount[i.ahm] > 0}
  BY DEF WithOr
<1>3. I \subseteq items /\ R \subseteq I
  BY <1>1, <1>2, SourcesStay
<1>4. \A i \in I : i.ahm[2] > 0 => i \in R
  BY <1>2 DEF IsPredicted
<1> HIDE DEF I
<1>5. Sources(I) \subseteq Sources(R)
  BY <1>3, <1>4, EffectIs, SourcesAre
<1>6. ASSUME NEW s \in Sources(I)
      PROVE  /\ s \in items /\ OrOf(s) \in ItemOrs(I) \cup {NoOr}
             /\ ~ IsPredicted(s) => OrOf(s) \in ItemOrs(I)
  <2>1. s \in items /\ s \in Sources(R)
    BY <1>3, <1>5, SourcesStay
  <2>2. NullCount[s.ahm] \in 0 .. NullCount[s.ahm] /\ s.ahm[2] \in Nat
    BY <2>1, ItemIs
  <2>3. CASE s \in I
    BY <1>3, <2>1, <2>2, <2>3, OrsOfItem DEF OrOf, IsPredicted
  <2>4. CASE s \notin I
    <3>1. s.ahm[2] = 0 /\ NullCount[s.ahm] = 0
      BY <1>1, <1>2, <1>3, <2>1, <2>2, <2>4, ItemIs DEF IsPredicted, I
    <3>2. OrOf(s) = NoOr
      BY <3>1 DEF OrOf, OrNode
    <3> QED BY <2>1, <3>1, <3>2 DEF IsPredicted
  <2> QED BY <2>3, <2>4
<1>7. start \in I
  BY <1>1, <1>3
<1> QED BY <1>3, <1>6, <1>7 DEF IsHeld, I, R

-----------------------------------------------------------------------------
(***************************************************************************)
(* The steps of the path of a Leo link.                                    *)
(***************************************************************************)
LEMMA PathIs ==
    ASSUME ChartInv, NEW k \in leoLinks, NEW l \in Above[k.lim]
    PROVE  /\ k.lim \in lims /\ l \in lims /\ l.base \in items
           /\ l.base.at = l.at /\ l.at <= k.cause.origin /\ k.cause.origin < k.effect.at
           /\ RuleOf(Trailhead(l)) \in Rule /\ Trailhead(l)[2] \in Nat /\ Trailhead(l)[2] > 0
           /\ k.effect.at \in Nat /\ l.at \in Nat /\ l.base.origin \in Nat /\ l.base.origin <= l.at
           /\ PredecessorLim(l) = {} => k.effect.origin = l.base.origin
           /\ l = k.lim => k.cause.origin = l.at
<1>1. /\ k.cause \in items /\ IsCompletion(k.cause.ahm) /\ k.effect.at = k.cause.at
      /\ k.lim \in lims /\ k.lim.at = k.cause.origin /\ k.effect.origin = k.lim.origin
  BY LeoLinkIs
<1>2. /\ l \in lims /\ l.at <= k.lim.at /\ l.origin = k.lim.origin
  BY <1>1, AboveIs
<1>3. /\ l.base \in items /\ l.base.at = l.at /\ l.base.ahm \in Ahm /\ ~ IsCompletion(l.base.ahm)
      /\ l.at \in Nat /\ l.base.origin \in Nat /\ l.base.origin <= l.at
      /\ PredecessorLim(l) = {} => l.origin = l.base.origin
  BY <1>2, PredecessorIs
<1>4. RuleOf(Trailhead(l)) \in Rule /\ Trailhead(l)[2] \in Nat /\ Trailhead(l)[2] > 0
  BY <1>3, NextAhmType, AhmTypes DEF Trailhead
<1>5. k.cause.ahm[2] > 0 /\ k.cause.ahm \in Ahm
  BY <1>1, ItemIs, RuleTypes DEF IsCompletion
<1>6. k.cause.origin < k.cause.at /\ k.cause.at \in Nat
  BY <1>1, <1>5, ItemIs
<1> QED BY <1>1, <1>2, <1>3, <1>4, <1>6

\* What is looked up for a step is a completion of the step below.
LEMMA StepCausesAre ==
    ASSUME ChartInv, NEW k \in leoLinks, NEW l \in Above[k.lim], NEW ors
    PROVE  /\ StepCauses(k, l, ors) # {}
           /\ \A c \in StepCauses(k, l, ors) :
                \/ l = k.lim /\ c = OrOf(k.cause)
                \/ c = NoOr
                \/ /\ c \in ors
                   /\ \E m \in lims : c = OrOf(PathItem(m, k.effect.at)) /\ m.base.origin = l.at
<1>1. k.lim \in lims /\ Above[k.lim] \subseteq lims
  BY PathIs, AboveIs DEF ChartInv, LinkInv, LinksAreLeo, LimsFor
<1>2. l = k.lim \/ \E n \in Above[k.lim] : l \in PredecessorLim(n)
  BY <1>1, AboveIs
<1>3. \A m \in lims : l \in PredecessorLim(m) => m.base.origin = l.at
  BY PredecessorIs
<1>4. CASE l = k.lim
  BY <1>4 DEF StepCauses
<1>5. CASE l # k.lim
  <2>1. StepCauses(k, l, ors) = {FoundOr(OrOf(PathItem(m, k.effect.at)), ors) :
                                    m \in {n \in Above[k.lim] : l \in PredecessorLim(n)}}
    BY <1>5 DEF StepCauses
  <2>2. StepCauses(k, l, ors) # {}
    BY <1>2, <1>5, <2>1
  <2>3. ASSUME NEW c \in StepCauses(k, l, ors)
        PROVE  \/ c = NoOr
               \/ /\ c \in ors
                  /\ \E m \in lims : c = OrOf(PathItem(m, k.effect.at)) /\ m.base.origin = l.at
    <3>1. PICK m \in Above[k.lim] : l \in PredecessorLim(m)
                                   /\ c = FoundOr(OrOf(PathItem(m, k.effect.at)), ors)
      BY <2>1
    <3>2. m \in lims /\ m.base.origin = l.at
      BY <1>1, <1>3, <3>1
    <3> QED BY <3>1, <3>2 DEF FoundOr
  <2> QED BY <2>2, <2>3
<1> QED BY <1>4, <1>5

-----------------------------------------------------------------------------
(***************************************************************************)
(* The and-nodes of a bocage.                                              *)
(***************************************************************************)
SoundOrs(ors) ==
    \A o \in ors : o \in OrSpace /\ o # NoOr /\ o.origin <= o.at
                   /\ (o.at - o.origin = 0 => o.dot = 0)

\* What an and-node's cause may be.
Causes(ors) == ors \cup {NullingOr} \cup {TokenOr(t) : t \in Token}

OrsBelow(ors, a) == {a.pred, a.cause} \cap ors

\* An and-node divides its or-node, as Divides says of one in an order.
DividesAs(ors, o, a) ==
    /\ a = And(o, a.pred, a.cause)
    /\ a.cause \in Causes(ors) /\ a.pred \in ors \cup {NoOr}
    /\ \A c \in OrsBelow(ors, a) : o.origin <= c.origin /\ c.at <= o.at
    /\ a.pred \in ors /\ a.cause \in ors => a.pred.at <= a.cause.origin
    /\ o.dot = 0 =>
         a = And(o, OrNode(o.rule, o.dot, o.nulls - 1, o.origin, o.at), NullingOr)

\* The parts of an and-node.
LEMMA AndIs ==
    ASSUME NEW o, NEW p, NEW c
    PROVE  And(o, p, c).parent = o /\ And(o, p, c).pred = p /\ And(o, p, c).cause = c
BY DEF And

\* An and-node of an or-node whose dot has moved.
LEMMA DividesMoved ==
    ASSUME NEW ors, SoundOrs(ors), NEW o \in ors, o.dot # 0, NEW p \in ors \cup {NoOr},
           p \in ors => o.origin <= p.origin /\ p.at <= o.at,
           NEW c \in Causes(ors),
           c \in ors => /\ o.origin <= c.origin /\ c.at <= o.at
                        /\ p \in ors => p.at <= c.origin
    PROVE  DividesAs(ors, o, And(o, p, c))
<1> PICK a : a = And(o, p, c)
  OBVIOUS
<1>1. a.pred = p /\ a.cause = c /\ a = And(o, a.pred, a.cause)
  BY AndIs
<1> HIDE DEF And
<1>2. DividesAs(ors, o, a)
  BY <1>1 DEF DividesAs, OrsBelow
<1> QED BY <1>2

\* The or-nodes of a held set and of its Leo paths.
OrsOf(I) == ItemOrs(I) \cup PathOrs(I)

\* Only an or-node before the first symbol spans nothing.
LEMMA OrsAreSound ==
    ASSUME ChartInv, NEW I \in SUBSET items
    PROVE  SoundOrs(OrsOf(I))
<1>1. ASSUME NEW o \in ItemOrs(I)
      PROVE  o \in OrSpace /\ o # NoOr /\ o.origin <= o.at /\ (o.at - o.origin = 0 => o.dot = 0)
  <2>1. PICK i \in I : \E n \in 0 .. NullCount[i.ahm] :
            o = OrNode(RuleOf(i.ahm), i.ahm[2], n, i.origin, i.at)
    BY DEF ItemOrs
  <2>2. PICK n \in 0 .. NullCount[i.ahm] : o = OrNode(RuleOf(i.ahm), i.ahm[2], n, i.origin, i.at)
    BY <2>1
  <2>3. o # NoOr
    BY DEF ItemOrs
  <2>4. /\ n \in Nat /\ i \in items /\ RuleOf(i.ahm) \in Rule /\ i.ahm[2] \in Nat
        /\ i.origin \in Nat /\ i.at \in Nat /\ i.origin <= i.at
        /\ i.ahm[2] > 0 => i.origin < i.at
    BY ItemIs
  <2>5. o \in OrSpace /\ o.dot = i.ahm[2] /\ o.origin = i.origin /\ o.at = i.at
    <3> HIDE DEF OrSpace
    <3> QED BY <2>2, <2>3, <2>4, OrNodeHas
  <2> QED BY <2>3, <2>4, <2>5
<1>2. ASSUME NEW o \in PathOrs(I)
      PROVE  o \in OrSpace /\ o # NoOr /\ o.origin <= o.at /\ (o.at - o.origin = 0 => o.dot = 0)
  <2>1. PICK k \in leoLinks : \E l \in Above[k.lim] : o = ProperOrOf(PathItem(l, k.effect.at))
    BY DEF PathOrs
  <2>2. PICK l \in Above[k.lim] : o = ProperOrOf(PathItem(l, k.effect.at))
    BY <2>1
  <2>3. o = OrNode(RuleOf(Trailhead(l)), Trailhead(l)[2], 0, l.base.origin, k.effect.at)
    BY <2>2 DEF ProperOrOf, PathItem
  <2>4. /\ RuleOf(Trailhead(l)) \in Rule /\ Trailhead(l)[2] \in Nat /\ Trailhead(l)[2] # 0
        /\ l.base.origin \in Nat /\ k.effect.at \in Nat /\ l.base.origin < k.effect.at
    <3>1. k.cause.origin \in Nat
      BY LeoLinkIs, ItemIs
    <3> QED BY <3>1, PathIs
  <2>5. o \in OrSpace /\ o # NoOr /\ o.origin = l.base.origin /\ o.at = k.effect.at
    BY <2>3, <2>4, MovedOrIs
  <2> QED BY <2>4, <2>5
<1> QED BY <1>1, <1>2 DEF SoundOrs, OrsOf

\* The proper or-node of an item whose dot has moved.
LEMMA ProperOrIs ==
    ASSUME ChartInv, NEW I \in SUBSET items, NEW i \in I, i.ahm[2] > 0
    PROVE  /\ ProperOrOf(i) \in OrsOf(I) /\ ProperOrOf(i).dot # 0
           /\ ProperOrOf(i).origin = i.origin /\ ProperOrOf(i).at = i.at
<1>1. /\ RuleOf(i.ahm) \in Rule /\ i.ahm[2] \in Nat /\ i.ahm[2] # 0 /\ NullCount[i.ahm] \in Nat
      /\ i.origin \in Nat /\ i.at \in Nat
  BY ItemIs
<1>2. ProperOrOf(i) = OrNode(RuleOf(i.ahm), i.ahm[2], 0, i.origin, i.at)
  BY DEF ProperOrOf
<1>3. 0 \in 0 .. NullCount[i.ahm]
  BY <1>1
<1>4. ProperOrOf(i) \in OrsOf(I)
  BY <1>2, <1>3, OrsOfItem DEF OrsOf
<1>5. /\ ProperOrOf(i).dot = i.ahm[2]
      /\ ProperOrOf(i).origin = i.origin /\ ProperOrOf(i).at = i.at
  BY <1>1, <1>2, MovedOrIs
<1> QED BY <1>1, <1>4, <1>5

\* What the source of a link is divided into.
LEMMA SourceOrIs ==
    ASSUME ChartInv, NEW I, IsHeld(I), NEW s \in Sources(I)
    PROVE  /\ OrOf(s) \in OrsOf(I) \cup {NoOr}
           /\ OrOf(s) \in OrsOf(I) => OrOf(s).origin = s.origin /\ OrOf(s).at = s.at
           /\ ~ IsPredicted(s) => OrOf(s) \in OrsOf(I)
<1>1. s \in items /\ OrOf(s) \in ItemOrs(I) \cup {NoOr}
      /\ (~ IsPredicted(s) => OrOf(s) \in ItemOrs(I)) /\ I \in SUBSET items
  BY DEF IsHeld
<1>2. /\ RuleOf(s.ahm) \in Rule /\ s.ahm[2] \in Nat /\ NullCount[s.ahm] \in Nat
      /\ s.origin \in Nat /\ s.at \in Nat
  BY <1>1, ItemIs
<1>3. OrOf(s) = OrNode(RuleOf(s.ahm), s.ahm[2], NullCount[s.ahm], s.origin, s.at)
  BY DEF OrOf
<1>4. OrOf(s) \in OrsOf(I) => OrOf(s) # NoOr
  BY <1>1, OrsAreSound DEF SoundOrs
<1>5. OrOf(s) \in OrsOf(I) => OrOf(s).origin = s.origin /\ OrOf(s).at = s.at
  BY <1>2, <1>3, <1>4, OrNodeHas
<1> QED BY <1>1, <1>5 DEF OrsOf

-----------------------------------------------------------------------------
(***************************************************************************)
(* The and-nodes of each kind.                                             *)
(***************************************************************************)
LEMMA NullingDivides ==
    ASSUME ChartInv, NEW I \in SUBSET items, NEW a \in NullingAnds(I)
    PROVE  a.parent \in OrsOf(I) /\ DividesAs(OrsOf(I), a.parent, a)
<1> PICK ors : ors = OrsOf(I)
  OBVIOUS
<1>1. PICK i \in I : \E n \in 1 .. NullCount[i.ahm] :
          a = And(OrNode(RuleOf(i.ahm), i.ahm[2], n, i.origin, i.at),
                  OrNode(RuleOf(i.ahm), i.ahm[2], n - 1, i.origin, i.at), NullingOr)
  BY DEF NullingAnds
<1>2. PICK n \in 1 .. NullCount[i.ahm] :
          a = And(OrNode(RuleOf(i.ahm), i.ahm[2], n, i.origin, i.at),
                  OrNode(RuleOf(i.ahm), i.ahm[2], n - 1, i.origin, i.at), NullingOr)
  BY <1>1
<1> PICK o, p : /\ o = OrNode(RuleOf(i.ahm), i.ahm[2], n, i.origin, i.at)
                /\ p = OrNode(RuleOf(i.ahm), i.ahm[2], n - 1, i.origin, i.at)
  OBVIOUS
<1>3. /\ n \in Nat /\ n - 1 \in Nat /\ n # 0 /\ RuleOf(i.ahm) \in Rule /\ i.ahm[2] \in Nat
      /\ i.origin \in Nat /\ i.at \in Nat /\ NullCount[i.ahm] \in Nat
      /\ n \in 0 .. NullCount[i.ahm] /\ n - 1 \in 0 .. NullCount[i.ahm]
  <2>1. NullCount[i.ahm] \in Nat
    BY ItemIs
  <2> QED BY <2>1, ItemIs
<1>4. o \in ors /\ p \in ors \cup {NoOr} /\ SoundOrs(ors)
  BY <1>3, OrsOfItem, OrsAreSound DEF OrsOf
<1>5. /\ o.rule = RuleOf(i.ahm) /\ o.dot = i.ahm[2] /\ o.nulls = n
      /\ o.origin = i.origin /\ o.at = i.at
  <2>1. o # NoOr
    BY <1>4 DEF SoundOrs
  <2>2. /\ RuleOf(i.ahm) \in Rule /\ i.ahm[2] \in Nat /\ n \in Nat
        /\ i.origin \in Nat /\ i.at \in Nat
    BY <1>3
  <2>3. o = OrNode(RuleOf(i.ahm), i.ahm[2], n, i.origin, i.at)
    OBVIOUS
  <2> QED BY <2>1, <2>2, <2>3, OrNodeHas, SMTT(30)
<1>6. p \in ors => p.origin = i.origin /\ p.at = i.at
  <2>1. p # NoOr => p.origin = i.origin /\ p.at = i.at
    BY <1>3, OrNodeHas, SMTT(30)
  <2> QED BY <1>4, <2>1 DEF SoundOrs
<1>7. NullingOr \notin ors
  BY <1>4 DEF SoundOrs, OrSpace, NullingOr
<1>8. a = And(o, p, NullingOr) /\ a.parent = o /\ a.pred = p /\ a.cause = NullingOr
  BY <1>2, AndIs
<1>9. p = OrNode(o.rule, o.dot, o.nulls - 1, o.origin, o.at)
  BY <1>5
<1>10. DividesAs(ors, o, a)
  BY <1>3, <1>4, <1>5, <1>6, <1>7, <1>8, <1>9 DEF DividesAs, OrsBelow, Causes
<1> QED BY <1>4, <1>8, <1>10

\* A token divides the span of an item that waited for it.
LEMMA TokenDivides ==
    ASSUME ChartInv, NEW I, IsHeld(I), NEW a \in TokenAnds(I)
    PROVE  a.parent \in OrsOf(I) /\ DividesAs(OrsOf(I), a.parent, a)
<1> PICK ors : ors = OrsOf(I)
  OBVIOUS
<1>1. PICK k \in tokenLinks : k.effect \in I
                              /\ a = And(ProperOrOf(k.effect), OrOf(k.pred), TokenOr(k.token))
  BY DEF TokenAnds
<1>2. k.pred \in Sources(I) /\ I \in SUBSET items
  BY <1>1, SourcesAre DEF LinkSource, IsHeld
<1>3. /\ ProperOrOf(k.effect) \in ors /\ ProperOrOf(k.effect).dot # 0
      /\ ProperOrOf(k.effect).origin = k.effect.origin /\ ProperOrOf(k.effect).at = k.effect.at
  BY <1>1, <1>2, EffectIs, ProperOrIs
<1>4. /\ OrOf(k.pred) \in ors \cup {NoOr}
      /\ OrOf(k.pred) \in ors =>
           OrOf(k.pred).origin = k.pred.origin /\ OrOf(k.pred).at = k.pred.at
  BY <1>2, SourceOrIs
<1>5. /\ k.effect.origin = k.pred.origin /\ k.pred.at < k.effect.at
      /\ k.pred.at \in Nat /\ k.effect.at \in Nat /\ k.pred.origin \in Nat
  <2>1. /\ k.pred \in items /\ k.effect \in items /\ k.pred.at < k.effect.at
        /\ k.effect = Advance(k.pred, k.effect.at)
    BY DEF ChartInv, LinkageInv, SourcesAreThere
  <2> QED BY <2>1, ItemIs DEF Advance
<1>6. TokenOr(k.token) \in Causes(ors) /\ TokenOr(k.token) \notin ors
  <2>1. k.token \in Token
    BY DEF ChartInv, SpanInv, InputInv, TypeInv, TypeOK
  <2>2. SoundOrs(ors)
    BY <1>2, OrsAreSound
  <2> QED BY <2>1, <2>2 DEF Causes, SoundOrs, OrSpace, TokenOr
<1>7. DividesAs(ors, ProperOrOf(k.effect), a)
  BY <1>1, <1>2, <1>3, <1>4, <1>5, <1>6, DividesMoved, OrsAreSound
<1>8. a.parent = ProperOrOf(k.effect)
  BY <1>1, AndIs
<1> QED BY <1>3, <1>7, <1>8

\* So does a completed rule.
LEMMA CompletionDivides ==
    ASSUME ChartInv, NEW I, IsHeld(I), NEW a \in CompletionAnds(I)
    PROVE  a.parent \in OrsOf(I) /\ DividesAs(OrsOf(I), a.parent, a)
<1> PICK ors : ors = OrsOf(I)
  OBVIOUS
<1>1. PICK k \in completionLinks : k.effect \in I
                              /\ a = And(ProperOrOf(k.effect), OrOf(k.pred), OrOf(k.cause))
  BY DEF CompletionAnds
<1>2. k.pred \in Sources(I) /\ k.cause \in Sources(I) /\ I \in SUBSET items
  BY <1>1, SourcesAre DEF PairSource, IsHeld
<1>3. /\ ProperOrOf(k.effect) \in ors /\ ProperOrOf(k.effect).dot # 0
      /\ ProperOrOf(k.effect).origin = k.effect.origin /\ ProperOrOf(k.effect).at = k.effect.at
  BY <1>1, <1>2, EffectIs, ProperOrIs
<1>4. /\ OrOf(k.pred) \in ors \cup {NoOr}
      /\ OrOf(k.pred) \in ors =>
           OrOf(k.pred).origin = k.pred.origin /\ OrOf(k.pred).at = k.pred.at
  BY <1>2, SourceOrIs
<1>5. /\ k.pred \in items /\ k.cause \in items /\ k.effect \in items
      /\ IsCompletion(k.cause.ahm) /\ k.pred.at = k.cause.origin
      /\ k.effect.origin = k.pred.origin /\ k.effect.at = k.cause.at
  <2>1. /\ k.pred \in items /\ k.cause \in items /\ k.effect \in items
        /\ IsCompletion(k.cause.ahm) /\ k.pred.at = k.cause.origin
        /\ k.effect = Advance(k.pred, k.cause.at)
    BY DEF ChartInv, LinkageInv, SourcesAreThere
  <2> QED BY <2>1 DEF Advance
<1>6. /\ k.pred.at \in Nat /\ k.cause.at \in Nat /\ k.pred.origin \in Nat
      /\ k.pred.origin <= k.pred.at /\ k.cause.origin <= k.cause.at
  BY <1>5, ItemIs
<1>7. /\ OrOf(k.cause) \in ors /\ OrOf(k.cause) \in Causes(ors)
      /\ OrOf(k.cause).origin = k.cause.origin /\ OrOf(k.cause).at = k.cause.at
  <2>1. ~ IsPredicted(k.cause)
    BY <1>5, ItemIs, RuleTypes DEF IsCompletion, IsPredicted
  <2> QED BY <1>2, <2>1, SourceOrIs DEF Causes
<1>8. DividesAs(ors, ProperOrOf(k.effect), a)
  BY <1>1, <1>2, <1>3, <1>4, <1>5, <1>6, <1>7, DividesMoved, OrsAreSound
<1>9. a.parent = ProperOrOf(k.effect)
  BY <1>1, AndIs
<1> QED BY <1>3, <1>8, <1>9

\* The or-node that a step of a Leo path completes.
LEMMA StepParentIs ==
    ASSUME ChartInv, NEW I \in SUBSET items, NEW k \in leoLinks, k.effect \in I,
           NEW l \in Above[k.lim]
    PROVE  /\ StepParent(k, l) \in OrsOf(I) /\ StepParent(k, l).dot # 0
           /\ StepParent(k, l).origin = l.base.origin /\ StepParent(k, l).at = k.effect.at
<1>1. /\ RuleOf(Trailhead(l)) \in Rule /\ Trailhead(l)[2] \in Nat /\ Trailhead(l)[2] # 0
      /\ l.base.origin \in Nat /\ k.effect.at \in Nat
      /\ PredecessorLim(l) = {} => k.effect.origin = l.base.origin
  BY PathIs
<1>2. CASE PredecessorLim(l) = {}
  <2>1. StepParent(k, l) = ProperOrOf(k.effect)
    BY <1>2 DEF StepParent
  <2> QED BY <1>1, <1>2, <2>1, EffectIs, ProperOrIs
<1>3. CASE PredecessorLim(l) # {}
  <2>1. StepParent(k, l) = ProperOrOf(PathItem(l, k.effect.at))
    BY <1>3 DEF StepParent
  <2>2. ProperOrOf(PathItem(l, k.effect.at)) \in PathOrs(I)
    BY <1>3 DEF PathOrs
  <2>3. ProperOrOf(PathItem(l, k.effect.at))
          = OrNode(RuleOf(Trailhead(l)), Trailhead(l)[2], 0, l.base.origin, k.effect.at)
    BY DEF ProperOrOf, PathItem
  <2> QED BY <1>1, <2>1, <2>2, <2>3, MovedOrIs DEF OrsOf
<1> QED BY <1>2, <1>3

\* So does each step of a Leo path, if it finds its cause.
LEMMA LeoDivides ==
    ASSUME ChartInv, NEW I, IsHeld(I), NEW a \in LeoAnds(I, OrsOf(I)), a.cause # NoOr
    PROVE  a.parent \in OrsOf(I) /\ DividesAs(OrsOf(I), a.parent, a)
<1> PICK ors : ors = OrsOf(I)
  OBVIOUS
<1>1. PICK k \in leoLinks : k.effect \in I /\ \E l \in Above[k.lim] : a \in StepAnds(k, l, ors)
  BY DEF LeoAnds
<1>2. PICK l \in Above[k.lim] : a \in StepAnds(k, l, ors)
  BY <1>1
<1>3. PICK c \in StepCauses(k, l, ors) : a = And(StepParent(k, l), OrOf(l.base), c)
  BY <1>2 DEF StepAnds, Distinct
<1>4. a.parent = StepParent(k, l) /\ a.cause = c
  BY <1>3, AndIs
<1>5. k.cause \in Sources(I) /\ l.base \in Sources(I) /\ I \in SUBSET items
  BY <1>1, SourcesAre DEF LeoSource, IsHeld
<1>6. /\ StepParent(k, l) \in ors /\ StepParent(k, l).dot # 0
      /\ StepParent(k, l).origin = l.base.origin /\ StepParent(k, l).at = k.effect.at
  BY <1>1, <1>5, StepParentIs
<1>7. /\ OrOf(l.base) \in ors \cup {NoOr}
      /\ OrOf(l.base) \in ors => OrOf(l.base).origin = l.base.origin /\ OrOf(l.base).at = l.at
  BY <1>5, SourceOrIs, PathIs
<1>8. /\ l.at \in Nat /\ k.effect.at \in Nat /\ l.base.origin \in Nat /\ l.base.origin <= l.at
      /\ l.at < k.effect.at
  <2>1. k.cause.origin \in Nat
    BY LeoLinkIs, ItemIs
  <2> QED BY <2>1, PathIs
<1>9. c \in ors /\ c.origin = l.at /\ c.at = k.effect.at
  <2>1. CASE l = k.lim /\ c = OrOf(k.cause)
    <3>1. ~ IsPredicted(k.cause) /\ k.cause.at = k.effect.at /\ k.cause.origin = l.at
      BY <2>1, LeoLinkIs, ItemIs, RuleTypes DEF IsCompletion, IsPredicted
    <3> QED BY <1>5, <2>1, <3>1, SourceOrIs
  <2>2. CASE c \in ors /\ \E m \in lims : c = OrOf(PathItem(m, k.effect.at)) /\ m.base.origin = l.at
    <3>1. PICK m \in lims : c = OrOf(PathItem(m, k.effect.at)) /\ m.base.origin = l.at
      BY <2>2
    <3>2. Trailhead(m) \in Ahm
      BY <3>1, PredecessorIs, NextAhmType DEF Trailhead
    <3>3. RuleOf(Trailhead(m)) \in Rule /\ Trailhead(m)[2] \in Nat /\ NullCount[Trailhead(m)] \in Nat
      BY <3>2, AhmTypes, BocageAssumption
    <3>4. c = OrNode(RuleOf(Trailhead(m)), Trailhead(m)[2], NullCount[Trailhead(m)],
                     m.base.origin, k.effect.at)
      BY <3>1 DEF OrOf, PathItem
    <3>5. m.base.origin \in Nat /\ k.effect.at \in Nat /\ c # NoOr
      BY <1>4, <1>8, <3>1
    <3>6. c.origin = m.base.origin /\ c.at = k.effect.at
      BY <3>3, <3>4, <3>5, OrNodeHas, SMTT(30)
    <3> QED BY <2>2, <3>1, <3>6
  <2> QED BY <1>4, <2>1, <2>2, StepCausesAre
<1>10. DividesAs(ors, StepParent(k, l), And(StepParent(k, l), OrOf(l.base), c))
  <2>1. SoundOrs(ors) /\ c \in Causes(ors)
    BY <1>5, <1>9, OrsAreSound DEF Causes
  <2> QED BY <1>6, <1>7, <1>8, <1>9, <2>1, DividesMoved
<1> QED BY <1>3, <1>4, <1>6, <1>10

\* Every or-node is divided.
LEMMA OrsHaveAnds ==
    ASSUME ChartInv, NEW I, IsHeld(I), NEW o \in OrsOf(I)
    PROVE  \E a \in NullingAnds(I) \cup TokenAnds(I) \cup CompletionAnds(I)
                      \cup LeoAnds(I, OrsOf(I)) : a.parent = o
<1> PICK ors : ors = OrsOf(I)
  OBVIOUS
<1>1. ASSUME NEW k \in leoLinks, k.effect \in I, NEW l \in Above[k.lim], StepParent(k, l) = o
      PROVE  \E a \in LeoAnds(I, ors) : a.parent = o
  <2>1. PICK c : c \in StepCauses(k, l, ors)
    BY StepCausesAre
  <2>2. And(StepParent(k, l), OrOf(l.base), c) \in StepAnds(k, l, ors)
    BY <2>1 DEF StepAnds, Distinct
  <2>3. And(StepParent(k, l), OrOf(l.base), c) \in LeoAnds(I, ors)
    BY <1>1, <2>2 DEF LeoAnds
  <2> QED BY <1>1, <2>3, AndIs
<1>2. ASSUME NEW i \in I, i.ahm[2] > 0, o = ProperOrOf(i)
      PROVE  \E a \in TokenAnds(I) \cup CompletionAnds(I) \cup LeoAnds(I, ors) : a.parent = o
  <2>1. HasLink(i)
    BY <1>2 DEF IsHeld, ChartInv, LinkageInv, MovedAreLinked
  <2>2. ASSUME NEW k \in tokenLinks, k.effect = i PROVE \E a \in TokenAnds(I) : a.parent = o
    <3>1. And(ProperOrOf(k.effect), OrOf(k.pred), TokenOr(k.token)) \in TokenAnds(I)
      BY <2>2 DEF TokenAnds
    <3> QED BY <1>2, <2>2, <3>1, AndIs
  <2>3. ASSUME NEW k \in completionLinks, k.effect = i PROVE \E a \in CompletionAnds(I) : a.parent = o
    <3>1. And(ProperOrOf(k.effect), OrOf(k.pred), OrOf(k.cause)) \in CompletionAnds(I)
      BY <2>3 DEF CompletionAnds
    <3> QED BY <1>2, <2>3, <3>1, AndIs
  <2>4. ASSUME NEW k \in leoLinks, k.effect = i PROVE \E a \in LeoAnds(I, ors) : a.parent = o
    <3>1. PICK m \in Above[k.lim] : PredecessorLim(m) = {}
      BY AboveIs, LeoLinkIs
    <3>2. StepParent(k, m) = o
      BY <1>2, <2>4, <3>1 DEF StepParent
    <3> QED BY <1>1, <2>4, <3>2
  <2> QED BY <2>1, <2>2, <2>3, <2>4 DEF HasLink
<1>3. CASE o \in ItemOrs(I)
  <2>1. PICK i \in I : \E n \in 0 .. NullCount[i.ahm] :
            o = OrNode(RuleOf(i.ahm), i.ahm[2], n, i.origin, i.at)
    BY <1>3 DEF ItemOrs
  <2>2. PICK n \in 0 .. NullCount[i.ahm] : o = OrNode(RuleOf(i.ahm), i.ahm[2], n, i.origin, i.at)
    BY <2>1
  <2>3. NullCount[i.ahm] \in Nat /\ i.ahm[2] \in Nat
    BY ItemIs DEF IsHeld
  <2>4. CASE n = 0
    <3>1. o # NoOr
      BY <1>3 DEF ItemOrs
    <3>2. i.ahm[2] > 0 /\ o = ProperOrOf(i)
      BY <2>2, <2>3, <2>4, <3>1 DEF OrNode, ProperOrOf
    <3> QED BY <1>2, <3>2
  <2>5. CASE n # 0
    <3>1. n \in 1 .. NullCount[i.ahm]
      BY <2>3, <2>5
    <3>2. And(OrNode(RuleOf(i.ahm), i.ahm[2], n, i.origin, i.at),
              OrNode(RuleOf(i.ahm), i.ahm[2], n - 1, i.origin, i.at), NullingOr) \in NullingAnds(I)
      BY <3>1 DEF NullingAnds
    <3> QED BY <2>2, <3>2, AndIs
  <2> QED BY <2>4, <2>5
<1>4. CASE o \in PathOrs(I)
  <2>1. PICK k \in leoLinks : k.effect \in I /\ \E l \in Above[k.lim] :
            PredecessorLim(l) # {} /\ o = ProperOrOf(PathItem(l, k.effect.at))
    BY <1>4 DEF PathOrs
  <2>2. PICK l \in Above[k.lim] :
            PredecessorLim(l) # {} /\ o = ProperOrOf(PathItem(l, k.effect.at))
    BY <2>1
  <2>3. StepParent(k, l) = o
    BY <2>2 DEF StepParent
  <2> QED BY <1>1, <2>1, <2>3
<1> QED BY <1>3, <1>4 DEF OrsOf

-----------------------------------------------------------------------------
(***************************************************************************)
(* They are finitely many.                                                 *)
(***************************************************************************)
LEMMA OrsAreFinite ==
    ASSUME ChartInv, NEW I \in SUBSET items
    PROVE  IsFiniteSet(OrsOf(I))
<1>1. IsFiniteSet(items) /\ IsFiniteSet(I) /\ IsFiniteSet(lims)
  BY ChartIsFinite, FS_Subset DEF ChartInv, LinkageInv
<1>2. IsFiniteSet(ItemOrs(I))
  <2> DEFINE OfItem(i) == {OrNode(RuleOf(i.ahm), i.ahm[2], n, i.origin, i.at) :
                               n \in 0 .. NullCount[i.ahm]}
             f == [i \in I |-> OfItem(i)]
             all == {f[i] : i \in I}
  <2>1. IsFiniteSet(all)
    BY <1>1, ImageIsFinite
  <2>2. ASSUME NEW i \in I PROVE IsFiniteSet(OfItem(i))
    <3> DEFINE g == [n \in 0 .. NullCount[i.ahm] |->
                        OrNode(RuleOf(i.ahm), i.ahm[2], n, i.origin, i.at)]
    <3>1. NullCount[i.ahm] \in Int /\ 0 \in Int
      BY ItemIs
    <3>4. IsFiniteSet(0 .. NullCount[i.ahm])
      BY <3>1, FS_Interval
    <3>2. IsFiniteSet({g[n] : n \in 0 .. NullCount[i.ahm]})
      <4> PICK S : S = 0 .. NullCount[i.ahm]
        OBVIOUS
      <4> QED BY <3>4, ImageIsFinite
    <3>3. {g[n] : n \in 0 .. NullCount[i.ahm]} = OfItem(i)
      OBVIOUS
    <3> QED BY <3>2, <3>3
  <2>3. \A S \in all : IsFiniteSet(S)
    BY <2>2
  <2>4. ItemOrs(I) \subseteq UNION all
    BY DEF ItemOrs
  <2> HIDE DEF all
  <2> QED BY <2>1, <2>3, <2>4, FS_UNION, FS_Subset
<1>3. IsFiniteSet(PathOrs(I))
  <2> DEFINE P == lims \X items
             f == [x \in P |-> ProperOrOf(PathItem(x[1], x[2].at))]
             all == {f[x] : x \in P}
  <2>0. IsFiniteSet(P)
    BY <1>1, FS_Product
  <2>1. IsFiniteSet(all)
    <3> HIDE DEF P
    <3> QED BY <2>0, ImageIsFinite
  <2>2. ASSUME NEW o \in PathOrs(I) PROVE o \in all
    <3>1. PICK k \in leoLinks : k.effect \in I /\ \E l \in Above[k.lim] :
              o = ProperOrOf(PathItem(l, k.effect.at))
      BY DEF PathOrs
    <3>2. PICK l \in Above[k.lim] : o = ProperOrOf(PathItem(l, k.effect.at))
      BY <3>1
    <3>3. l \in lims /\ k.effect \in items
      BY <3>1, PathIs
    <3>4. <<l, k.effect>> \in P /\ o = f[<<l, k.effect>>]
      BY <3>2, <3>3
    <3> QED BY <3>4
  <2> HIDE DEF all
  <2> QED BY <2>1, <2>2, FS_Subset
<1> QED BY <1>2, <1>3, FS_Union DEF OrsOf

\* And-nodes are made of finitely many parts.
LEMMA AndsAreFinite ==
    ASSUME ChartInv, NEW ors, IsFiniteSet(ors), NEW ands,
           \A a \in ands : a.parent \in ors /\ DividesAs(ors, a.parent, a),
           NEW tokens, IsFiniteSet(tokens),
           \A a \in ands : a.cause \in ors \cup {NullingOr} \cup tokens
    PROVE  IsFiniteSet(ands)
<1> DEFINE P == ors \X ((ors \cup {NoOr}) \X (ors \cup {NullingOr} \cup tokens))
           f == [x \in P |-> And(x[1], x[2][1], x[2][2])]
           all == {f[x] : x \in P}
<1>1. IsFiniteSet(P)
  BY FS_Product, FS_Union, FS_Singleton
<1>2. IsFiniteSet(all)
  <2> HIDE DEF P
  <2> QED BY <1>1, ImageIsFinite
<1>3. ASSUME NEW a \in ands PROVE a \in all
  <2>1. PICK o, p, c : o = a.parent /\ p = a.pred /\ c = a.cause
    OBVIOUS
  <2>2. o \in ors /\ p \in ors \cup {NoOr} /\ c \in ors \cup {NullingOr} \cup tokens
        /\ a = And(o, p, c)
    BY <2>1 DEF DividesAs
  <2>3. <<o, <<p, c>>>> \in P /\ f[<<o, <<p, c>>>>] = And(o, p, c)
    BY <2>2
  <2> QED BY <2>2, <2>3
<1> HIDE DEF all
<1> QED BY <1>2, <1>3, FS_Subset

-----------------------------------------------------------------------------
(***************************************************************************)
(* Orders of and-nodes.                                                    *)
(***************************************************************************)
\* What marpa_o_new and marpa_o_rank make: some and-nodes of the or-node, none twice.
OrdersSome(s, S) == s \in Seq(S) /\ s # <<>> /\ IsInjective(s)

\* An order of all and-nodes of an or-node is one of some.
LEMMA OrderOfAll ==
    ASSUME NEW S, IsFiniteSet(S), S # {}, NEW s, IsInjective(s), s \in [1 .. Cardinality(S) -> S]
    PROVE  OrdersSome(s, S)
<1>1. Cardinality(S) \in Nat /\ Cardinality(S) # 0
  BY FS_CardinalityType, FS_EmptySet
<1>2. s \in Seq(S) /\ Len(s) = Cardinality(S)
  BY <1>1
<1> QED BY <1>1, <1>2 DEF OrdersSome

\* The order that an or-node with one and-node has.
LEMMA SeqOfSet ==
    ASSUME NEW S, IsFiniteSet(S), S # {}
    PROVE  OrdersSome(SetToSeq(S), S)
<1>1. ExistsBijection(1 .. Cardinality(S), S)
  BY FS_CardinalityType
<1>2. PICK f : f \in [1 .. Cardinality(S) -> S] /\ IsInjective(f)
  BY <1>1 DEF ExistsBijection, Bijection, Injection
<1>3. SetToSeq(S) \in [1 .. Cardinality(S) -> S] /\ IsInjective(SetToSeq(S))
  BY <1>2 DEF SetToSeq
<1> QED BY <1>3, OrderOfAll

\* The orders that an or-node with several and-nodes may have.
LEMMA SeqsOfSet ==
    ASSUME NEW S, IsFiniteSet(S), S # {}, NEW s \in SetToSeqs(S)
    PROVE  OrdersSome(s, S)
<1>1. s \in [1 .. Cardinality(S) -> S] /\ IsInjective(s)
  BY DEF SetToSeqs, IsInjective
<1> QED BY <1>1, OrderOfAll

-----------------------------------------------------------------------------
(***************************************************************************)
(* Ranking: the places that the sort gives.                                *)
(***************************************************************************)
Outranks(s, i, j) ==
    \/ RankOf(s[i]) > RankOf(s[j])
    \/ RankOf(s[i]) = RankOf(s[j]) /\ i < j

PlaceIn(s) == [i \in DOMAIN s |-> Cardinality({j \in DOMAIN s : Outranks(s, j, i)}) + 1]

Ranked(s) == \A i \in DOMAIN s : RankOf(s[i]) \in Int

\* Each place is given once.
LEMMA PlacesAre ==
    ASSUME NEW S, NEW s \in Seq(S), Ranked(s)
    PROVE  /\ PlaceIn(s) \in [DOMAIN s -> DOMAIN s]
           /\ \A k \in DOMAIN s : \E i \in DOMAIN s : PlaceIn(s)[i] = k
<1> DEFINE n == Len(s)
           D == 1 .. n
           Over(i) == {j \in D : Outranks(s, j, i)}
           f == [i \in D |-> Cardinality(Over(i)) + 1]
<1>1. n \in Nat /\ DOMAIN s = D /\ IsFiniteSet(D) /\ Cardinality(D) = n
  <2>1. n \in Nat /\ DOMAIN s = D
    OBVIOUS
  <2>2. 1 \in Int /\ n \in Int
    BY <2>1
  <2>3. IsFiniteSet(D) /\ Cardinality(D) = IF 1 > n THEN 0 ELSE n - 1 + 1
    BY <2>2, FS_Interval
  <2> QED BY <2>1, <2>3
<1>2. \A i \in D : i \in Nat /\ RankOf(s[i]) \in Int
  BY <1>1 DEF Ranked
<1>3. \A i \in D : i \notin Over(i)
  BY <1>2 DEF Outranks
<1>4. \A i, j \in D : i # j => i \in Over(j) \/ j \in Over(i)
  BY <1>2 DEF Outranks
<1>5. \A i, j \in D : i \in Over(j) => Over(i) \subseteq Over(j)
  BY <1>2 DEF Outranks
<1>6. PlaceIn(s) = f
  BY <1>1 DEF PlaceIn
<1>7. ASSUME NEW i \in D
      PROVE  IsFiniteSet(Over(i)) /\ Cardinality(Over(i)) \in Nat /\ Cardinality(Over(i)) < n
  <2>1. Over(i) \in SUBSET D /\ Over(i) # D
    BY <1>3
  <2>2. IsFiniteSet(Over(i)) /\ Cardinality(Over(i)) <= n /\ Cardinality(Over(i)) # n
    <3> HIDE DEF Over, D
    <3> QED BY <1>1, <2>1, FS_Subset
  <2>3. Cardinality(Over(i)) \in Nat
    <3> HIDE DEF Over
    <3> QED BY <2>2, FS_CardinalityType
  <2> QED BY <1>1, <2>2, <2>3
<1>8. ASSUME NEW i \in D, NEW j \in D, i \in Over(j)
      PROVE  Cardinality(Over(i)) < Cardinality(Over(j))
  <2>1. Over(i) \in SUBSET Over(j) /\ Over(i) # Over(j)
    BY <1>3, <1>5, <1>8
  <2> HIDE DEF Over, D
  <2>2. Cardinality(Over(i)) <= Cardinality(Over(j))
        /\ Cardinality(Over(i)) # Cardinality(Over(j))
    BY <1>7, <2>1, FS_Subset
  <2> QED BY <1>7, <2>2
<1> HIDE DEF Over
<1>9. f \in [D -> D]
  BY <1>1, <1>7
<1>10. \A i, j \in D : f[i] = f[j] => i = j
  BY <1>4, <1>7, <1>8
<1>11. f \in Injection(D, D)
  <2> HIDE DEF f
  <2> QED BY <1>9, <1>10 DEF Injection, IsInjective
<1>12. f \in Surjection(D, D)
  <2> HIDE DEF f, D
  <2> QED BY <1>1, <1>11, FS_Injection
<1>13. \A k \in D : \E i \in D : f[i] = k
  <2> HIDE DEF f, D
  <2> QED BY <1>12 DEF Surjection
<1> QED BY <1>1, <1>6, <1>9, <1>13

\* The sort moves and-nodes and loses none.
LEMMA ByRankIs ==
    ASSUME NEW S, NEW s, OrdersSome(s, S), Ranked(s)
    PROVE  /\ OrdersSome(ByRank(s), S) /\ Len(ByRank(s)) = Len(s)
           /\ \A k \in DOMAIN s : \E i \in DOMAIN s : PlaceIn(s)[i] = k /\ ByRank(s)[k] = s[i]
<1>0. s \in Seq(S) /\ DOMAIN s = 1 .. Len(s) /\ Len(s) \in Nat /\ Len(s) # 0 /\ IsInjective(s)
  BY DEF OrdersSome
<1> DEFINE at(k) == CHOOSE i \in DOMAIN s : PlaceIn(s)[i] = k
<1>1. ByRank(s) = [k \in DOMAIN s |-> s[at(k)]]
  <2>1. \A i \in DOMAIN s : PlaceIn(s)[i] = Cardinality({j \in DOMAIN s : Outranks(s, j, i)}) + 1
    BY DEF PlaceIn
  <2>2. \A k : at(k) = CHOOSE i \in DOMAIN s :
                          Cardinality({j \in DOMAIN s : Outranks(s, j, i)}) + 1 = k
    BY <2>1
  <2>3. ByRank(s) = [k \in DOMAIN s |->
                        s[CHOOSE i \in DOMAIN s :
                             Cardinality({j \in DOMAIN s : Outranks(s, j, i)}) + 1 = k]]
    BY Zenon DEF ByRank, Outranks
  <2> HIDE DEF at
  <2> QED BY <2>2, <2>3
<1>2. \A k \in DOMAIN s : at(k) \in DOMAIN s /\ PlaceIn(s)[at(k)] = k
  BY <1>0, PlacesAre
<1> HIDE DEF at
<1>3. \A k \in DOMAIN s : s[at(k)] \in S
  BY <1>0, <1>2
<1>4. ByRank(s) \in Seq(S) /\ Len(ByRank(s)) = Len(s) /\ DOMAIN ByRank(s) = DOMAIN s
  BY <1>0, <1>1, <1>3
<1>5. IsInjective(ByRank(s))
  <2> SUFFICES ASSUME NEW k \in DOMAIN s, NEW m \in DOMAIN s, s[at(k)] = s[at(m)]
               PROVE  k = m
    BY <1>1 DEF IsInjective
  <2>1. at(k) = at(m)
    BY <1>0, <1>2 DEF IsInjective
  <2> QED BY <1>2, <2>1
<1>6. ByRank(s) # <<>>
  BY <1>0, <1>4
<1> QED BY <1>1, <1>2, <1>4, <1>5, <1>6 DEF OrdersSome

\* The first place belongs to an and-node of the highest rank.
LEMMA HighestRankedIs ==
    ASSUME NEW S, NEW s, OrdersSome(s, S), Ranked(s)
    PROVE  OrdersSome(HighestRanked(s), S)
<1> DEFINE best == {i \in DOMAIN s : \A j \in DOMAIN s : RankOf(s[j]) <= RankOf(s[i])}
           m == Cardinality(best)
           t == ByRank(s)
<1>0. s \in Seq(S) /\ DOMAIN s = 1 .. Len(s) /\ Len(s) \in Nat /\ Len(s) # 0
  BY DEF OrdersSome
<1>1. t \in Seq(S) /\ Len(t) = Len(s) /\ IsInjective(t)
  BY ByRankIs DEF OrdersSome
<1>2. 1 \in DOMAIN s
  BY <1>0
<1>3. PICK i \in DOMAIN s : PlaceIn(s)[i] = 1
  BY <1>0, <1>2, PlacesAre
<1>4. IsFiniteSet(DOMAIN s) /\ Cardinality(DOMAIN s) = Len(s)
  <2>1. 1 \in Int /\ Len(s) \in Int /\ ~ 1 > Len(s) /\ Len(s) - 1 + 1 = Len(s)
    BY <1>0
  <2> QED BY <1>0, <2>1, FS_Interval
<1>5. {j \in DOMAIN s : Outranks(s, j, i)} = {}
  <2> DEFINE A == {j \in DOMAIN s : Outranks(s, j, i)}
  <2>1. IsFiniteSet(A)
    BY <1>4, FS_Subset
  <2>2. Cardinality(A) + 1 = 1
    BY <1>3 DEF PlaceIn
  <2>3. Cardinality(A) \in Nat
    BY <2>1, FS_CardinalityType
  <2>4. Cardinality(A) = 0
    BY <2>2, <2>3
  <2> HIDE DEF A
  <2> QED BY <2>1, <2>4, FS_EmptySet DEF A
<1>6. i \in best
  <2> SUFFICES ASSUME NEW j \in DOMAIN s PROVE RankOf(s[j]) <= RankOf(s[i])
    OBVIOUS
  <2>1. RankOf(s[i]) \in Int /\ RankOf(s[j]) \in Int
    BY DEF Ranked
  <2>2. ~ Outranks(s, j, i)
    BY <1>5
  <2> QED BY <2>1, <2>2 DEF Outranks
<1>7. best \in SUBSET DOMAIN s /\ best # {}
  BY <1>6
<1>8. HighestRanked(s) = SubSeq(t, 1, m)
  BY DEF HighestRanked
<1> HIDE DEF best
<1>9. m \in Nat /\ m # 0 /\ m <= Len(s)
  <2>1. IsFiniteSet(best)
    BY <1>4, <1>7, FS_Subset
  <2> QED BY <1>4, <1>7, <2>1, FS_Subset, FS_CardinalityType, FS_EmptySet
<1> HIDE DEF m, t
<1>10. m \in 1 .. Len(t)
  BY <1>0, <1>1, <1>9
<1>11. PICK u : u = SubSeq(t, 1, m) /\ u = [k \in 1 .. m |-> t[k]]
  <2>1. SubSeq(t, 1, m) = [k \in 1 .. m |-> t[k]]
    BY <1>0, <1>1, <1>9
  <2> QED BY <2>1
<1>12. \A k \in 1 .. m : k \in DOMAIN t /\ t[k] \in S
  BY <1>0, <1>1, <1>9
<1>13. u \in Seq(S) /\ u # <<>>
  BY <1>9, <1>11, <1>12
<1>14. IsInjective(u)
  BY <1>1, <1>11, <1>12 DEF IsInjective
<1> QED BY <1>8, <1>11, <1>13, <1>14 DEF OrdersSome

-----------------------------------------------------------------------------
(***************************************************************************)
(* A bocage that is sound: finitely many or-nodes, each with and-nodes     *)
(* that divide it.                                                         *)
(***************************************************************************)
BocageIsSound(b) ==
    /\ IsFiniteSet(b.ors) /\ IsFiniteSet(b.ands)
    /\ SoundOrs(b.ors) /\ b.top \in b.ors
    /\ \A a \in b.ands : a.parent \in b.ors /\ DividesAs(b.ors, a.parent, a)
    /\ \A o \in b.ors : AndsOf(b, o) # {}

\* What marpa_b_new makes of the chart is sound.
LEMMA ForestOfChart ==
    ASSUME ChartInv, NEW start \in items, ~ IsPredicted(start),
           NEW b, b = Forest(start), \A a \in b.ands : a.cause # NoOr
    PROVE  BocageIsSound(b)
<1> DEFINE I == WithOr(Reached(start))
           ors == OrsOf(I)
           tokens == {TokenOr(k.token) : k \in tokenLinks}
<1>1. IsHeld(I) /\ start \in I
  BY HeldIs
<1> HIDE DEF I
<1>2. /\ b.top = OrOf(start) /\ b.ors = ors
      /\ b.ands = NullingAnds(I) \cup TokenAnds(I) \cup CompletionAnds(I) \cup LeoAnds(I, ors)
  BY DEF Forest, OrsOf, I
<1>3. I \in SUBSET items
  BY <1>1 DEF IsHeld
<1>4. IsFiniteSet(ors) /\ SoundOrs(ors)
  BY <1>3, OrsAreFinite, OrsAreSound
<1>5. b.top \in ors
  <2>1. NullCount[start.ahm] \in 0 .. NullCount[start.ahm] /\ start.ahm[2] > 0
    BY ItemIs DEF IsPredicted
  <2> QED BY <1>1, <1>2, <1>3, <2>1, OrsOfItem DEF OrOf, OrsOf
<1>6. ASSUME NEW a \in b.ands PROVE a.parent \in ors /\ DividesAs(ors, a.parent, a)
  BY <1>1, <1>2, <1>3, NullingDivides, TokenDivides, CompletionDivides, LeoDivides
<1>7. ASSUME NEW o \in ors PROVE AndsOf(b, o) # {}
  <2>1. \E a \in b.ands : a.parent = o
    BY <1>1, <1>2, OrsHaveAnds
  <2> QED BY <2>1 DEF AndsOf
<1>8. IsFiniteSet(tokens)
  <2> DEFINE f == [k \in tokenLinks |-> TokenOr(k.token)]
  <2>1. IsFiniteSet({f[k] : k \in tokenLinks})
    BY ImageIsFinite DEF ChartInv, LinkageInv
  <2>2. {f[k] : k \in tokenLinks} = tokens
    OBVIOUS
  <2> QED BY <2>1, <2>2
<1>9. ASSUME NEW a \in b.ands PROVE a.cause \in ors \cup {NullingOr} \cup tokens
  <2>1. CASE a \in NullingAnds(I)
    BY <2>1, AndIs DEF NullingAnds
  <2>2. CASE a \in TokenAnds(I)
    <3>1. PICK k \in tokenLinks : a = And(ProperOrOf(k.effect), OrOf(k.pred), TokenOr(k.token))
      BY <2>2 DEF TokenAnds
    <3> QED BY <3>1, AndIs
  <2>3. CASE a \in CompletionAnds(I)
    <3>1. PICK k \in completionLinks :
              k.effect \in I /\ a = And(ProperOrOf(k.effect), OrOf(k.pred), OrOf(k.cause))
      BY <2>3 DEF CompletionAnds
    <3>2. a.cause = OrOf(k.cause)
      BY <3>1, AndIs
    <3>3. k.cause \in Sources(I)
      BY <3>1, SourcesAre DEF PairSource
    <3> QED BY <1>1, <3>2, <3>3, SourceOrIs
  <2>4. CASE a \in LeoAnds(I, ors)
    <3>1. PICK k \in leoLinks : k.effect \in I /\ \E l \in Above[k.lim] : a \in StepAnds(k, l, ors)
      BY <2>4 DEF LeoAnds
    <3>2. PICK l \in Above[k.lim] : a \in StepAnds(k, l, ors)
      BY <3>1
    <3>3. PICK c \in StepCauses(k, l, ors) : a = And(StepParent(k, l), OrOf(l.base), c)
      BY <3>2 DEF StepAnds, Distinct
    <3>4. a.cause = c
      BY <3>3, AndIs
    <3>5. k.cause \in Sources(I)
      BY <3>1, SourcesAre DEF LeoSource
    <3>6. OrOf(k.cause) \in ors \cup {NoOr}
      BY <1>1, <3>5, SourceOrIs
    <3> QED BY <3>4, <3>6, StepCausesAre
  <2> QED BY <1>2, <2>1, <2>2, <2>3, <2>4
<1> HIDE DEF ors, tokens
<1>10. IsFiniteSet(b.ands)
  BY <1>4, <1>6, <1>8, <1>9, AndsAreFinite
<1> QED BY <1>2, <1>4, <1>5, <1>6, <1>7, <1>10 DEF BocageIsSound

-----------------------------------------------------------------------------
(***************************************************************************)
(* An order of a sound bocage is a sound forest.                           *)
(***************************************************************************)
OrderedAs(b, ord) ==
    /\ DOMAIN ord = b.ors
    /\ \A o \in b.ors : OrdersSome(ord[o], AndsOf(b, o))

\* The and-nodes of an or-node.
LEMMA AndsOfAre ==
    ASSUME NEW b, BocageIsSound(b), NEW o \in b.ors
    PROVE  /\ IsFiniteSet(AndsOf(b, o)) /\ AndsOf(b, o) # {}
           /\ \A a \in AndsOf(b, o) : a \in b.ands /\ DividesAs(b.ors, o, a)
<1>1. AndsOf(b, o) \in SUBSET b.ands
  BY DEF AndsOf
<1>2. IsFiniteSet(AndsOf(b, o))
  BY <1>1, FS_Subset DEF BocageIsSound
<1> QED BY <1>1, <1>2 DEF BocageIsSound, AndsOf

\* marpa_o_new orders the and-nodes of each or-node.
LEMMA ArrangementsAre ==
    ASSUME NEW b, BocageIsSound(b), NEW ord \in Arrangements(b)
    PROVE  OrderedAs(b, ord)
<1>1. PICK f : /\ \A o \in Divided(b) : f[o] \in SetToSeqs(AndsOf(b, o))
               /\ ord = [o \in b.ors |-> IF o \in Divided(b) THEN f[o] ELSE SetToSeq(AndsOf(b, o))]
  BY DEF Arrangements
<1>2. ASSUME NEW o \in b.ors PROVE OrdersSome(ord[o], AndsOf(b, o))
  <2>1. IsFiniteSet(AndsOf(b, o)) /\ AndsOf(b, o) # {}
    BY AndsOfAre
  <2>2. CASE o \in Divided(b)
    <3>1. ord[o] = f[o] /\ f[o] \in SetToSeqs(AndsOf(b, o))
      BY <1>1, <2>2
    <3> QED BY <2>1, <3>1, SeqsOfSet
  <2>3. CASE o \notin Divided(b)
    <3>1. ord[o] = SetToSeq(AndsOf(b, o))
      BY <1>1, <2>3
    <3> QED BY <2>1, <3>1, SeqOfSet
  <2> QED BY <2>2, <2>3
<1> QED BY <1>1, <1>2 DEF OrderedAs

\* Ranks are numbers, so an order can be ranked.
LEMMA OrdersAreRanked ==
    ASSUME NEW b, BocageIsSound(b), NEW o \in b.ors, NEW s, OrdersSome(s, AndsOf(b, o))
    PROVE  Ranked(s)
<1> SUFFICES ASSUME NEW i \in DOMAIN s PROVE RankOf(s[i]) \in Int
  BY DEF Ranked
<1>1. s[i] \in AndsOf(b, o)
  BY DEF OrdersSome
<1> PICK c : c = s[i].cause
  OBVIOUS
<1>2. c \in Causes(b.ors)
  BY <1>1, AndsOfAre DEF DividesAs
<1>3. c.type = "or" => c.rule \in Rule
  BY <1>2 DEF Causes, BocageIsSound, SoundOrs, OrSpace, NullingOr, TokenOr
<1>4. c.type = "token" => c.sym \in Symbol
  BY <1>2 DEF Causes, BocageIsSound, SoundOrs, OrSpace, NullingOr, TokenOr, Token
<1> QED BY <1>3, <1>4, OrderAssumption DEF RankOf
-----------------------------------------------------------------------------
(***************************************************************************)
(* The assertion of draft_and_node_new, that each and-node has a cause,    *)
(* holds where no right recursive rule ends with nulling symbols.          *)
(***************************************************************************)
NoNullsAfterRecursion == \A a \in Ahm : IsLeoCompletion(a) => NullCount[a] = 0

\* Then each step of a Leo path finds the or-node of the step below.
LEMMA StepsFindCauses ==
    ASSUME ChartInv, NoNullsAfterRecursion, NEW I, IsHeld(I), NEW k \in leoLinks, k.effect \in I,
           NEW l \in Above[k.lim], NEW c \in StepCauses(k, l, OrsOf(I))
    PROVE  c # NoOr
<1> PICK ors : ors = OrsOf(I)
  OBVIOUS
<1>1. I \in SUBSET items /\ SoundOrs(ors)
  BY OrsAreSound DEF IsHeld
<1>2. CASE l = k.lim
  <2>1. c = OrOf(k.cause)
    BY <1>2 DEF StepCauses
  <2>2. k.cause \in Sources(I)
    BY <1>1, SourcesAre DEF LeoSource
  <2>3. ~ IsPredicted(k.cause)
    BY LeoLinkIs, ItemIs, RuleTypes DEF IsCompletion, IsPredicted
  <2> QED BY <1>1, <2>1, <2>2, <2>3, SourceOrIs DEF SoundOrs
<1>3. CASE l # k.lim
  <2>1. PICK m \in Above[k.lim] : /\ l \in PredecessorLim(m)
                                  /\ c = FoundOr(OrOf(PathItem(m, k.effect.at)), ors)
    BY <1>3 DEF StepCauses
  <2>2. m \in lims
    BY <2>1, PathIs
  <2>3. Trailhead(m) \in Ahm /\ IsLeoCompletion(Trailhead(m))
    BY <2>2, PredecessorIs, NextAhmType DEF Trailhead, ChartInv, LinkageInv, LimsRecur
  <2>4. NullCount[Trailhead(m)] = 0
    BY <2>3 DEF NoNullsAfterRecursion
  <2>5. OrOf(PathItem(m, k.effect.at)) = ProperOrOf(PathItem(m, k.effect.at))
    BY <2>4 DEF OrOf, ProperOrOf, PathItem
  <2>6. ProperOrOf(PathItem(m, k.effect.at)) \in ors
    BY <2>1 DEF PathOrs, OrsOf
  <2>7. c \in ors
    BY <2>1, <2>5, <2>6 DEF FoundOr
  <2> QED BY <1>1, <2>7 DEF SoundOrs
<1> QED BY <1>2, <1>3

\* So each and-node has a cause.
LEMMA ForestHasCauses ==
    ASSUME ChartInv, NoNullsAfterRecursion, NEW start \in items, ~ IsPredicted(start),
           NEW b, b = Forest(start)
    PROVE  \A a \in b.ands : a.cause # NoOr
<1> DEFINE I == WithOr(Reached(start))
<1>1. IsHeld(I)
  BY HeldIs
<1> HIDE DEF I
<1>2. b.ands = NullingAnds(I) \cup TokenAnds(I) \cup CompletionAnds(I) \cup LeoAnds(I, OrsOf(I))
  BY DEF Forest, OrsOf, I
<1>3. I \in SUBSET items /\ SoundOrs(OrsOf(I))
  BY <1>1, OrsAreSound DEF IsHeld
<1>4. ASSUME NEW a \in NullingAnds(I) PROVE a.cause # NoOr
  <2>1. a.cause = NullingOr
    BY AndIs DEF NullingAnds
  <2> QED BY <2>1, BocageAssumption DEF NullingOr
<1>5. ASSUME NEW a \in TokenAnds(I) PROVE a.cause # NoOr
  <2>1. PICK k \in tokenLinks : a = And(ProperOrOf(k.effect), OrOf(k.pred), TokenOr(k.token))
    BY DEF TokenAnds
  <2>2. a.cause = TokenOr(k.token)
    BY <2>1, AndIs
  <2>3. k.token \in Token
    BY DEF ChartInv, SpanInv, InputInv, TypeInv, TypeOK
  <2>4. TokenOr(k.token) \in [type : {"token"}, sym : Symbol, value : {0, 1}]
    BY <2>3 DEF TokenOr, Token
  <2> QED BY <2>2, <2>4, BocageAssumption
<1>6. ASSUME NEW a \in CompletionAnds(I) PROVE a.cause # NoOr
  <2>1. PICK k \in completionLinks :
            k.effect \in I /\ a = And(ProperOrOf(k.effect), OrOf(k.pred), OrOf(k.cause))
    BY DEF CompletionAnds
  <2>2. a.cause = OrOf(k.cause)
    BY <2>1, AndIs
  <2>3. k.cause \in Sources(I)
    BY <1>3, <2>1, SourcesAre DEF PairSource
  <2>4. ~ IsPredicted(k.cause)
    <3>1. k.cause \in items /\ IsCompletion(k.cause.ahm)
      BY DEF ChartInv, LinkageInv, SourcesAreThere
    <3> QED BY <3>1, ItemIs, RuleTypes DEF IsCompletion, IsPredicted
  <2> QED BY <1>1, <1>3, <2>2, <2>3, <2>4, SourceOrIs DEF SoundOrs
<1>7. ASSUME NEW a \in LeoAnds(I, OrsOf(I)) PROVE a.cause # NoOr
  <2>1. PICK k \in leoLinks :
            k.effect \in I /\ \E l \in Above[k.lim] : a \in StepAnds(k, l, OrsOf(I))
    BY DEF LeoAnds
  <2>2. PICK l \in Above[k.lim] : a \in StepAnds(k, l, OrsOf(I))
    BY <2>1
  <2>3. PICK c \in StepCauses(k, l, OrsOf(I)) : a = And(StepParent(k, l), OrOf(l.base), c)
    BY <2>2 DEF StepAnds, Distinct
  <2>4. a.cause = c
    BY <2>3, AndIs
  <2> QED BY <1>1, <2>1, <2>4, StepsFindCauses
<1> QED BY <1>2, <1>4, <1>5, <1>6, <1>7

\* So does each bocage.
LEMMA CausesKept ==
    ASSUME ChartInv, NoNullsAfterRecursion, CausesExist, BocageNext
    PROVE  CausesExist'
<1>1. CASE Next /\ UNCHANGED bocage
  BY <1>1 DEF CausesExist
<1>2. ASSUME NEW ordinal \in Ordinals, BocageNew(ordinal) PROVE CausesExist'
  <2> PICK b : b = bocage'
    OBVIOUS
  <2>1. \/ b = NoBocage
        \/ b = NullingBocage
        \/ \E e \in SetOf(ordinal) \ {0} : \E start \in CompletedStarts(e) : b = Forest(start)
    BY <1>2 DEF BocageNew
  <2>2. CASE \E e \in SetOf(ordinal) \ {0} : \E start \in CompletedStarts(e) : b = Forest(start)
    <3>1. PICK e \in SetOf(ordinal) \ {0} : \E start \in CompletedStarts(e) : b = Forest(start)
      BY <2>2
    <3>2. PICK start \in CompletedStarts(e) : b = Forest(start)
      BY <3>1
    <3>3. start \in items /\ ~ IsPredicted(start)
      BY DEF CompletedStarts
    <3>4. \A a \in b.ands : a.cause # NoOr
      BY <3>2, <3>3, ForestHasCauses
    <3> QED BY <3>4 DEF CausesExist
  <2>3. CASE b = NoBocage \/ b = NullingBocage
    BY <2>3 DEF CausesExist, NullingBocage
  <2> QED BY <2>1, <2>2, <2>3
<1> QED BY <1>1, <1>2 DEF BocageNext

\* A call of marpa_b_new leaves the chart alone.
LEMMA ChartBelowBocage ==
    ASSUME ChartInv, BocageNext
    PROVE  ChartInv'
<1>1. ASSUME NEW ordinal \in Ordinals, BocageNew(ordinal) PROVE RecognizerUnchanged
  BY <1>1 DEF BocageNew, RecognizerUnchanged
<1> QED BY <1>1, ChartStep, ChartUnchanged DEF BocageNext

\* marpa_b_new finds a cause for every and-node, for every input to a grammar without
\* nulling symbols at the end of a right recursive rule: the assertion of
\* draft_and_node_new, which the trailing nulling symbols of such rules break.
THEOREM CausesFound == NoNullsAfterRecursion => (BocageSpec => []CausesExist)
<1> SUFFICES ASSUME NoNullsAfterRecursion PROVE BocageSpec => []CausesExist
  OBVIOUS
<1>1. BocageInit => ChartInv /\ CausesExist
  BY ChartInit DEF BocageInit, CausesExist
<1>2. ChartInv /\ CausesExist /\ [BocageNext]_bocageVars => ChartInv' /\ CausesExist'
  <2>1. ASSUME ChartInv, CausesExist, UNCHANGED bocageVars PROVE ChartInv' /\ CausesExist'
    <3>1. UNCHANGED vars /\ bocage' = bocage
      BY <2>1 DEF bocageVars
    <3> QED BY <2>1, <3>1, ChartStep DEF CausesExist
  <2> QED BY <2>1, CausesKept, ChartBelowBocage
<1> QED BY <1>1, <1>2, PTL DEF BocageSpec

-----------------------------------------------------------------------------
(***************************************************************************)
(* What a bocage needs of the chart to be exact: predictions span nothing. *)
(***************************************************************************)
\* A prediction spans nothing.
PredictionsSpan == \A i \in items : i.ahm[2] = 0 => i.origin = i.at

\* Each step keeps PredictionsSpan: what a token or a completion advances has moved.
LEMMA PredictionsSpanStep ==
    ASSUME SpanInv, PredictionsSpan, [Next]_vars
    PROVE  PredictionsSpan'
<1>0. TypeInv /\ InputInv
  BY DEF SpanInv, InputInv
<1>1. CASE items' = items
  BY <1>1 DEF PredictionsSpan
<1>2. CASE StartInput
  <2>1. items' = StartItems
    BY <1>2 DEF StartInput
  <2> QED BY <2>1, StartItemsSpan DEF PredictionsSpan
<1>3. ASSUME NEW a \in alternatives, ScanToken(a) PROVE PredictionsSpan'
  <2>1. pc = "scan" /\ a.start < a.end /\ a.end <= current /\ a.start \in Nat /\ a.end \in Nat
    BY <1>0, <1>3, TokenTypes DEF ScanToken, InputInv, PendingTokens
  <2>2. \A p \in Pims(a.start, a.sym) : p \in items /\ p.at < current /\ ~ IsCompletion(p.ahm)
    BY <1>0, <2>1, PimsTypes, CurrentType
  <2>3. \A i \in {Advance(p, current) : p \in Pims(a.start, a.sym)} : i.ahm[2] # 0
    BY <2>1, <2>2, AdvancedSpan
  <2> QED BY <1>3, <2>3 DEF ScanToken, PredictionsSpan
<1>4. ASSUME NEW cause \in stack, CompleteByLeo(cause) PROVE PredictionsSpan'
  <2>1. PICK l \in LimsFor(cause.origin, LhsOf(cause.ahm)) : items' = items \cup {LeoEffect(l)}
    BY <1>4 DEF CompleteByLeo
  <2>2. LeoEffect(l).ahm[2] # 0
    BY LeoEffectSpan
  <2> QED BY <2>1, <2>2 DEF PredictionsSpan
<1>5. ASSUME NEW cause \in stack, CompleteByEarley(cause) PROVE PredictionsSpan'
  <2>1. pc = "complete" /\ cause.origin < current
    BY <1>5, CauseSpan DEF CompleteByEarley
  <2>2. \A p \in Pims(cause.origin, LhsOf(cause.ahm)) :
            p \in items /\ p.at < current /\ ~ IsCompletion(p.ahm)
    BY <1>0, <2>1, PimsTypes
  <2>3. \A i \in {Advance(p, current) : p \in Pims(cause.origin, LhsOf(cause.ahm))} :
            i.ahm[2] # 0
    BY <2>1, <2>2, AdvancedSpan
  <2> QED BY <1>5, <2>3 DEF CompleteByEarley, PredictionsSpan
<1>6. CASE PredictAndPostdot
  <2>1. current \in Nat /\ items' = items \cup Predictions(AtCurrent, current)
    BY <1>0, <1>6, CurrentType DEF PredictAndPostdot, AtCurrent
  <2>2. ASSUME NEW i \in Predictions(AtCurrent, current) PROVE i.origin = i.at
    BY <2>1, PredictionsTypes, PredictionType
  <2> QED BY <2>1, <2>2 DEF PredictionsSpan
<1>7. CASE EarlemeStep
  BY <1>0, <1>1, <1>7, EarlemeSteps
<1>8. ASSUME NEW n \in newLims, PopulateLim(n) PROVE items' = items
  BY <1>8 DEF PopulateLim
<1> QED BY <1>0, <1>1, <1>2, <1>3, <1>4, <1>5, <1>6, <1>7, <1>8, OtherSteps

-----------------------------------------------------------------------------
(***************************************************************************)
(* The links of the chart are all that Earley's algorithm has.             *)
(***************************************************************************)
Waiting(c) == Pims(c.origin, LhsOf(c.ahm))
LimsOf(c) == LimsFor(c.origin, LhsOf(c.ahm))

\* A link moves the dot of an item that waits for a token, or for a completion that
\* no Leo item is looked up for.
LinksDivide ==
    /\ \A k \in tokenLinks :
          k.pred \in Pims(k.token.start, k.token.sym) /\ k.effect.at = k.token.end
    /\ \A k \in completionLinks : k.pred \in Waiting(k.cause) /\ LimsOf(k.cause) = {}

\* What waits for a token has a link with it.
TokensLinked ==
    \A t \in ScannedTokens : \A i \in Pims(t.start, t.sym) :
        \E k \in tokenLinks : k.pred = i /\ k.token = t

\* What waits for a completion has a link with it, if no Leo item hides it.
Linking(c) == \A i \in Waiting(c) : \E k \in completionLinks : k.pred = i /\ k.cause = c
CompletionsLinked ==
    \A c \in items :
        IsCompletion(c.ahm) /\ c \notin stack /\ ~ (pc = "scan" /\ c.at = current)
          /\ LimsOf(c) = {} => Linking(c)

\* Links are only added.
LEMMA LinksGrow ==
    ASSUME SpanInv, [Next]_vars
    PROVE  tokenLinks \subseteq tokenLinks' /\ completionLinks \subseteq completionLinks'
           /\ leoLinks \subseteq leoLinks'
<1>0. TypeInv
  BY DEF SpanInv, InputInv
<1>1. CASE StartInput \/ EarlemeStep
  <2>1. UNCHANGED linkVars
    BY <1>1, EarlemeSteps DEF StartInput, SpanInv, linkVars
  <2> QED BY <2>1 DEF linkVars
<1> QED
  BY <1>0, <1>1, OtherSteps
  DEF ScanToken, CompleteByLeo, CompleteByEarley, PredictAndPostdot, PopulateLim, linkVars

\* Each step keeps LinksDivide.
LEMMA LinksDivideStep ==
    ASSUME ChartInv, LinksDivide, [Next]_vars
    PROVE  LinksDivide'
<1>0. SpanInv /\ TypeInv /\ InputInv /\ items \subseteq items' /\ SourcesAreThere
  BY ItemsGrow DEF ChartInv, SpanInv, InputInv, LinkageInv
<1>1. \A e, s : Pims(e, s) \subseteq Pims(e, s)'
  BY <1>0 DEF Pims
<1>2. ASSUME NEW k \in completionLinks PROVE k.pred \in Waiting(k.cause)' /\ LimsOf(k.cause)' = {}
  <2>1. k.cause \in items /\ IsCompletion(k.cause.ahm)
    BY <1>0 DEF SourcesAreThere
  <2>2. phase # "before"
    BY <1>0, <2>1 DEF TypeInv, NothingBefore
  <2>3. LimsOf(k.cause)' = LimsOf(k.cause)
    BY <1>0, <2>1, <2>2, CompletedBefore, LimsFrozen DEF LimsOf
  <2> QED BY <1>1, <2>3 DEF LinksDivide, Waiting
<1>3. ASSUME NEW k \in tokenLinks
      PROVE  k.pred \in Pims(k.token.start, k.token.sym)' /\ k.effect.at = k.token.end
  BY <1>1 DEF LinksDivide
<1>4. ASSUME NEW a \in alternatives, ScanToken(a), NEW k \in tokenLinks', k \notin tokenLinks
      PROVE  k.pred \in Pims(k.token.start, k.token.sym)' /\ k.effect.at = k.token.end
  <2>1. PICK i \in Pims(a.start, a.sym) :
            k = [effect |-> Advance(i, current), pred |-> i, token |-> a]
    BY <1>4 DEF ScanToken
  <2>2. k.token = a /\ k.pred = i /\ k.effect = Advance(i, current)
    BY <2>1
  <2>3. Advance(i, current).at = current
    BY DEF Advance
  <2>4. a.end = current
    <3>1. pc = "scan" /\ a.end <= current /\ a.end >= current /\ a.end \in Nat /\ current \in Nat
      BY <1>0, <1>4, TokenTypes, CurrentType DEF ScanToken, InputInv, PendingTokens
    <3> QED BY <3>1
  <2> QED BY <1>1, <2>2, <2>3, <2>4
<1>5. ASSUME NEW c \in stack, CompleteByEarley(c), NEW k \in completionLinks', k \notin completionLinks
      PROVE  k.pred \in Waiting(k.cause)' /\ LimsOf(k.cause)' = {}
  <2>1. PICK i \in Pims(c.origin, LhsOf(c.ahm)) :
            k = [effect |-> Advance(i, current), pred |-> i, cause |-> c]
    BY <1>5 DEF CompleteByEarley
  <2>2. k.cause = c /\ k.pred = i
    BY <2>1
  <2>3. LimsOf(c) = {} /\ pc = "complete" /\ lims' = lims
    BY <1>5 DEF CompleteByEarley, LimsOf
  <2>4. LimsOf(c)' = {}
    BY <2>3 DEF LimsOf, LimsFor
  <2> QED BY <1>1, <2>1, <2>2, <2>4 DEF Waiting
<1>6. CASE tokenLinks' = tokenLinks /\ completionLinks' = completionLinks
  BY <1>2, <1>3, <1>6 DEF LinksDivide
<1>7. CASE \E a \in alternatives : ScanToken(a)
  <2>1. completionLinks' = completionLinks
    BY <1>7 DEF ScanToken
  <2> QED BY <1>2, <1>3, <1>4, <1>7, <2>1 DEF LinksDivide
<1>8. CASE \E c \in stack : CompleteByEarley(c)
  <2>1. tokenLinks' = tokenLinks
    BY <1>8 DEF CompleteByEarley
  <2> QED BY <1>2, <1>3, <1>5, <1>8, <2>1 DEF LinksDivide
<1>9. CASE StartInput \/ EarlemeStep
  BY <1>0, <1>6, <1>9, EarlemeSteps DEF StartInput, linkVars
<1> QED
  BY <1>0, <1>6, <1>7, <1>8, <1>9, OtherSteps
  DEF CompleteByLeo, PredictAndPostdot, PopulateLim, linkVars

\* Each step keeps TokensLinked: what waits for a token stays the same.
LEMMA TokensLinkedStep ==
    ASSUME SpanInv, DoneInv, TokensLinked, [Next]_vars
    PROVE  TokensLinked'
<1>0. TypeInv /\ InputInv /\ tokenLinks \subseteq tokenLinks'
  BY LinksGrow DEF SpanInv, InputInv
<1>1. ASSUME NEW t \in ScannedTokens, NEW i \in Pims(t.start, t.sym)'
      PROVE  \E k \in tokenLinks' : k.pred = i /\ k.token = t
  <2>1. phase # "before" /\ current \in Int
    BY <1>0 DEF TypeInv, TypeOK, NothingBefore, ScannedTokens
  <2>2. t.start # current
    BY <2>1 DEF DoneInv, TokensProcessed
  <2>3. i \in Pims(t.start, t.sym)
    BY <2>1, <2>2, PimsFrozen
  <2> QED BY <1>0, <2>3 DEF TokensLinked
<1>2. CASE tokenLinks' = tokenLinks
  <2>1. ScannedTokens' = ScannedTokens
    BY <1>2 DEF ScannedTokens
  <2> QED BY <1>1, <2>1 DEF TokensLinked
<1>3. ASSUME NEW a \in alternatives, ScanToken(a) PROVE TokensLinked'
  <2>1. /\ current \in Nat /\ a.end = current /\ a.start < a.end /\ a.start \in Nat
        /\ pc = "scan" /\ phase # "before"
        /\ tokenLinks' = tokenLinks \cup
              {[effect |-> Advance(i, current), pred |-> i, token |-> a] :
                  i \in Pims(a.start, a.sym)}
    BY <1>0, <1>3, CurrentType, TokenTypes DEF ScanToken, InputInv, PendingTokens
  <2>2. Pims(a.start, a.sym)' = Pims(a.start, a.sym)
    BY <2>1, PimsFrozen
  <2>3. \A t \in ScannedTokens' : t \in ScannedTokens \/ t = a
    BY <2>1 DEF ScannedTokens
  <2>4. ASSUME NEW i \in Pims(a.start, a.sym)' PROVE \E k \in tokenLinks' : k.pred = i /\ k.token = a
    <3> PICK k : k = [effect |-> Advance(i, current), pred |-> i, token |-> a]
      OBVIOUS
    <3>1. k \in tokenLinks'
      BY <2>1, <2>2
    <3> QED BY <3>1
  <2> QED BY <1>1, <2>3, <2>4 DEF TokensLinked
<1>4. CASE StartInput \/ EarlemeStep
  BY <1>0, <1>2, <1>4, EarlemeSteps DEF StartInput, linkVars
<1> QED
  BY <1>0, <1>2, <1>3, <1>4, OtherSteps
  DEF CompleteByLeo, CompleteByEarley, PredictAndPostdot, PopulateLim, linkVars

\* A completion that has its links keeps them.
LEMMA LinkingStays ==
    ASSUME SpanInv, [Next]_vars, phase # "before", NEW c \in items, IsCompletion(c.ahm), Linking(c)
    PROVE  Linking(c)'
<1>1. c.origin # current
  BY CompletedBefore
<1>2. Waiting(c)' = Waiting(c)
  BY <1>1, PimsFrozen DEF Waiting
<1> QED BY <1>2, LinksGrow DEF Linking

\* A completion stays on the stack until its links are made.
LEMMA CompletionsLinkedStep ==
    ASSUME SpanInv, SpanInv', CompletionsLinked, [Next]_vars, phase # "before"
    PROVE  CompletionsLinked'
<1> SUFFICES ASSUME NEW c \in items', IsCompletion(c.ahm), c \notin stack',
                    ~ (pc' = "scan" /\ c.at = current'), LimsOf(c)' = {}
             PROVE  Linking(c)'
  BY DEF CompletionsLinked
<1>0. TypeInv /\ ~ StartInput
  BY DEF SpanInv, InputInv, StartInput
<1>1. ASSUME c \in items, c \notin stack, ~ (pc = "scan" /\ c.at = current)
      PROVE  Linking(c)'
  <2>1. LimsOf(c) = {}
    BY <1>1, CompletedBefore, LimsFrozen DEF LimsOf
  <2> QED BY <1>1, <2>1, LinkingStays DEF CompletionsLinked
<1>2. \A i \in items' \ items : i.at = current
  BY ChartFrozen
<1>3. CASE EarlemeStep
  BY <1>1, <1>3, EarlemeSteps DEF SpanInv
<1>4. ASSUME NEW a \in alternatives, ScanToken(a) PROVE Linking(c)'
  BY <1>1, <1>2, <1>4 DEF ScanToken
<1>5. ASSUME EndScan PROVE Linking(c)'
  <2>1. c \in items /\ c.at # current /\ stack = {}
    BY <1>0, <1>5 DEF EndScan, AtCurrent, TypeInv, CallState
  <2> QED BY <1>1, <2>1
<1>6. ASSUME NEW cause \in stack, CompleteByLeo(cause) PROVE Linking(c)'
  <2>1. PICK k :
              /\ k.cause = cause /\ k.lim \in LimsFor(cause.origin, LhsOf(cause.ahm))
              /\ items' = items \cup {k.effect}
              /\ stack' = (stack \ {cause}) \cup ({k.effect} \ items)
    BY <1>6, LeoLink
  <2>2. c \in items /\ pc = "complete"
    BY <1>6, <2>1 DEF CompleteByLeo
  <2>3. c # cause
    <3>1. LimsFor(cause.origin, LhsOf(cause.ahm))' = LimsFor(cause.origin, LhsOf(cause.ahm))
      BY <2>2, LimsFrozen
    <3> QED BY <2>1, <3>1 DEF LimsOf
  <2> QED BY <1>1, <2>1, <2>2, <2>3
<1>7. ASSUME NEW cause \in stack, CompleteByEarley(cause) PROVE Linking(c)'
  <2> DEFINE preds == Pims(cause.origin, LhsOf(cause.ahm))
             effects == {Advance(i, current) : i \in preds}
  <2>1. /\ items' = items \cup effects
        /\ stack' = (stack \ {cause}) \cup NewCompletions(effects)
        /\ completionLinks' = completionLinks \cup
              {[effect |-> Advance(i, current), pred |-> i, cause |-> cause] : i \in preds}
        /\ pc = "complete"
    BY <1>7 DEF CompleteByEarley
  <2>2. c \in items
    BY <2>1 DEF NewCompletions
  <2>3. CASE c = cause
    <3>1. c.origin # current
      BY <2>2, <2>3, CompletedBefore
    <3>2. Waiting(c)' = preds
      BY <2>3, <3>1, PimsFrozen DEF Waiting
    <3>3. ASSUME NEW i \in preds PROVE \E k \in completionLinks' : k.pred = i /\ k.cause = c
      <4> PICK k : k = [effect |-> Advance(i, current), pred |-> i, cause |-> cause]
        OBVIOUS
      <4>1. k \in completionLinks'
        BY <2>1
      <4> QED BY <2>3, <4>1
    <3> HIDE DEF preds
    <3> QED BY <3>2, <3>3 DEF Linking
  <2>4. CASE c # cause
    BY <1>1, <2>1, <2>2, <2>4
  <2> QED BY <2>3, <2>4
<1>8. ASSUME PredictAndPostdot PROVE Linking(c)'
  <2>1. /\ current \in Nat /\ pc = "complete" /\ stack = {}
        /\ items' = items \cup Predictions(AtCurrent, current)
    BY <1>0, <1>8, CurrentType DEF PredictAndPostdot, AtCurrent
  <2>2. \A i \in Predictions(AtCurrent, current) : ~ IsCompletion(i.ahm)
    BY <2>1, PredictionsTypes, PredictionType, FirstAhmType
  <2> QED BY <1>1, <2>1, <2>2
<1>9. ASSUME NEW n \in newLims, PopulateLim(n) PROVE Linking(c)'
  BY <1>0, <1>1, <1>9 DEF PopulateLim, TypeInv, CallState
<1>10. CASE UNCHANGED <<current, items>> /\ (UNCHANGED <<pc, stack>> \/ EndEarleySet)
  BY <1>1, <1>10 DEF EndEarleySet
<1> QED
  BY <1>0, <1>3, <1>4, <1>5, <1>6, <1>7, <1>8, <1>9, <1>10, OtherSteps

\* What a bocage needs of the chart to be exact.
DerivationInv ==
    /\ ChartInv /\ DoneInv /\ LimsHide /\ SoundInv
    /\ PredictionsSpan /\ LinksDivide /\ TokensLinked /\ CompletionsLinked

\* A new recognizer has no chart.
LEMMA DerivationInit == Init => DerivationInv
<1> SUFFICES ASSUME Init PROVE DerivationInv
  OBVIOUS
<1>1. items = {} /\ tokenLinks = {} /\ completionLinks = {}
  BY DEF Init
<1>2. PredictionsSpan /\ LinksDivide /\ TokensLinked /\ CompletionsLinked
  BY <1>1 DEF PredictionsSpan, LinksDivide, TokensLinked, CompletionsLinked, ScannedTokens
<1> QED BY <1>2, ChartInit, DoneInit, HideInit, SoundInit DEF DerivationInv

\* Each step of the recognizer keeps DerivationInv.
LEMMA DerivationStep ==
    ASSUME DerivationInv, [Next]_vars
    PROVE  DerivationInv'
<1>0. ChartInv /\ ChartInv' /\ SpanInv /\ SpanInv' /\ TypeInv
  BY ChartStep DEF DerivationInv, ChartInv, SpanInv, InputInv
<1>1. DoneInv' /\ LimsHide' /\ SoundInv' /\ PredictionsSpan' /\ LinksDivide' /\ TokensLinked'
  BY <1>0, DoneStep, HideStep, SoundStep, PredictionsSpanStep, LinksDivideStep, TokensLinkedStep
  DEF DerivationInv
<1>2. CompletionsLinked'
  <2>1. CASE phase = "before"
    <3>1. /\ items = {} /\ stack = {} /\ newLims = {} /\ alternatives = {} /\ pc = "idle"
      BY <1>0, <2>1 DEF TypeInv, NothingBefore, BuiltDuringInput
    <3>2. \A i \in items' : ~ IsCompletion(i.ahm)
      <4>1. CASE StartInput
        <5>1. InitialRules \cup {G.startRule} \subseteq Rule
          BY RuleTypes, InitialAreClosed
        <5>2. items' = StartItems
          BY <4>1 DEF StartInput
        <5> QED BY <5>1, <5>2, PredictionType, FirstAhmType DEF StartItems
      <4>2. CASE ~ StartInput
        BY <1>0, <2>1, <3>1, <4>2, OtherSteps
        DEF EarlemeStep, CompletePastFurthest, CompleteGap, BeginEarleySet, PredictAndPostdot
      <4> QED BY <4>1, <4>2
    <3> QED BY <3>2 DEF CompletionsLinked
  <2>2. CASE phase # "before"
    BY <1>0, <2>2, CompletionsLinkedStep DEF DerivationInv
  <2> QED BY <2>1, <2>2
<1> QED BY <1>0, <1>1, <1>2 DEF DerivationInv

\* So does a call that leaves the chart alone.
LEMMA DerivationUnchanged ==
    ASSUME DerivationInv, RecognizerUnchanged
    PROVE  DerivationInv'
<1>0. ChartInv'
  BY ChartUnchanged DEF DerivationInv
<1> USE DEF RecognizerUnchanged, inputVars, chartVars, linkVars, valueVars, settingVars
<1>1. DoneInv'
  BY DEF DerivationInv, DoneInv, CompletionsProcessed, TokensProcessed, Processed, ScannedTokens,
         LimsFor, Pims, Advance
<1>2. LimsHide' /\ PredictionsSpan'
  BY DEF DerivationInv, LimsHide, PredictionsSpan, Trailhead
<1>3. SoundInv'
  BY DEF DerivationInv, SoundInv, Within, EarleyClosed, ScannedTokens, Advance, Prediction
<1>4. LinksDivide' /\ TokensLinked' /\ CompletionsLinked'
  BY DEF DerivationInv, LinksDivide, TokensLinked, CompletionsLinked, Linking, Waiting, LimsOf,
         ScannedTokens, LimsFor, Pims
<1> QED BY <1>0, <1>1, <1>2, <1>3, <1>4 DEF DerivationInv

-----------------------------------------------------------------------------
(***************************************************************************)
(* A Leo item points to its predecessor whenever it has one: if it had the *)
(* top and the origin of its own trailhead all the same, the chain above   *)
(* it would not end.                                                       *)
(***************************************************************************)
\* The top of a chain does not begin after what it goes through.
LEMMA OriginsFall ==
    ASSUME ChartInv, NEW l \in lims
    PROVE  l.origin <= l.base.origin /\ l.origin \in Nat
<1> DEFINE Bad == {m \in lims : ~ (m.origin <= m.base.origin /\ m.origin \in Nat)}
<1> SUFFICES ASSUME Bad # {} PROVE FALSE
  OBVIOUS
<1>1. PICK m \in Bad : PredecessorOf(m) \cap Bad = {}
  BY DEF ChartInv, LinkageInv, LimsFounded
<1>2. m \in lims /\ m.base.origin \in Nat
  BY PredecessorIs
<1>3. CASE PredecessorOf(m) = {}
  BY <1>2, <1>3 DEF ChartInv, LeoInv, LimsFollow
<1>4. ASSUME NEW p \in PredecessorOf(m), m.top = p.top, m.origin = p.origin
      PROVE  m.origin <= m.base.origin /\ m.origin \in Nat
  <2>1. p \in lims /\ p \notin Bad /\ p.at = m.base.origin
    BY <1>1 DEF PredecessorOf, LimsFor
  <2>2. p.origin <= p.base.origin /\ p.origin \in Nat
    BY <2>1
  <2>3. p.base.origin <= p.at /\ p.base.origin \in Nat /\ p.at \in Nat
    BY <2>1, PredecessorIs
  <2> QED BY <1>4, <2>1, <2>2, <2>3
<1> QED BY <1>2, <1>3, <1>4 DEF ChartInv, LeoInv, LimsFollow

\* There is at most one Leo item for a symbol in a set.
LEMMA PredecessorOnce ==
    ASSUME ChartInv, NEW l \in lims, NEW p \in PredecessorOf(l)
    PROVE  /\ PredecessorOf(l) = {p} /\ p \in lims /\ p.at = l.base.origin
           /\ p.sym = LhsOf(l.base.ahm) /\ l.top = p.top /\ l.origin = p.origin
<1>1. p \in lims /\ p.at = l.base.origin /\ p.sym = LhsOf(l.base.ahm)
  BY DEF PredecessorOf, LimsFor
<1>2. PICK q \in PredecessorOf(l) : l.top = q.top /\ l.origin = q.origin
  BY DEF ChartInv, LeoInv, LimsFollow
<1>3. \A m \in PredecessorOf(l) : m = p
  BY DEF ChartInv, LeoInv, LimsAlone, PredecessorOf, LimsFor
<1> QED BY <1>1, <1>2, <1>3

\* So the Leo item above is the predecessor.
LEMMA PredecessorsFollowed ==
    ASSUME ChartInv, PredictionsSpan, NEW l \in lims
    PROVE  PredecessorLim(l) = PredecessorOf(l)
<1> SUFFICES ASSUME l.top = Trailhead(l), l.origin = l.base.origin, PredecessorOf(l) # {}
             PROVE  FALSE
  BY DEF PredecessorLim
<1> PICK f : f = l.base.origin
  OBVIOUS
<1> DEFINE S == {m \in lims : /\ m.at = f /\ m.base.origin = f
                              /\ m.top = Trailhead(l) /\ m.origin = f}
<1>1. ASSUME NEW m \in lims, NEW p \in PredecessorOf(m), m.base.origin = f,
             m.top = Trailhead(l), m.origin = f
      PROVE  p \in S
  <2>1. p \in lims /\ p.at = f /\ p.top = Trailhead(l) /\ p.origin = f
    BY <1>1, PredecessorOnce
  <2>2. p.origin <= p.base.origin /\ p.base.origin <= p.at
        /\ p.origin \in Nat /\ p.base.origin \in Nat /\ p.at \in Nat
    BY <2>1, OriginsFall, PredecessorIs
  <2> QED BY <2>1, <2>2
<1>2. S # {}
  BY <1>1
<1>3. PICK m \in S : PredecessorOf(m) \cap S = {}
  BY <1>2 DEF ChartInv, LinkageInv, LimsFounded
<1>4. m \in lims /\ m.at = f /\ m.base.origin = f /\ m.top = Trailhead(l) /\ m.origin = f
  OBVIOUS
<1>5. PredecessorOf(m) = {}
  <2> HIDE DEF S
  <2> QED BY <1>1, <1>3, <1>4
<1>6. Trailhead(m) = Trailhead(l)
  BY <1>4, <1>5 DEF ChartInv, LeoInv, LimsFollow
<1>7. /\ m.base \in items /\ m.base.at = m.at /\ ~ IsCompletion(m.base.ahm) /\ m.base.ahm \in Ahm
      /\ l.base \in items /\ l.base.at = l.at /\ ~ IsCompletion(l.base.ahm) /\ l.base.ahm \in Ahm
  BY <1>4, PredecessorIs
<1>8. m.base.ahm = l.base.ahm
  <2>1. RuleOf(m.base.ahm) = RuleOf(l.base.ahm) /\ m.base.ahm[2] + 1 = l.base.ahm[2] + 1
    BY <1>6, <1>7, NextAhmType DEF Trailhead
  <2>2. m.base.ahm[2] \in Nat /\ l.base.ahm[2] \in Nat
        /\ m.base.ahm = <<RuleOf(m.base.ahm), m.base.ahm[2]>>
        /\ l.base.ahm = <<RuleOf(l.base.ahm), l.base.ahm[2]>>
    BY <1>7, AhmTypes
  <2>3. m.base.ahm[2] = l.base.ahm[2]
    BY <2>1, <2>2
  <2> QED BY <2>1, <2>2, <2>3
<1>9. l.at = f
  <2>1. ~ (m.base.ahm[2] > 0) /\ m.base.ahm[2] \in Nat
    BY <1>4, <1>7, ItemIs
  <2>2. l.base.ahm[2] = 0
    BY <1>8, <2>1
  <2> QED BY <1>7, <2>2 DEF PredictionsSpan
<1>10. m = l
  <2>1. PostdotIs(m.base.ahm, m.sym) /\ PostdotIs(l.base.ahm, l.sym)
    BY <1>4 DEF ChartInv, SpanInv, LimsSpan
  <2>2. m.sym = l.sym
    BY <1>8, <2>1 DEF PostdotIs
  <2> QED BY <1>4, <1>9, <2>2 DEF ChartInv, LeoInv, LimsAlone, LimsFor
<1> QED BY <1>5, <1>10

\* The chain that begins with a Leo item does not come back to it.
LEMMA ChainsDoNotReturn ==
    ASSUME ChartInv, NEW l \in lims, NEW m \in Above[l]
    PROVE  l \notin PredecessorLim(m)
<1> SUFFICES ASSUME l \in PredecessorLim(m) PROVE FALSE
  OBVIOUS
<1> DEFINE D == {x \in lims : m \in Chain(x)}
<1>1. l \in D /\ m \in lims
  BY AboveIsChain, AboveIs
<1>2. ASSUME NEW x \in D PROVE PredecessorOf(x) \cap D # {}
  <2>1. PredecessorLim(x) \subseteq PredecessorOf(x) /\ PredecessorLim(x) \subseteq lims
    BY PredecessorIs
  <2>2. CASE x = m
    BY <1>1, <2>1, <2>2
  <2>3. CASE x # m
    <3>1. Chain(x) = {x} \cup UNION {Chain(p) : p \in PredecessorLim(x)}
      BY ChainUnfolds
    <3>2. PICK p \in PredecessorLim(x) : m \in Chain(p)
      BY <2>3, <3>1
    <3> QED BY <2>1, <3>2
  <2> QED BY <2>2, <2>3
<1>3. PICK x \in D : PredecessorOf(x) \cap D = {}
  <2> HIDE DEF D
  <2>1. D \in SUBSET lims
    BY DEF D
  <2> QED BY <1>1, <2>1 DEF ChartInv, LinkageInv, LimsFounded
<1> QED BY <1>2, <1>3

-----------------------------------------------------------------------------
(***************************************************************************)
(* The reference chart at an earleme: the items up to there, and what the  *)
(* paths of the Leo links go through.                                      *)
(***************************************************************************)
PathItems == UNION {{PathItem(l, k.effect.at) : l \in Above[k.lim]} : k \in leoLinks}

\* A step of a path completes what the base of its Leo item waits for.
LEMMA PathItemIs ==
    ASSUME ChartInv, NEW k \in leoLinks, NEW l \in Above[k.lim],
           NEW c, c = PathItem(l, k.effect.at)
    PROVE  /\ c = Advance(l.base, k.effect.at) /\ c \in Item /\ c \in PathItems
           /\ IsCompletion(c.ahm) /\ IsLeoCompletion(c.ahm)
           /\ c.ahm = Trailhead(l) /\ c.at = k.effect.at /\ c.origin = l.base.origin
           /\ LhsOf(c.ahm) = LhsOf(l.base.ahm) /\ LimsOf(c) = PredecessorOf(l)
           /\ PredecessorLim(l) = {} => c = k.effect
<1>1. l \in lims /\ k.lim \in lims /\ k.effect.at \in Nat /\ k.effect \in items /\ k.effect \in Item
  BY PathIs, LeoLinkIs DEF ChartInv, SpanInv, InputInv, TypeInv, TypeOK
<1>2. /\ l.base \in Item /\ ~ IsCompletion(l.base.ahm)
  BY <1>1, PredecessorIs DEF ChartInv, SpanInv, InputInv, TypeInv, TypeOK
<1>3. c = Advance(l.base, k.effect.at)
  BY DEF PathItem, Advance, Trailhead
<1>4. /\ c \in Item /\ c.ahm = Trailhead(l) /\ c.at = k.effect.at /\ c.origin = l.base.origin
      /\ LhsOf(c.ahm) = LhsOf(l.base.ahm)
  BY <1>1, <1>2, <1>3, AdvanceType, AdvanceRule DEF Trailhead
<1>5. IsLeoCompletion(c.ahm)
  BY <1>1, <1>4 DEF ChartInv, LinkageInv, LimsRecur
<1>6. LimsOf(c) = PredecessorOf(l)
  BY <1>4 DEF LimsOf, PredecessorOf
<1>7. ASSUME PredecessorLim(l) = {} PROVE c = k.effect
  <2>1. l.top = Trailhead(l) /\ l.origin = l.base.origin
    BY <1>1, <1>7, PredecessorIs
  <2>2. l.top = k.lim.top /\ l.origin = k.lim.origin
    BY <1>1, AboveIs
  <2>3. k.effect.ahm = c.ahm /\ k.effect.origin = c.origin /\ k.effect.at = c.at
    BY <1>4, <2>1, <2>2, LeoLinkIs
  <2> QED BY <1>1, <1>4, <2>3 DEF Item
<1>8. c \in PathItems
  BY DEF PathItems
<1> QED BY <1>3, <1>4, <1>5, <1>6, <1>7, <1>8 DEF IsLeoCompletion

\* The paths are in each chart that is closed and holds the items.
LEMMA PathsBelow ==
    ASSUME ChartInv, NEW T, NEW X, EarleyClosed(X, T), items \subseteq X
    PROVE  PathItems \subseteq X
<1> SUFFICES ASSUME NEW k \in leoLinks, NEW l \in Above[k.lim] PROVE PathItem(l, k.effect.at) \in X
  BY DEF PathItems
<1> PICK e : e = k.effect.at
  OBVIOUS
<1> DEFINE D == {m \in Above[k.lim] : PathItem(m, e) \in X}
<1>1. /\ k.cause \in items /\ IsCompletion(k.cause.ahm) /\ k.cause.at = e /\ k.lim \in lims
      /\ k.lim \in LimsFor(k.cause.origin, LhsOf(k.cause.ahm))
  BY LeoLinkIs DEF ChartInv, LinkInv, LinksAreLeo
<1>2. k.lim \in Above[k.lim] /\ Above[k.lim] \in SUBSET lims
  BY <1>1, AboveIs
<1>3. ASSUME NEW m \in Above[k.lim], NEW c \in X, IsCompletion(c.ahm), c.at = e,
             m \in LimsFor(c.origin, LhsOf(c.ahm))
      PROVE  PathItem(m, e) \in X
  <2>1. m \in lims /\ m.at = c.origin /\ m.sym = LhsOf(c.ahm)
    BY <1>3 DEF LimsFor
  <2>2. m.base \in items /\ m.base.at = m.at /\ PostdotIs(m.base.ahm, m.sym)
    BY <2>1 DEF ChartInv, SpanInv, LimsSpan
  <2>3. Advance(m.base, c.at) \in X
    BY <1>3, <2>1, <2>2 DEF EarleyClosed
  <2>4. PathItem(m, e) = Advance(m.base, e)
    BY <1>3, PathItemIs
  <2> QED BY <1>3, <2>3, <2>4
<1>4. k.lim \in D
  BY <1>1, <1>2, <1>3
<1>5. Upward(D)
  <2> SUFFICES ASSUME NEW m \in D, NEW p \in PredecessorLim(m) PROVE p \in D
    BY DEF Upward
  <2>1. m \in lims /\ p \in Above[k.lim] /\ p \in PredecessorOf(m)
    BY <1>1, <1>2, AboveIs, PredecessorIs
  <2>2. PICK c : c = PathItem(m, e)
    OBVIOUS
  <2>3. c \in X /\ IsCompletion(c.ahm) /\ c.at = e /\ LimsOf(c) = PredecessorOf(m)
    BY <2>2, PathItemIs
  <2>4. PathItem(p, e) \in X
    BY <1>3, <2>1, <2>3 DEF LimsOf
  <2> QED BY <2>1, <2>4
<1>6. Above[k.lim] \subseteq D
  <2>1. D \in SUBSET lims
    BY <1>2
  <2> HIDE DEF D
  <2> QED BY <1>1, <1>4, <1>5, <2>1, ChainIs, AboveIsChain
<1> QED BY <1>6

\* The chart with its paths is closed.
LEMMA PathsClosed ==
    ASSUME DerivationInv, pc = "idle", phase # "before"
    PROVE  EarleyClosed(items \cup PathItems, ScannedTokens)
<1> DEFINE X == items \cup PathItems
<1>0. /\ ChartInv /\ SpanInv /\ LimsHide /\ LeoInv /\ DoneInv /\ LinkInv /\ PredictInv
      /\ items \subseteq Item /\ stack = {}
      /\ EarleyClosed(items \cup Hidden, ScannedTokens)
  BY ChartClosed DEF DerivationInv, ChartInv, SpanInv, InputInv, TypeInv, TypeOK, CallState
<1>1. \A c \in PathItems : IsCompletion(c.ahm)
  BY <1>0, PathItemIs DEF PathItems
<1>2. /\ \A i \in X : (\E s : PostdotIs(i.ahm, s)) => i \in items
      /\ \A i \in items \cup Hidden : ~ IsCompletion(i.ahm) => i \in items
  BY <1>0, <1>1, HiddenItems DEF PostdotIs
<1>3. \A r \in Rule, e \in Nat : ~ IsCompletion(Prediction(r, e).ahm)
  BY PredictionType, FirstAhmType
<1>4. Prediction(G.startRule, 0) \in X
  BY <1>0, <1>2, <1>3, RuleTypes DEF EarleyClosed
<1>5. ASSUME NEW i \in X, NEW r \in Rule, PostdotIs(i.ahm, Lhs(r)), i.at = 0 => r \notin G.barred
      PROVE  Prediction(r, i.at) \in X
  <2>1. i \in items /\ i.at \in Nat
    BY <1>0, <1>2, <1>5, ItemTypes
  <2>2. Prediction(r, i.at) \in items \cup Hidden
    BY <1>0, <1>5, <2>1 DEF EarleyClosed
  <2> QED BY <1>2, <1>3, <2>1, <2>2
<1>6. ASSUME NEW i \in X, NEW t \in ScannedTokens, i.at = t.start, PostdotIs(i.ahm, t.sym)
      PROVE  Advance(i, t.end) \in X
  <2>1. i \in Pims(t.start, t.sym)
    BY <1>2, <1>6 DEF Pims
  <2> QED BY <1>0, <2>1 DEF DoneInv, TokensProcessed
<1>7. ASSUME NEW i \in X, NEW c \in X, IsCompletion(c.ahm), i.at = c.origin,
             PostdotIs(i.ahm, LhsOf(c.ahm))
      PROVE  Advance(i, c.at) \in X
  <2>1. i \in Pims(c.origin, LhsOf(c.ahm))
    BY <1>2, <1>7 DEF Pims
  <2>2. \A l \in LimsFor(c.origin, LhsOf(c.ahm)) : l \in lims /\ i = l.base
    BY <1>0, <2>1 DEF LimsFor, LeoInv, LimsAlone
  <2>3. CASE c \in items /\ LimsOf(c) = {}
    <3>1. Processed(c)
      BY <1>0, <1>7, <2>3 DEF DoneInv, CompletionsProcessed
    <3> QED BY <2>1, <2>3, <3>1 DEF Processed, LimsOf
  <2>4. CASE c \in items /\ LimsOf(c) # {}
    <3>1. PICK k \in leoLinks : k.cause = c
      BY <1>0, <1>7, <2>4 DEF LinkInv, LinksAreMade, LimsOf
    <3>2. k.lim \in LimsFor(c.origin, LhsOf(c.ahm)) /\ k.effect.at = c.at /\ k.lim \in Above[k.lim]
      BY <1>0, <3>1, LeoLinkIs, AboveIs DEF LinkInv, LinksAreLeo
    <3>3. Advance(k.lim.base, k.effect.at) \in PathItems
      BY <1>0, <3>2, PathItemIs
    <3> QED BY <2>2, <3>2, <3>3
  <2>5. CASE c \in PathItems /\ c \notin items
    <3>1. PICK k \in leoLinks : \E l \in Above[k.lim] : c = PathItem(l, k.effect.at)
      BY <2>5 DEF PathItems
    <3>2. PICK l \in Above[k.lim] : c = PathItem(l, k.effect.at)
      BY <3>1
    <3>3. /\ LimsOf(c) = PredecessorOf(l) /\ c.at = k.effect.at
          /\ PredecessorLim(l) # {}
      BY <1>0, <2>5, <3>2, PathItemIs, LeoLinkIs
    <3>4. PICK p : p \in PredecessorLim(l)
      BY <3>3
    <3>5. p \in Above[k.lim] /\ p \in PredecessorOf(l)
      BY <1>0, <3>4, LeoLinkIs, AboveIs, PredecessorIs
    <3>6. Advance(p.base, k.effect.at) \in PathItems
      BY <1>0, <3>5, PathItemIs
    <3> QED BY <2>2, <3>3, <3>5, <3>6 DEF LimsOf
  <2> QED BY <2>3, <2>4, <2>5
<1> QED BY <1>4, <1>5, <1>6, <1>7 DEF EarleyClosed

\* What a chart lacks beyond its last earleme does not reach back into it.
LEMMA ChartExtends ==
    ASSUME NEW T, AreTokens(T), NEW e \in Nat, NEW C, IsChartOf(C, T, e)
    PROVE  /\ EarleyClosed(C \cup {i \in Item : i.at > e}, T)
           /\ C \cup {i \in Item : i.at > e} \in SUBSET Item
<1> DEFINE X == C \cup {i \in Item : i.at > e}
<1>0. C \subseteq ItemsUpTo(e) /\ EarleyClosed(C, TokensUpTo(T, e))
  BY DEF IsChartOf
<1>1. C \subseteq Item /\ \A i \in C : i.at <= e /\ i.origin <= e
  BY <1>0 DEF ItemsUpTo, Item
<1>2. X \subseteq Item
  BY <1>1
<1>3. \A i \in X : i \in Item /\ i.at \in Nat /\ i.origin \in Nat /\ (i.at <= e => i \in C)
  BY <1>2, ItemTypes
<1>4. Prediction(G.startRule, 0) \in X
  BY <1>0 DEF EarleyClosed
<1>5. ASSUME NEW i \in X, NEW r \in Rule, PostdotIs(i.ahm, Lhs(r)), i.at = 0 => r \notin G.barred
      PROVE  Prediction(r, i.at) \in X
  <2>1. CASE i.at <= e
    BY <1>0, <1>3, <1>5, <2>1 DEF EarleyClosed
  <2>2. CASE ~ (i.at <= e)
    BY <1>3, <2>2, PredictionType
  <2> QED BY <2>1, <2>2
<1>6. ASSUME NEW i \in X, NEW t \in T, i.at = t.start, PostdotIs(i.ahm, t.sym)
      PROVE  Advance(i, t.end) \in X
  <2>1. t.start \in Nat /\ t.end \in Nat /\ t.start < t.end
    BY DEF AreTokens
  <2>2. CASE t.end <= e
    <3>1. i \in C
      BY <1>3, <1>6, <2>1, <2>2
    <3> QED BY <1>0, <1>6, <2>2, <3>1 DEF EarleyClosed, TokensUpTo
  <2>3. CASE ~ (t.end <= e)
    <3>1. ~ IsCompletion(i.ahm)
      BY <1>6 DEF PostdotIs
    <3> QED BY <1>3, <2>1, <2>3, <3>1, AdvanceType
  <2> QED BY <2>2, <2>3
<1>7. ASSUME NEW i \in X, NEW c \in X, IsCompletion(c.ahm), i.at = c.origin,
             PostdotIs(i.ahm, LhsOf(c.ahm))
      PROVE  Advance(i, c.at) \in X
  <2>1. CASE c.at <= e
    <3>1. c \in C /\ i \in C
      BY <1>1, <1>3, <1>7, <2>1
    <3> QED BY <1>0, <1>7, <3>1 DEF EarleyClosed
  <2>2. CASE ~ (c.at <= e)
    <3>1. ~ IsCompletion(i.ahm)
      BY <1>7 DEF PostdotIs
    <3> QED BY <1>3, <2>2, <3>1, AdvanceType
  <2> QED BY <2>1, <2>2
<1> QED BY <1>2, <1>4, <1>5, <1>6, <1>7 DEF EarleyClosed

\* Up to an earleme, the recognizer has the reference chart of it, but for the steps of
\* its Leo paths.
LEMMA ChartUpTo ==
    ASSUME DerivationInv, pc = "idle", phase # "before", NEW e \in Nat
    PROVE  Chart(ScannedTokens, e) = {i \in items \cup PathItems : i.at <= e}
<1> DEFINE T == ScannedTokens
           C == Chart(T, e)
           X == C \cup {i \in Item : i.at > e}
<1>1. AreTokens(T)
  BY DEF DerivationInv, DoneInv, TokensProcessed, AreTokens
<1>2. IsChartOf(C, T, e)
  BY <1>1, ChartIsOf
<1> HIDE DEF C, T
<1>3. EarleyClosed(X, T) /\ X \in SUBSET Item
  BY <1>1, <1>2, ChartExtends
<1>4. items \subseteq X
  <2> HIDE DEF X
  <2> QED BY <1>3 DEF DerivationInv, SoundInv, Within, T
<1>5. PathItems \subseteq X
  <2> HIDE DEF X
  <2> QED BY <1>3, <1>4, PathsBelow DEF DerivationInv
<1>6. C \subseteq items \cup PathItems
  BY <1>2, PathsClosed DEF IsChartOf, T
<1>7. \A i \in C : i.at <= e
  BY <1>2 DEF IsChartOf, ItemsUpTo
<1>8. ASSUME NEW i \in items \cup PathItems, i.at <= e PROVE i \in C
  <2>1. i \in X
    BY <1>4, <1>5
  <2>2. i.at > e => ~ (i.at <= e)
    BY <1>3, <2>1, ItemTypes
  <2> QED BY <1>8, <2>1, <2>2
<1>9. C = {i \in items \cup PathItems : i.at <= e}
  BY <1>6, <1>7, <1>8
<1> QED BY <1>9 DEF C, T

-----------------------------------------------------------------------------
(***************************************************************************)
(* The items of a bocage are its start, and what leads back to it.         *)
(***************************************************************************)
\* So each item of a bocage but the start is the source of another, and none lies
\* after the start.
LEMMA HeldFromStart ==
    ASSUME ChartInv, NEW start \in items, NEW I, I = WithOr(Reached(start))
    PROVE  /\ \A i \in I : i = start \/ i \in Sources(I)
           /\ \A i \in I : i.at <= start.at
           /\ \A i \in Sources(I) : IsPredicted(i) \/ i \in I
<1> DEFINE R == Reached(start)
<1>1. start \in R /\ R \subseteq items /\ \A i \in Sources(R) : IsPredicted(i) \/ i \in R
  BY ReachedIs
<1>2. I = R \cup {i \in Sources(R) : IsPredicted(i) /\ NullCount[i.ahm] > 0}
  BY DEF WithOr
<1>3. I \in SUBSET items /\ R \in SUBSET I
  BY <1>1, <1>2, SourcesStay
<1>4. \A C \in SUBSET items : start \in C /\ Onward(C) \subseteq C => R \subseteq C
  BY ReachedIs
<1> HIDE DEF R
<1>5. Sources(R) \subseteq Sources(I)
  BY <1>3, SourcesStay
<1>6. Sources(I) \subseteq Sources(R)
  <2>1. \A i \in I : i.ahm[2] > 0 => i \in R
    BY <1>2 DEF IsPredicted
  <2> QED BY <1>3, <2>1, EffectIs, SourcesAre
<1>7. ASSUME NEW i \in R, i # start, i \notin Sources(R) PROVE FALSE
  <2>1. R \ {i} \in SUBSET items /\ R \ {i} \in SUBSET R /\ R \in SUBSET items /\ start \in R \ {i}
    BY <1>1, <1>7
  <2>2. Sources(R \ {i}) \subseteq Sources(R)
    BY <2>1, SourcesStay
  <2>3. Onward(R \ {i}) \subseteq R \ {i}
    BY <1>1, <1>7, <2>2 DEF Onward
  <2> QED BY <1>4, <1>7, <2>1, <2>3
<1>8. ASSUME NEW i \in I PROVE i = start \/ i \in Sources(I)
  BY <1>2, <1>5, <1>7
<1> DEFINE D == {i \in items : i.at <= start.at}
<1>9. ASSUME NEW J \in SUBSET D, NEW i \in Sources(J) PROVE i.at <= start.at /\ i \in items
  <2>0. J \in SUBSET items /\ start.at \in Nat
    BY ItemIs
  <2>1. i \in items
    BY <2>0, SourcesStay
  <2>2. ASSUME NEW k \in tokenLinks, k.effect \in J, LinkSource(i, k) PROVE i.at <= start.at
    <3>1. i = k.pred /\ k.pred.at < k.effect.at
      BY <2>2 DEF LinkSource, ChartInv, LinkageInv, SourcesAreThere
    <3>2. k.effect.at <= start.at /\ k.effect.at \in Nat /\ i.at \in Nat
      BY <2>0, <2>1, <2>2, ItemIs
    <3> QED BY <2>0, <3>1, <3>2
  <2>3. ASSUME NEW k \in completionLinks, k.effect \in J, PairSource(i, k) PROVE i.at <= start.at
    <3>1. /\ k.pred \in items /\ k.cause \in items /\ k.pred.at = k.cause.origin
          /\ k.effect = Advance(k.pred, k.cause.at) /\ (i = k.pred \/ i = k.cause)
      BY <2>3 DEF PairSource, ChartInv, LinkageInv, SourcesAreThere
    <3>2. k.effect.at = k.cause.at
      BY <3>1 DEF Advance
    <3>3. k.cause.origin <= k.cause.at /\ k.cause.origin \in Nat /\ k.cause.at \in Nat
      BY <3>1, ItemIs
    <3>4. k.effect.at <= start.at
      BY <2>3
    <3> QED BY <2>0, <3>1, <3>2, <3>3, <3>4
  <2>4. ASSUME NEW k \in leoLinks, k.effect \in J, LeoSource(i, k) PROVE i.at <= start.at
    <3>1. k.effect.at <= start.at /\ k.effect.at = k.cause.at /\ k.cause \in items
      BY <2>4, LeoLinkIs
    <3>2. CASE i = k.cause
      BY <3>1, <3>2
    <3>3. ASSUME NEW l \in Above[k.lim], i = l.base PROVE i.at <= start.at
      <4>1. i.at = l.at /\ l.at <= k.cause.origin /\ k.cause.origin < k.effect.at /\ l.at \in Nat
            /\ k.effect.at \in Nat
        BY <3>3, PathIs
      <4>2. k.cause.origin \in Nat
        BY <3>1, ItemIs
      <4> QED BY <2>0, <3>1, <4>1, <4>2
    <3> QED BY <2>4, <3>2, <3>3 DEF LeoSource
  <2> QED BY <2>1, <2>2, <2>3, <2>4, SourcesAre
<1>10. R \subseteq D
  <2>1. start \in D
    BY ItemIs
  <2>2. Onward(D) \subseteq D
    BY <1>9 DEF Onward
  <2>3. D \in SUBSET items
    OBVIOUS
  <2> HIDE DEF D
  <2> QED BY <1>4, <2>1, <2>2, <2>3
<1>11. \A i \in I : i.at <= start.at
  BY <1>2, <1>9, <1>10
<1> QED BY <1>1, <1>3, <1>6, <1>8, <1>11

-----------------------------------------------------------------------------
(***************************************************************************)
(* An or-node that is found by its place has its item among those of the   *)
(* bocage, or is on the path of a link whose effect is among them.         *)
(***************************************************************************)
\* A proper or-node after the first symbol is that of one item.
LEMMA ProperOrNames ==
    ASSUME NEW i \in Item, i.ahm[2] > 0, NEW o, o = ProperOrOf(i)
    PROVE  /\ o \in OrSpace /\ o # NoOr /\ o.rule = RuleOf(i.ahm) /\ o.dot = i.ahm[2] /\ o.nulls = 0
           /\ o.origin = i.origin /\ o.at = i.at
           /\ o = OrNode(o.rule, o.dot, 0, o.origin, o.at)
<1>1. /\ RuleOf(i.ahm) \in Rule /\ i.ahm[2] \in Nat /\ i.ahm[2] # 0
      /\ i.origin \in Nat /\ i.at \in Nat /\ 0 \in Nat
  BY ItemTypes, AhmTypes
<1>2. o = OrNode(RuleOf(i.ahm), i.ahm[2], 0, i.origin, i.at)
  BY DEF ProperOrOf
<1>3. o = [type |-> "or", rule |-> RuleOf(i.ahm), dot |-> i.ahm[2], nulls |-> 0,
           origin |-> i.origin, at |-> i.at]
  BY <1>1, <1>2 DEF OrNode
<1>4. /\ o \in OrSpace /\ o.rule = RuleOf(i.ahm) /\ o.dot = i.ahm[2] /\ o.nulls = 0
      /\ o.origin = i.origin /\ o.at = i.at
  BY <1>1, <1>3 DEF OrSpace
<1>5. o # NoOr
  BY <1>1, <1>2, MovedOrIs
<1> QED BY <1>2, <1>4, <1>5

\* Two items with one or-node are the same.
LEMMA ProperOrOnce ==
    ASSUME NEW i \in Item, i.ahm[2] > 0, NEW j \in Item, NEW n \in Nat,
           OrNode(RuleOf(j.ahm), j.ahm[2], n, j.origin, j.at) = ProperOrOf(i)
    PROVE  j = i /\ n = 0
<1> PICK o : o = ProperOrOf(i)
  OBVIOUS
<1>1. /\ o # NoOr /\ o.rule = RuleOf(i.ahm) /\ o.dot = i.ahm[2] /\ o.nulls = 0
      /\ o.origin = i.origin /\ o.at = i.at
  BY ProperOrNames
<1>2. /\ RuleOf(j.ahm) \in Rule /\ j.ahm[2] \in Nat /\ j.origin \in Nat /\ j.at \in Nat
      /\ j.ahm = <<RuleOf(j.ahm), j.ahm[2]>> /\ i.ahm = <<RuleOf(i.ahm), i.ahm[2]>>
  BY ItemTypes, AhmTypes
<1>3. /\ o.rule = RuleOf(j.ahm) /\ o.dot = j.ahm[2] /\ o.nulls = n
      /\ o.origin = j.origin /\ o.at = j.at
  <2>1. o = [type |-> "or", rule |-> RuleOf(j.ahm), dot |-> j.ahm[2], nulls |-> n,
             origin |-> j.origin, at |-> j.at]
    BY <1>1 DEF OrNode
  <2> QED BY <2>1
<1>4. j.ahm = i.ahm /\ j.origin = i.origin /\ j.at = i.at /\ n = 0
  BY <1>1, <1>2, <1>3
<1> QED BY <1>4 DEF Item

\* So an item whose proper or-node is an item's of I is one of I.
LEMMA ItemOrNames ==
    ASSUME ChartInv, NEW I \in SUBSET items, NEW x \in Item, x.ahm[2] > 0,
           ProperOrOf(x) \in ItemOrs(I)
    PROVE  x \in I
<1>1. PICK j \in I : \E n \in 0 .. NullCount[j.ahm] :
          ProperOrOf(x) = OrNode(RuleOf(j.ahm), j.ahm[2], n, j.origin, j.at)
  BY DEF ItemOrs
<1>2. PICK n \in 0 .. NullCount[j.ahm] :
          ProperOrOf(x) = OrNode(RuleOf(j.ahm), j.ahm[2], n, j.origin, j.at)
  BY <1>1
<1>3. j \in Item /\ n \in Nat
  BY ItemIs DEF ChartInv, SpanInv, InputInv, TypeInv, TypeOK
<1>4. j = x
  BY <1>2, <1>3, ProperOrOnce
<1> QED BY <1>4

\* The effect of a Leo link is told by the end of its chain and its place.
LEMMA EffectsAgree ==
    ASSUME ChartInv, NEW k \in leoLinks, NEW j \in leoLinks, k.lim.top = j.lim.top,
           k.lim.origin = j.lim.origin, k.effect.at = j.effect.at
    PROVE  k.effect = j.effect
<1>1. /\ k.effect = [ahm |-> k.lim.top, origin |-> k.lim.origin, at |-> k.cause.at]
      /\ j.effect = [ahm |-> j.lim.top, origin |-> j.lim.origin, at |-> j.cause.at]
      /\ k.effect.at = k.cause.at /\ j.effect.at = j.cause.at
  BY DEF ChartInv, LinkInv, LinksAreLeo
<1> QED BY <1>1

\* A completion that is both a step of one link and the cause of another has the
\* effect of both.
LEMMA StepThenCause ==
    ASSUME ChartInv, PredictionsSpan, NEW k \in leoLinks, NEW l \in Above[k.lim],
           NEW j \in leoLinks, j.cause = PathItem(l, k.effect.at)
    PROVE  j.effect = k.effect
<1> PICK c : c = PathItem(l, k.effect.at)
  OBVIOUS
<1>1. LimsOf(c) = PredecessorOf(l) /\ c.at = k.effect.at
  BY PathItemIs
<1>2. j.lim \in LimsOf(c) /\ j.effect.at = c.at /\ k.lim \in lims
  BY LeoLinkIs DEF ChartInv, LinkInv, LinksAreLeo, LimsOf
<1>3. l \in lims /\ l.top = k.lim.top /\ l.origin = k.lim.origin
  BY <1>2, AboveIs
<1>4. l.top = j.lim.top /\ l.origin = j.lim.origin
  BY <1>1, <1>2, <1>3, PredecessorOnce
<1> QED BY <1>1, <1>2, <1>3, <1>4, EffectsAgree

\* A step of a path is no start of a bocage unless it is the effect.
LEMMA StepsAreNotStarts ==
    ASSUME ChartInv, NEW k \in leoLinks, NEW l \in Above[k.lim], PredecessorOf(l) # {},
           NEW c, c = PathItem(l, k.effect.at)
    PROVE  RuleOf(c.ahm) # G.startRule
<1>1. PICK p : p \in PredecessorOf(l)
  OBVIOUS
<1>2. p \in lims /\ p.sym = LhsOf(c.ahm)
  BY <1>1, PathItemIs DEF PredecessorOf, LimsFor
<1>3. PostdotIs(p.base.ahm, p.sym) /\ p.base.ahm \in Ahm
  BY <1>2, PredecessorIs DEF ChartInv, SpanInv, LimsSpan
<1>4. \A a \in Ahm : ~ PostdotIs(a, Lhs(G.startRule))
  <2> SUFFICES ASSUME NEW a \in Ahm, PostdotIs(a, Lhs(G.startRule)) PROVE FALSE
    OBVIOUS
  <2>1. RuleOf(a) \in Rule /\ a[2] + 1 \in 1 .. Len(Rhs(RuleOf(a)))
    BY AhmTypes, RuleTypes DEF PostdotIs, IsCompletion
  <2> QED BY <2>1, GrammarAssumption DEF PostdotIs, Rule, Lhs, Rhs
<1> QED BY <1>2, <1>3, <1>4 DEF LhsOf

\* What a bocage from start is made of.
FromStart(I, start) ==
    /\ start \in items /\ RuleOf(start.ahm) = G.startRule /\ ~ IsPredicted(start)
    /\ IsHeld(I) /\ I \in SUBSET items /\ start \in I
    /\ \A i \in I : i = start \/ i \in Sources(I)
    /\ \A i \in I : i.at <= start.at
    /\ \A i \in Sources(I) : IsPredicted(i) \/ i \in I

\* A Leo link with a step among the or-nodes has its effect among the items.
LEMMA StepsAreHeld ==
    ASSUME DerivationInv, NEW start, NEW I, FromStart(I, start),
           NEW k \in leoLinks, NEW l \in Above[k.lim],
           ProperOrOf(PathItem(l, k.effect.at)) \in OrsOf(I)
    PROVE  k.effect \in I
<1> PICK c : c = PathItem(l, k.effect.at)
  OBVIOUS
<1>0. ChartInv /\ PredictionsSpan /\ LinksDivide /\ SourcesAreThere
  BY DEF DerivationInv, ChartInv, LinkageInv
<1>1. /\ c \in Item /\ IsCompletion(c.ahm) /\ c.at = k.effect.at /\ LimsOf(c) = PredecessorOf(l)
      /\ PredecessorLim(l) = {} => c = k.effect
      /\ l \in lims /\ k.lim \in lims /\ k.lim.top = l.top /\ k.lim.origin = l.origin
  BY <1>0, PathItemIs, PathIs, AboveIs
<1>2. c.ahm[2] > 0
  BY <1>1, ItemTypes, AhmTypes, RuleTypes DEF IsCompletion
<1>3. PredecessorLim(l) = PredecessorOf(l)
  BY <1>0, <1>1, PredecessorsFollowed
<1>4. CASE ProperOrOf(c) \in ItemOrs(I)
  <2>1. c \in I
    BY <1>0, <1>1, <1>2, <1>4, ItemOrNames DEF FromStart
  <2>2. CASE PredecessorOf(l) = {}
    BY <1>1, <1>3, <2>1, <2>2
  <2>3. CASE PredecessorOf(l) # {}
    <3>1. c # start
      BY <1>0, <2>3, StepsAreNotStarts DEF FromStart
    <3>2. c \in Sources(I)
      BY <2>1, <3>1 DEF FromStart
    <3>3. ~ \E j \in tokenLinks : j.effect \in I /\ LinkSource(c, j)
      BY <1>0, <1>1 DEF LinkSource, SourcesAreThere
    <3>4. ~ \E j \in completionLinks : j.effect \in I /\ PairSource(c, j)
      BY <1>0, <1>1, <2>3 DEF PairSource, SourcesAreThere, LinksDivide
    <3>5. PICK j \in leoLinks : j.effect \in I /\ LeoSource(c, j)
      BY <3>2, <3>3, <3>4, SourcesAre
    <3>6. \A m \in Above[j.lim] : ~ IsCompletion(m.base.ahm)
      BY <1>0, PathIs, PredecessorIs
    <3>7. j.cause = c
      BY <1>1, <3>5, <3>6 DEF LeoSource
    <3> QED BY <1>0, <3>5, <3>7, StepThenCause
  <2> QED BY <2>2, <2>3
<1>5. CASE ProperOrOf(c) \in PathOrs(I)
  <2>1. PICK j \in leoLinks : j.effect \in I /\ \E m \in Above[j.lim] :
            PredecessorLim(m) # {} /\ ProperOrOf(c) = ProperOrOf(PathItem(m, j.effect.at))
    BY <1>5 DEF PathOrs
  <2>2. PICK m \in Above[j.lim] :
            PredecessorLim(m) # {} /\ ProperOrOf(c) = ProperOrOf(PathItem(m, j.effect.at))
    BY <2>1
  <2>3. PICK d : d = PathItem(m, j.effect.at)
    OBVIOUS
  <2>4. /\ d \in Item /\ d.at = j.effect.at /\ LimsOf(d) = PredecessorOf(m)
        /\ m \in lims /\ j.lim \in lims /\ j.lim.top = m.top /\ j.lim.origin = m.origin
    BY <1>0, <2>3, PathItemIs, PathIs, AboveIs
  <2>5. c = d
    <3>1. OrNode(RuleOf(d.ahm), d.ahm[2], 0, d.origin, d.at) = ProperOrOf(c)
      BY <2>2, <2>3 DEF ProperOrOf
    <3> QED BY <1>1, <1>2, <2>4, <3>1, ProperOrOnce
  <2>6. PICK p : p \in PredecessorOf(m)
    BY <1>0, <2>2, <2>4, PredecessorIs
  <2>7. p \in PredecessorOf(l)
    BY <1>1, <2>4, <2>5, <2>6
  <2>8. m.top = p.top /\ m.origin = p.origin /\ l.top = p.top /\ l.origin = p.origin
    BY <1>0, <1>1, <2>4, <2>6, <2>7, PredecessorOnce
  <2>9. k.effect = j.effect
    BY <1>0, <1>1, <2>4, <2>5, <2>8, EffectsAgree
  <2> QED BY <2>1, <2>9
<1> QED BY <1>4, <1>5 DEF OrsOf

\* An item with its or-node in the bocage is among the items.
LEMMA OrsAreHeld ==
    ASSUME DerivationInv, pc = "idle", NEW start, NEW I, FromStart(I, start),
           NEW x \in items, x.ahm[2] > 0, ProperOrOf(x) \in OrsOf(I)
    PROVE  x \in I
<1>0. /\ ChartInv /\ PredictionsSpan /\ LinksAreMade /\ stack = {} /\ items \subseteq Item
      /\ I \in SUBSET items
  BY DEF DerivationInv, ChartInv, LinkInv, SpanInv, InputInv, TypeInv, TypeOK, CallState, FromStart
<1>1. CASE ProperOrOf(x) \in ItemOrs(I)
  BY <1>0, <1>1, ItemOrNames
<1>2. CASE ProperOrOf(x) \in PathOrs(I)
  <2>1. PICK k \in leoLinks : k.effect \in I /\ \E m \in Above[k.lim] :
            PredecessorLim(m) # {} /\ ProperOrOf(x) = ProperOrOf(PathItem(m, k.effect.at))
    BY <1>2 DEF PathOrs
  <2>2. PICK m \in Above[k.lim] :
            PredecessorLim(m) # {} /\ ProperOrOf(x) = ProperOrOf(PathItem(m, k.effect.at))
    BY <2>1
  <2>3. PICK d : d = PathItem(m, k.effect.at)
    OBVIOUS
  <2>4. d \in Item /\ IsCompletion(d.ahm) /\ LimsOf(d) = PredecessorOf(m) /\ m \in lims
    BY <1>0, <2>3, PathItemIs, PathIs
  <2>5. x = d
    <3>1. OrNode(RuleOf(d.ahm), d.ahm[2], 0, d.origin, d.at) = ProperOrOf(x)
      BY <2>2, <2>3 DEF ProperOrOf
    <3> QED BY <1>0, <2>4, <3>1, ProperOrOnce
  <2>6. LimsFor(x.origin, LhsOf(x.ahm)) # {}
    BY <1>0, <2>2, <2>4, <2>5, PredecessorIs DEF LimsOf
  <2>7. PICK j \in leoLinks : j.cause = x
    BY <1>0, <2>4, <2>5, <2>6 DEF LinksAreMade
  <2>8. j.effect = k.effect
    BY <1>0, <2>3, <2>5, <2>7, StepThenCause
  <2>9. x \in Sources(I)
    BY <2>1, <2>7, <2>8, SourcesAre DEF LeoSource
  <2> QED BY <2>9 DEF FromStart, IsPredicted
<1> QED BY <1>1, <1>2 DEF OrsOf

-----------------------------------------------------------------------------
(***************************************************************************)
(* An or-node divides as the reference says.                               *)
(***************************************************************************)
\* A token, or a completion, takes an item i of the chart to x.
TokenMoves(C, x, i, t) ==
    t \in ScannedTokens /\ i \in C /\ i.at = t.start /\ PostdotIs(i.ahm, t.sym)
      /\ x = Advance(i, t.end)
CompletionMoves(C, x, i, c) ==
    c \in C /\ IsCompletion(c.ahm) /\ i \in C /\ i.at = c.origin
      /\ PostdotIs(i.ahm, LhsOf(c.ahm)) /\ x = Advance(i, c.at)

\* What precedes the last symbol of an item.
LEMMA BeforeIs ==
    ASSUME NEW x \in Item, x.ahm[2] > 0, NEW i \in Item, NEW e \in Nat
    PROVE  /\ i.ahm = <<RuleOf(x.ahm), x.ahm[2] - 1>> /\ i.origin = x.origin /\ e = x.at
                <=> ~ IsCompletion(i.ahm) /\ x = Advance(i, e)
           /\ i.ahm = <<RuleOf(x.ahm), x.ahm[2] - 1>> =>
                \A s : PostdotIs(i.ahm, s) <=> Rhs(RuleOf(x.ahm))[x.ahm[2]] = s
<1>0. /\ x.ahm \in Ahm /\ x.ahm[2] \in Nat /\ x.ahm[2] <= Len(Rhs(RuleOf(x.ahm)))
      /\ x.ahm = <<RuleOf(x.ahm), x.ahm[2]>> /\ RuleOf(x.ahm) \in Rule
      /\ i.ahm \in Ahm /\ i.ahm[2] \in Nat /\ i.ahm = <<RuleOf(i.ahm), i.ahm[2]>>
      /\ Len(Rhs(RuleOf(x.ahm))) \in Nat
  BY ItemTypes, AhmTypes, RuleTypes
<1>1. ASSUME i.ahm = <<RuleOf(x.ahm), x.ahm[2] - 1>>
      PROVE  RuleOf(i.ahm) = RuleOf(x.ahm) /\ i.ahm[2] + 1 = x.ahm[2] /\ ~ IsCompletion(i.ahm)
  <2>1. RuleOf(i.ahm) = RuleOf(x.ahm) /\ i.ahm[2] = x.ahm[2] - 1
    BY <1>1 DEF RuleOf
  <2> QED BY <1>0, <2>1 DEF IsCompletion
<1>2. ASSUME i.ahm = <<RuleOf(x.ahm), x.ahm[2] - 1>>, i.origin = x.origin, e = x.at
      PROVE  ~ IsCompletion(i.ahm) /\ x = Advance(i, e)
  <2>1. NextAhm(i.ahm) = x.ahm
    BY <1>0, <1>1, <1>2 DEF NextAhm
  <2> QED BY <1>1, <1>2, <2>1 DEF Advance, Item
<1>3. ASSUME ~ IsCompletion(i.ahm), x = Advance(i, e)
      PROVE  i.ahm = <<RuleOf(x.ahm), x.ahm[2] - 1>> /\ i.origin = x.origin /\ e = x.at
  <2>1. x.ahm = NextAhm(i.ahm) /\ x.origin = i.origin /\ x.at = e
    BY <1>3, AdvanceType
  <2>2. RuleOf(x.ahm) = RuleOf(i.ahm) /\ x.ahm[2] = i.ahm[2] + 1
    BY <1>0, <1>3, <2>1, NextAhmType
  <2>3. i.ahm[2] = x.ahm[2] - 1
    BY <1>0, <2>2
  <2> QED BY <1>0, <2>1, <2>2, <2>3
<1>4. ASSUME i.ahm = <<RuleOf(x.ahm), x.ahm[2] - 1>>, NEW s
      PROVE  PostdotIs(i.ahm, s) <=> Rhs(RuleOf(x.ahm))[x.ahm[2]] = s
  BY <1>1, <1>4 DEF PostdotIs
<1> QED BY <1>2, <1>3, <1>4

\* How the or-node of x divides, by what takes an item to x.
LEMMA DivisionsAre ==
    ASSUME NEW C \in SUBSET Item, NEW x \in Item, x.ahm[2] > 0, NEW o, o = ProperOrOf(x),
           \A t \in ScannedTokens : t.end \in Nat, NEW a
    PROVE  a \in Divisions(C, o.rule, o.dot, o.origin, o.at) <=>
              \/ \E t \in ScannedTokens : \E i \in C :
                    TokenMoves(C, x, i, t) /\ a = And(o, OrOf(i), TokenOr(t))
              \/ \E c \in C : \E i \in C :
                    CompletionMoves(C, x, i, c) /\ a = And(o, OrOf(i), OrOf(c))
<1> PICK r, d, f, e : r = RuleOf(x.ahm) /\ d = x.ahm[2] /\ f = x.origin /\ e = x.at
  OBVIOUS
<1>1. /\ o.rule = r /\ o.dot = d /\ o.origin = f /\ o.at = e
      /\ o = OrNode(r, d, 0, f, e)
  BY ProperOrNames
<1> DEFINE Before(m) == {i \in C : i.ahm = <<r, d - 1>> /\ i.origin = f /\ i.at = m}
           Tokens == {u \in ScannedTokens : u.sym = Rhs(r)[d] /\ u.end = e}
           Completions == {c \in C : IsCompletion(c.ahm) /\ LhsOf(c.ahm) = Rhs(r)[d] /\ c.at = e}
           ByToken(t) == {And(o, OrOf(i), TokenOr(t)) : i \in Before(t.start)}
           ByCompletion(c) == {And(o, OrOf(i), OrOf(c)) : i \in Before(c.origin)}
<1>2. Divisions(C, o.rule, o.dot, o.origin, o.at) =
          UNION {UNION {ByToken(t) : t \in Tokens},
                 UNION {ByCompletion(c) : c \in Completions}}
  BY <1>1 DEF Divisions
<1>3. ASSUME NEW t \in ScannedTokens, NEW i \in C
      PROVE  t \in Tokens /\ i \in Before(t.start) <=> TokenMoves(C, x, i, t)
  <2>1. t.end \in Nat /\ i \in Item
    OBVIOUS
  <2>2. (i.ahm = <<r, d - 1>> /\ i.origin = f /\ t.end = e)
            <=> (~ IsCompletion(i.ahm) /\ x = Advance(i, t.end))
    BY <2>1, BeforeIs
  <2>3. i.ahm = <<r, d - 1>> => (PostdotIs(i.ahm, t.sym) <=> Rhs(r)[d] = t.sym)
    BY <2>1, BeforeIs
  <2>4. PostdotIs(i.ahm, t.sym) => ~ IsCompletion(i.ahm)
    BY DEF PostdotIs
  <2> QED BY <2>2, <2>3, <2>4 DEF TokenMoves
<1>4. ASSUME NEW c \in C, NEW i \in C
      PROVE  c \in Completions /\ i \in Before(c.origin) <=> CompletionMoves(C, x, i, c)
  <2>1. c.at \in Nat /\ i \in Item
    BY ItemTypes
  <2>2. (i.ahm = <<r, d - 1>> /\ i.origin = f /\ c.at = e)
            <=> (~ IsCompletion(i.ahm) /\ x = Advance(i, c.at))
    BY <2>1, BeforeIs
  <2>3. i.ahm = <<r, d - 1>> => \A s : PostdotIs(i.ahm, s) <=> Rhs(r)[d] = s
    BY <2>1, BeforeIs
  <2>4. PostdotIs(i.ahm, LhsOf(c.ahm)) => ~ IsCompletion(i.ahm)
    BY DEF PostdotIs
  <2> QED BY <2>2, <2>3, <2>4 DEF CompletionMoves
<1>5. a \in Divisions(C, o.rule, o.dot, o.origin, o.at) <=>
         \/ \E t \in Tokens : a \in ByToken(t)
         \/ \E c \in Completions : a \in ByCompletion(c)
  <2> HIDE DEF Tokens, Completions, ByToken, ByCompletion
  <2> QED BY <1>2
<1>6. (\E t \in Tokens : a \in ByToken(t)) <=>
         \E t \in ScannedTokens : \E i \in C :
            TokenMoves(C, x, i, t) /\ a = And(o, OrOf(i), TokenOr(t))
  <2>1. (\E t \in Tokens : a \in ByToken(t)) <=>
           \E t \in ScannedTokens : \E i \in C :
              (t \in Tokens /\ i \in Before(t.start)) /\ a = And(o, OrOf(i), TokenOr(t))
    OBVIOUS
  <2> HIDE DEF Tokens, Before
  <2> QED BY <1>3, <2>1
<1>7. (\E c \in Completions : a \in ByCompletion(c)) <=>
         \E c \in C : \E i \in C :
            CompletionMoves(C, x, i, c) /\ a = And(o, OrOf(i), OrOf(c))
  <2>1. (\E c \in Completions : a \in ByCompletion(c)) <=>
           \E c \in C : \E i \in C :
              (c \in Completions /\ i \in Before(c.origin)) /\ a = And(o, OrOf(i), OrOf(c))
    OBVIOUS
  <2> HIDE DEF Completions, Before
  <2> QED BY <1>4, <2>1
<1> HIDE DEF Tokens, Completions, ByToken, ByCompletion
<1> QED BY <1>5, <1>6, <1>7

\* The reference chart of a bocage.
ChartTo(e) == {i \in items \cup PathItems : i.at <= e}

\* What is in it.
LEMMA ChartToIs ==
    ASSUME ChartInv, NEW e
    PROVE  /\ ChartTo(e) \in SUBSET Item
           /\ \A i \in ChartTo(e) : ~ IsCompletion(i.ahm) => i \in items
           /\ \A t \in ScannedTokens : t.start \in Nat /\ t.end \in Nat
<1>1. PathItems \subseteq Item /\ \A i \in PathItems : IsCompletion(i.ahm)
  BY PathItemIs DEF PathItems
<1>2. items \subseteq Item /\ \A t \in ScannedTokens : t \in Token
  BY DEF ChartInv, SpanInv, InputInv, TypeInv, TypeOK, ScannedTokens
<1> QED BY <1>1, <1>2 DEF ChartTo, Token

\* The parent of a step of a Leo path is the completion that the step stands for.
LEMMA StepParentNames ==
    ASSUME ChartInv, NEW k \in leoLinks, NEW l \in Above[k.lim]
    PROVE  StepParent(k, l) = ProperOrOf(PathItem(l, k.effect.at))
<1>1. CASE PredecessorLim(l) = {}
  <2>1. PathItem(l, k.effect.at) = k.effect
    BY <1>1, PathItemIs
  <2> QED BY <1>1, <2>1 DEF StepParent
<1> QED BY <1>1 DEF StepParent

\* The cause of a step is what its Leo item is looked up for.
LEMMA StepCauseNames ==
    ASSUME DerivationInv, NoNullsAfterRecursion, NEW start, NEW I, FromStart(I, start),
           NEW k \in leoLinks, k.effect \in I, NEW l \in Above[k.lim],
           NEW cause \in StepCauses(k, l, OrsOf(I))
    PROVE  \E c \in ChartTo(start.at) :
              /\ cause = OrOf(c) /\ IsCompletion(c.ahm) /\ l \in LimsOf(c) /\ c.at = k.effect.at
<1>0. ChartInv /\ PredictionsSpan
  BY DEF DerivationInv
<1>1. k.effect.at <= start.at
  BY DEF FromStart
<1>2. CASE l = k.lim
  <2>1. cause = OrOf(k.cause)
    BY <1>2 DEF StepCauses
  <2>2. /\ k.cause \in items /\ IsCompletion(k.cause.ahm) /\ k.cause.at = k.effect.at
        /\ k.lim \in LimsOf(k.cause)
    BY <1>0, LeoLinkIs DEF ChartInv, LinkInv, LinksAreLeo, LimsOf
  <2> QED BY <1>1, <1>2, <2>1, <2>2 DEF ChartTo
<1>3. CASE l # k.lim
  <2>1. PICK m \in Above[k.lim] :
            l \in PredecessorLim(m) /\ cause = FoundOr(OrOf(PathItem(m, k.effect.at)), OrsOf(I))
    BY <1>3 DEF StepCauses
  <2>2. PICK c : c = PathItem(m, k.effect.at)
    OBVIOUS
  <2>3. cause # NoOr
    BY <1>0, StepsFindCauses DEF FromStart
  <2>4. cause = OrOf(c)
    BY <2>1, <2>2, <2>3 DEF FoundOr
  <2>5. m \in lims /\ l \in PredecessorOf(m)
    BY <1>0, <2>1, PathIs, PredecessorIs
  <2>6. c \in PathItems /\ IsCompletion(c.ahm) /\ c.at = k.effect.at /\ LimsOf(c) = PredecessorOf(m)
    BY <1>0, <2>2, PathItemIs
  <2> QED BY <1>1, <2>4, <2>5, <2>6 DEF ChartTo
<1> QED BY <1>2, <1>3

\* A token's and-node is one of the reference.
LEMMA TokenAndsDivide ==
    ASSUME DerivationInv, NEW start, NEW I, FromStart(I, start), NEW a \in TokenAnds(I)
    PROVE  \E x \in Item : /\ x.ahm[2] > 0 /\ a.parent = ProperOrOf(x)
                           /\ a \in Divisions(ChartTo(start.at), a.parent.rule, a.parent.dot,
                                              a.parent.origin, a.parent.at)
<1> PICK C : C = ChartTo(start.at)
  OBVIOUS
<1>0. ChartInv /\ LinksDivide /\ C \in SUBSET Item /\ \A t \in ScannedTokens : t.end \in Nat
  BY ChartToIs DEF DerivationInv
<1>1. PICK k \in tokenLinks : k.effect \in I
                              /\ a = And(ProperOrOf(k.effect), OrOf(k.pred), TokenOr(k.token))
  BY DEF TokenAnds
<1> PICK x, i, t : x = k.effect /\ i = k.pred /\ t = k.token
  OBVIOUS
<1>2. /\ x \in items /\ x.ahm[2] > 0 /\ x.at <= start.at
      /\ i \in items /\ i.at < x.at /\ x = Advance(i, x.at)
      /\ i \in Pims(t.start, t.sym) /\ x.at = t.end /\ t \in ScannedTokens
  BY <1>0, <1>1, EffectIs DEF ChartInv, LinkageInv, SourcesAreThere, LinksDivide, ScannedTokens,
                              FromStart
<1>3. x \in Item /\ i.at <= start.at
  <2>1. i.at \in Nat /\ x.at \in Nat /\ start.at \in Nat
    BY <1>0, <1>2, ItemIs DEF FromStart
  <2> QED BY <1>0, <1>2, <2>1 DEF ChartInv, SpanInv, InputInv, TypeInv, TypeOK
<1>4. TokenMoves(C, x, i, t)
  BY <1>2, <1>3 DEF TokenMoves, Pims, ChartTo
<1>5. a.parent = ProperOrOf(x) /\ a = And(ProperOrOf(x), OrOf(i), TokenOr(t))
  BY <1>1, AndIs
<1>6. i \in C
  BY <1>4 DEF TokenMoves
<1>7. PICK o : o = ProperOrOf(x)
  OBVIOUS
<1>8. a \in Divisions(C, o.rule, o.dot, o.origin, o.at)
  BY <1>0, <1>2, <1>3, <1>4, <1>5, <1>6, <1>7, DivisionsAre
<1> QED BY <1>2, <1>3, <1>5, <1>7, <1>8

\* So is a completion's.
LEMMA CompletionAndsDivide ==
    ASSUME DerivationInv, NEW start, NEW I, FromStart(I, start), NEW a \in CompletionAnds(I)
    PROVE  \E x \in Item : /\ x.ahm[2] > 0 /\ a.parent = ProperOrOf(x)
                           /\ a \in Divisions(ChartTo(start.at), a.parent.rule, a.parent.dot,
                                              a.parent.origin, a.parent.at)
<1> PICK C : C = ChartTo(start.at)
  OBVIOUS
<1>0. ChartInv /\ LinksDivide /\ C \in SUBSET Item /\ \A t \in ScannedTokens : t.end \in Nat
  BY ChartToIs DEF DerivationInv
<1>1. PICK k \in completionLinks : k.effect \in I
                              /\ a = And(ProperOrOf(k.effect), OrOf(k.pred), OrOf(k.cause))
  BY DEF CompletionAnds
<1> PICK x, i, c : x = k.effect /\ i = k.pred /\ c = k.cause
  OBVIOUS
<1>2. /\ x \in items /\ x.ahm[2] > 0 /\ x.at <= start.at
      /\ i \in items /\ c \in items /\ IsCompletion(c.ahm) /\ x = Advance(i, c.at)
      /\ i \in Waiting(c)
  BY <1>0, <1>1, EffectIs DEF ChartInv, LinkageInv, SourcesAreThere, LinksDivide, FromStart
<1>3. x \in Item /\ c.at = x.at /\ i.at = c.origin /\ i.at <= start.at
  <2>1. c.at = x.at
    BY <1>2 DEF Advance
  <2>2. i.at = c.origin
    BY <1>2 DEF Waiting, Pims
  <2>3. c.origin <= c.at /\ c.origin \in Nat /\ c.at \in Nat /\ start.at \in Nat
    BY <1>0, <1>2, ItemIs DEF FromStart
  <2> QED BY <1>0, <1>2, <2>1, <2>2, <2>3 DEF ChartInv, SpanInv, InputInv, TypeInv, TypeOK
<1>4. CompletionMoves(C, x, i, c)
  BY <1>2, <1>3 DEF CompletionMoves, Waiting, Pims, ChartTo
<1>5. a.parent = ProperOrOf(x) /\ a = And(ProperOrOf(x), OrOf(i), OrOf(c))
  BY <1>1, AndIs
<1>6. i \in C /\ c \in C
  BY <1>4 DEF CompletionMoves
<1>7. PICK o : o = ProperOrOf(x)
  OBVIOUS
<1>8. a \in Divisions(C, o.rule, o.dot, o.origin, o.at)
  BY <1>0, <1>2, <1>3, <1>4, <1>5, <1>6, <1>7, DivisionsAre
<1> QED BY <1>2, <1>3, <1>5, <1>7, <1>8

\* So is that of each step of a Leo path.
LEMMA LeoAndsDivide ==
    ASSUME DerivationInv, NoNullsAfterRecursion, NEW start, NEW I, FromStart(I, start),
           NEW a \in LeoAnds(I, OrsOf(I))
    PROVE  \E x \in Item : /\ x.ahm[2] > 0 /\ a.parent = ProperOrOf(x)
                           /\ a \in Divisions(ChartTo(start.at), a.parent.rule, a.parent.dot,
                                              a.parent.origin, a.parent.at)
<1> PICK C : C = ChartTo(start.at)
  OBVIOUS
<1>0. ChartInv /\ C \in SUBSET Item /\ \A t \in ScannedTokens : t.end \in Nat
  BY ChartToIs DEF DerivationInv
<1>1. PICK k \in leoLinks :
          k.effect \in I /\ \E l \in Above[k.lim] : a \in StepAnds(k, l, OrsOf(I))
  BY DEF LeoAnds
<1>2. PICK l \in Above[k.lim] : a \in StepAnds(k, l, OrsOf(I))
  BY <1>1
<1>3. PICK cause \in StepCauses(k, l, OrsOf(I)) : a = And(StepParent(k, l), OrOf(l.base), cause)
  BY <1>2 DEF StepAnds, Distinct
<1>4. PICK c \in C :
          cause = OrOf(c) /\ IsCompletion(c.ahm) /\ l \in LimsOf(c) /\ c.at = k.effect.at
  BY <1>1, StepCauseNames
<1> PICK x, i : x = PathItem(l, k.effect.at) /\ i = l.base
  OBVIOUS
<1>5. x \in Item /\ x = Advance(i, c.at) /\ IsCompletion(x.ahm)
  BY <1>0, <1>4, PathItemIs
<1>6. x.ahm[2] > 0
  BY <1>5, ItemTypes, AhmTypes, RuleTypes DEF IsCompletion
<1>7. l \in lims /\ l.at = c.origin /\ l.sym = LhsOf(c.ahm)
  BY <1>4 DEF LimsOf, LimsFor
<1>8. i \in items /\ i.at = c.origin /\ PostdotIs(i.ahm, LhsOf(c.ahm))
  BY <1>0, <1>7 DEF ChartInv, SpanInv, LimsSpan
<1>9. i.at <= start.at
  <2>1. /\ l.at <= k.cause.origin /\ k.cause.origin < k.effect.at /\ l.at \in Nat
        /\ k.effect.at \in Nat
    BY <1>0, PathIs
  <2>2. k.cause.origin \in Nat /\ start.at \in Nat /\ k.effect.at <= start.at
    BY <1>0, <1>1, LeoLinkIs, ItemIs DEF FromStart
  <2> QED BY <1>7, <1>8, <2>1, <2>2
<1>10. CompletionMoves(C, x, i, c) /\ i \in C
  BY <1>4, <1>5, <1>8, <1>9 DEF CompletionMoves, ChartTo
<1>11. PICK o : o = ProperOrOf(x)
  OBVIOUS
<1>12. a = And(o, OrOf(i), OrOf(c)) /\ a.parent = o
  BY <1>0, <1>3, <1>4, <1>11, StepParentNames, AndIs
<1>13. a \in Divisions(C, o.rule, o.dot, o.origin, o.at)
  BY <1>0, <1>4, <1>5, <1>6, <1>10, <1>11, <1>12, DivisionsAre
<1> QED BY <1>5, <1>6, <1>11, <1>12, <1>13

\* A Leo link with a step that takes what waits for c to an or-node of the bocage gives
\* that division.
LEMMA StepDivides ==
    ASSUME DerivationInv, NEW start, NEW I, FromStart(I, start),
           NEW k \in leoLinks, NEW l \in Above[k.lim], NEW c, c.at = k.effect.at,
           OrOf(c) \in StepCauses(k, l, OrsOf(I)),
           NEW x, x = Advance(l.base, c.at), NEW o, o = ProperOrOf(x), o \in OrsOf(I)
    PROVE  And(o, OrOf(l.base), OrOf(c)) \in LeoAnds(I, OrsOf(I))
<1>0. ChartInv
  BY DEF DerivationInv
<1>1. x = PathItem(l, k.effect.at)
  BY <1>0, PathItemIs
<1>2. k.effect \in I
  BY <1>1, StepsAreHeld
<1>3. StepParent(k, l) = o
  BY <1>0, <1>1, StepParentNames
<1>4. And(o, OrOf(l.base), OrOf(c)) \in StepAnds(k, l, OrsOf(I))
  BY <1>3 DEF StepAnds, Distinct
<1> QED BY <1>2, <1>4 DEF LeoAnds

\* Whatever takes an item to an or-node of the bocage divides it.
LEMMA DivisionsAreThere ==
    ASSUME DerivationInv, NoNullsAfterRecursion, pc = "idle", NEW start, NEW I, FromStart(I, start),
           NEW x \in Item, x.ahm[2] > 0, NEW o, o = ProperOrOf(x), o \in OrsOf(I),
           NEW a \in Divisions(ChartTo(start.at), o.rule, o.dot, o.origin, o.at)
    PROVE  a \in TokenAnds(I) \cup CompletionAnds(I) \cup LeoAnds(I, OrsOf(I))
<1> PICK C : C = ChartTo(start.at)
  OBVIOUS
<1>0. /\ ChartInv /\ PredictionsSpan /\ SourcesAreThere /\ LinksDivide /\ TokensLinked
      /\ CompletionsLinked /\ LinksAreMade /\ LimsAlone /\ stack = {}
      /\ C \in SUBSET Item /\ \A t \in ScannedTokens : t.end \in Nat
      /\ C \subseteq items \cup PathItems
      /\ \A i \in C : ~ IsCompletion(i.ahm) => i \in items
  BY ChartToIs DEF DerivationInv, ChartInv, LinkInv, LinkageInv, LeoInv, SpanInv, InputInv, TypeInv,
                   CallState, ChartTo
<1>1. \/ \E t \in ScannedTokens : \E i \in C :
            TokenMoves(C, x, i, t) /\ a = And(o, OrOf(i), TokenOr(t))
      \/ \E c \in C : \E i \in C :
            CompletionMoves(C, x, i, c) /\ a = And(o, OrOf(i), OrOf(c))
  BY <1>0, DivisionsAre
<1>2. ASSUME NEW t \in ScannedTokens, NEW i \in C, TokenMoves(C, x, i, t),
             a = And(o, OrOf(i), TokenOr(t))
      PROVE  a \in TokenAnds(I)
  <2>1. i \in Pims(t.start, t.sym)
    BY <1>0, <1>2 DEF TokenMoves, PostdotIs, Pims
  <2>2. PICK k \in tokenLinks : k.pred = i /\ k.token = t
    BY <1>0, <2>1 DEF TokensLinked
  <2>3. k.effect \in items /\ k.effect = Advance(i, k.effect.at) /\ k.effect.at = t.end
    BY <1>0, <2>2 DEF SourcesAreThere, LinksDivide
  <2>4. k.effect = x
    BY <1>2, <2>3 DEF TokenMoves
  <2>5. x \in I
    BY <2>3, <2>4, OrsAreHeld
  <2> QED BY <1>2, <2>2, <2>4, <2>5 DEF TokenAnds
<1>3. ASSUME NEW c \in C, NEW i \in C, CompletionMoves(C, x, i, c),
             a = And(o, OrOf(i), OrOf(c))
      PROVE  a \in CompletionAnds(I) \cup LeoAnds(I, OrsOf(I))
  <2>1. IsCompletion(c.ahm) /\ i \in Waiting(c) /\ x = Advance(i, c.at)
    BY <1>0, <1>3 DEF CompletionMoves, PostdotIs, Pims, Waiting
  <2>2. \A l \in LimsOf(c) : l.base = i
    BY <1>0, <2>1 DEF LimsOf, LimsFor, LimsAlone, Waiting
  <2>3. CASE c \in items /\ LimsOf(c) = {}
    <3>1. PICK k \in completionLinks : k.pred = i /\ k.cause = c
      BY <1>0, <2>1, <2>3 DEF CompletionsLinked, Linking
    <3>2. k.effect \in items /\ k.effect = x
      BY <1>0, <2>1, <3>1 DEF SourcesAreThere
    <3>3. x \in I
      BY <3>2, OrsAreHeld
    <3> QED BY <1>3, <3>1, <3>2, <3>3 DEF CompletionAnds
  <2>4. CASE c \in items /\ LimsOf(c) # {}
    <3>1. PICK k \in leoLinks : k.cause = c
      BY <1>0, <2>1, <2>4 DEF LinksAreMade, LimsOf
    <3> PICK l : l = k.lim
      OBVIOUS
    <3>2. l \in LimsOf(c) /\ c.at = k.effect.at /\ l \in Above[k.lim]
      BY <1>0, <3>1, LeoLinkIs, AboveIs DEF ChartInv, LinkInv, LinksAreLeo, LimsOf
    <3>3. OrOf(c) \in StepCauses(k, l, OrsOf(I))
      BY <3>1 DEF StepCauses
    <3>4. l.base = i
      BY <2>2, <3>2
    <3> QED BY <1>3, <2>1, <3>2, <3>3, <3>4, StepDivides
  <2>5. CASE c \notin items
    <3>1. PICK k \in leoLinks : \E m \in Above[k.lim] : c = PathItem(m, k.effect.at)
      BY <1>0, <2>5 DEF PathItems
    <3>2. PICK m \in Above[k.lim] : c = PathItem(m, k.effect.at)
      BY <3>1
    <3>3. /\ LimsOf(c) = PredecessorOf(m) /\ c.at = k.effect.at /\ IsLeoCompletion(c.ahm)
          /\ PredecessorLim(m) = {} => c = k.effect
          /\ c.ahm \in Ahm /\ k.effect \in items /\ k.lim \in lims /\ m \in lims
      BY <1>0, <3>2, PathItemIs, LeoLinkIs, PathIs, ItemTypes
    <3>4. PICK l : l \in PredecessorLim(m)
      <4>1. PredecessorLim(m) # {}
        BY <2>5, <3>3
      <4> QED BY <4>1
    <3>5. l \in Above[k.lim] /\ l \in PredecessorOf(m)
      BY <1>0, <3>3, <3>4, AboveIs, PredecessorIs
    <3>6. l # k.lim
      BY <1>0, <3>3, <3>4, ChainsDoNotReturn
    <3>7. l.base = i
      BY <2>2, <3>3, <3>5
    <3>8. OrOf(c) = ProperOrOf(c)
      <4>1. NullCount[c.ahm] = 0
        BY <3>3 DEF NoNullsAfterRecursion
      <4> QED BY <4>1 DEF OrOf, ProperOrOf
    <3>9. k.effect \in I
      <4>1. x = PathItem(l, k.effect.at)
        BY <1>0, <2>1, <3>3, <3>5, <3>7, PathItemIs
      <4> QED BY <3>5, <4>1, StepsAreHeld
    <3>10. OrOf(c) \in OrsOf(I)
      BY <3>2, <3>4, <3>8, <3>9 DEF OrsOf, PathOrs
    <3>11. FoundOr(OrOf(PathItem(m, k.effect.at)), OrsOf(I)) = OrOf(c)
      BY <3>2, <3>10 DEF FoundOr
    <3>12. OrOf(c) \in StepCauses(k, l, OrsOf(I))
      BY <3>4, <3>6, <3>11 DEF StepCauses
    <3> QED BY <1>3, <2>1, <3>3, <3>5, <3>7, <3>12, StepDivides
  <2> QED BY <2>3, <2>4, <2>5
<1> QED BY <1>1, <1>2, <1>3

\* An and-node of a nulling symbol is the one way to divide its parent.
LEMMA NullingAndIs ==
    ASSUME ChartInv, NEW I \in SUBSET items, NEW a \in NullingAnds(I), NEW o, o = a.parent
    PROVE  /\ o.nulls \in Nat /\ o.nulls > 0
           /\ a = And(o, OrNode(o.rule, o.dot, o.nulls - 1, o.origin, o.at), NullingOr)
<1>1. PICK i \in I : \E n \in 1 .. NullCount[i.ahm] :
          a = And(OrNode(RuleOf(i.ahm), i.ahm[2], n, i.origin, i.at),
                  OrNode(RuleOf(i.ahm), i.ahm[2], n - 1, i.origin, i.at), NullingOr)
  BY DEF NullingAnds
<1>2. PICK n \in 1 .. NullCount[i.ahm] :
          a = And(OrNode(RuleOf(i.ahm), i.ahm[2], n, i.origin, i.at),
                  OrNode(RuleOf(i.ahm), i.ahm[2], n - 1, i.origin, i.at), NullingOr)
  BY <1>1
<1>3. n \in Nat /\ n > 0 /\ n # 0
  BY ItemIs
<1>4. o = OrNode(RuleOf(i.ahm), i.ahm[2], n, i.origin, i.at)
  BY <1>2, AndIs
<1>5. o = [type |-> "or", rule |-> RuleOf(i.ahm), dot |-> i.ahm[2], nulls |-> n,
           origin |-> i.origin, at |-> i.at]
  BY <1>3, <1>4 DEF OrNode
<1>6. /\ o.nulls = n /\ o.rule = RuleOf(i.ahm) /\ o.dot = i.ahm[2]
      /\ o.origin = i.origin /\ o.at = i.at
  BY <1>5
<1> QED BY <1>2, <1>3, <1>4, <1>6

\* An or-node without nulling symbols is that of an item whose dot has moved.
LEMMA MovedOrNames ==
    ASSUME ChartInv, NEW I \in SUBSET items, NEW o \in OrsOf(I), ~ (o.nulls > 0)
    PROVE  \E x \in Item : x.ahm[2] > 0 /\ o = ProperOrOf(x)
<1>1. CASE o \in ItemOrs(I)
  <2>1. PICK i \in I : \E n \in 0 .. NullCount[i.ahm] :
            o = OrNode(RuleOf(i.ahm), i.ahm[2], n, i.origin, i.at)
    BY <1>1 DEF ItemOrs
  <2>2. PICK n \in 0 .. NullCount[i.ahm] : o = OrNode(RuleOf(i.ahm), i.ahm[2], n, i.origin, i.at)
    BY <2>1
  <2>3. /\ o # NoOr /\ n \in Nat /\ i \in Item /\ i.ahm[2] \in Nat
    BY <1>1, ItemIs DEF ItemOrs, ChartInv, SpanInv, InputInv, TypeInv, TypeOK
  <2>4. n = 0
    <3>1. o = [type |-> "or", rule |-> RuleOf(i.ahm), dot |-> i.ahm[2], nulls |-> n,
               origin |-> i.origin, at |-> i.at]
      BY <2>2, <2>3 DEF OrNode
    <3>2. o.nulls = n
      BY <3>1
    <3> QED BY <2>3, <3>2
  <2>5. i.ahm[2] > 0 /\ o = ProperOrOf(i)
    BY <2>2, <2>3, <2>4 DEF OrNode, ProperOrOf
  <2> QED BY <2>3, <2>5
<1>2. CASE o \in PathOrs(I)
  <2>1. PICK k \in leoLinks : \E l \in Above[k.lim] : o = ProperOrOf(PathItem(l, k.effect.at))
    BY <1>2 DEF PathOrs
  <2>2. PICK l \in Above[k.lim] : o = ProperOrOf(PathItem(l, k.effect.at))
    BY <2>1
  <2>3. PICK x : x = PathItem(l, k.effect.at)
    OBVIOUS
  <2>4. x \in Item /\ IsCompletion(x.ahm)
    BY <2>3, PathItemIs
  <2>5. x.ahm[2] > 0
    BY <2>4, ItemTypes, AhmTypes, RuleTypes DEF IsCompletion
  <2> QED BY <2>2, <2>3, <2>4, <2>5
<1> QED BY <1>1, <1>2 DEF OrsOf

\* The bocage that marpa_b_new makes from an item.
Made(b, I, start) ==
    /\ FromStart(I, start) /\ BocageIsSound(b)
    /\ b.top = OrOf(start) /\ b.ors = OrsOf(I)
    /\ b.ands = NullingAnds(I) \cup TokenAnds(I) \cup CompletionAnds(I) \cup LeoAnds(I, OrsOf(I))

\* An or-node has an and-node for each of its divisions, and no other.
LEMMA AndsAreDivisions ==
    ASSUME DerivationInv, NoNullsAfterRecursion, pc = "idle", NEW start, NEW I, NEW b,
           Made(b, I, start), NEW o \in b.ors
    PROVE  AndsOf(b, o) = ReferenceAnds(ChartTo(start.at), o)
<1> PICK C : C = ChartTo(start.at)
  OBVIOUS
<1>0. /\ ChartInv /\ I \in SUBSET items /\ BocageIsSound(b) /\ o \in OrsOf(I)
      /\ b.ands = NullingAnds(I) \cup TokenAnds(I) \cup CompletionAnds(I) \cup LeoAnds(I, OrsOf(I))
      /\ FromStart(I, start)
  BY DEF DerivationInv, Made, FromStart
<1>1. ASSUME NEW a \in TokenAnds(I) \cup CompletionAnds(I) \cup LeoAnds(I, OrsOf(I)), a.parent = o
      PROVE  o.nulls = 0 /\ a \in Divisions(C, o.rule, o.dot, o.origin, o.at)
  <2>1. PICK x \in Item : /\ x.ahm[2] > 0 /\ o = ProperOrOf(x)
                          /\ a \in Divisions(C, o.rule, o.dot, o.origin, o.at)
    BY <1>0, <1>1, TokenAndsDivide, CompletionAndsDivide, LeoAndsDivide
  <2>2. o.nulls = 0
    BY <2>1, ProperOrNames
  <2> QED BY <2>1, <2>2
<1>2. CASE o.nulls > 0
  <2> PICK n : n = And(o, OrNode(o.rule, o.dot, o.nulls - 1, o.origin, o.at), NullingOr)
    OBVIOUS
  <2>1. \A a \in AndsOf(b, o) : a = n
    <3> TAKE a \in AndsOf(b, o)
    <3>1. a.parent = o /\ a \in b.ands
      BY DEF AndsOf
    <3>2. a \in NullingAnds(I)
      BY <1>0, <1>1, <1>2, <3>1
    <3> QED BY <1>0, <3>1, <3>2, NullingAndIs
  <2>2. AndsOf(b, o) # {}
    BY <1>0 DEF BocageIsSound
  <2>3. ReferenceAnds(C, o) = {n}
    BY <1>2 DEF ReferenceAnds
  <2> QED BY <2>1, <2>2, <2>3
<1>3. CASE ~ (o.nulls > 0)
  <2>1. ReferenceAnds(C, o) = Divisions(C, o.rule, o.dot, o.origin, o.at)
    BY <1>3 DEF ReferenceAnds
  <2>2. ASSUME NEW a \in AndsOf(b, o) PROVE a \in Divisions(C, o.rule, o.dot, o.origin, o.at)
    <3>1. a.parent = o /\ a \in b.ands
      BY DEF AndsOf
    <3>2. a \notin NullingAnds(I)
      BY <1>0, <1>3, <3>1, NullingAndIs
    <3> QED BY <1>0, <1>1, <3>1, <3>2
  <2>3. PICK x \in Item : x.ahm[2] > 0 /\ o = ProperOrOf(x)
    BY <1>0, <1>3, MovedOrNames
  <2>4. ASSUME NEW a \in Divisions(C, o.rule, o.dot, o.origin, o.at) PROVE a \in AndsOf(b, o)
    <3>1. a \in b.ands
      BY <1>0, <2>3, DivisionsAreThere
    <3>2. a.parent = o
      <4>1. C \in SUBSET Item /\ \A t \in ScannedTokens : t.end \in Nat
        BY <1>0, ChartToIs
      <4>2. \/ \E t \in ScannedTokens : \E i \in C :
                  TokenMoves(C, x, i, t) /\ a = And(o, OrOf(i), TokenOr(t))
            \/ \E c \in C : \E i \in C :
                  CompletionMoves(C, x, i, c) /\ a = And(o, OrOf(i), OrOf(c))
        BY <2>3, <4>1, DivisionsAre, SMTT(30)
      <4> QED BY <4>2, AndIs
    <3> QED BY <3>1, <3>2 DEF AndsOf
  <2> QED BY <2>1, <2>2, <2>4
<1> QED BY <1>2, <1>3

\* The parts of an and-node are led to.
LEMMA PartsAreLedTo ==
    ASSUME NEW b, BocageIsSound(b), NEW a \in b.ands, NEW c \in {a.pred, a.cause}
    PROVE  \E p \in b.ors : c \in Children(b, p)
<1>1. a.parent \in b.ors /\ a \in AndsOf(b, a.parent)
  BY DEF BocageIsSound, AndsOf
<1>2. c \in Children(b, a.parent)
  BY <1>1 DEF Children
<1> QED BY <1>1, <1>2

\* The or-node of a source of an item of the bocage is led to by its link.
LEMMA SourcesAreLedTo ==
    ASSUME DerivationInv, NEW start, NEW I, NEW b, Made(b, I, start), NEW i \in Sources(I)
    PROVE  \E p \in b.ors : OrOf(i) \in Children(b, p)
<1> PICK o : o = OrOf(i)
  OBVIOUS
<1>0. /\ ChartInv /\ BocageIsSound(b)
      /\ b.ands = NullingAnds(I) \cup TokenAnds(I) \cup CompletionAnds(I) \cup LeoAnds(I, OrsOf(I))
  BY DEF DerivationInv, Made
<1> SUFFICES \E a \in b.ands : o = a.pred \/ o = a.cause
  BY <1>0, PartsAreLedTo
<1>1. ASSUME NEW k \in tokenLinks, k.effect \in I, LinkSource(i, k)
      PROVE  \E a \in b.ands : o = a.pred \/ o = a.cause
  <2> PICK a : a = And(ProperOrOf(k.effect), OrOf(k.pred), TokenOr(k.token))
    OBVIOUS
  <2>1. a \in b.ands
    BY <1>0, <1>1 DEF TokenAnds
  <2>2. a.pred = o
    BY <1>1, AndIs DEF LinkSource
  <2> QED BY <2>1, <2>2
<1>2. ASSUME NEW k \in completionLinks, k.effect \in I, PairSource(i, k)
      PROVE  \E a \in b.ands : o = a.pred \/ o = a.cause
  <2> PICK a : a = And(ProperOrOf(k.effect), OrOf(k.pred), OrOf(k.cause))
    OBVIOUS
  <2>1. a \in b.ands
    BY <1>0, <1>2 DEF CompletionAnds
  <2>2. a.pred = OrOf(k.pred) /\ a.cause = OrOf(k.cause)
    BY AndIs
  <2> QED BY <1>2, <2>1, <2>2 DEF PairSource
<1>3. ASSUME NEW k \in leoLinks, k.effect \in I, NEW l \in Above[k.lim], NEW c,
             c \in StepCauses(k, l, OrsOf(I)), o = OrOf(l.base) \/ o = c
      PROVE  \E a \in b.ands : o = a.pred \/ o = a.cause
  <2> PICK a : a = And(StepParent(k, l), OrOf(l.base), c)
    OBVIOUS
  <2>1. a \in StepAnds(k, l, OrsOf(I))
    BY <1>3 DEF StepAnds, Distinct
  <2>2. a \in b.ands
    BY <1>0, <1>3, <2>1 DEF LeoAnds
  <2>3. a.pred = OrOf(l.base) /\ a.cause = c
    BY AndIs
  <2> QED BY <1>3, <2>2, <2>3
<1>4. ASSUME NEW k \in leoLinks, k.effect \in I, LeoSource(i, k)
      PROVE  \E a \in b.ands : o = a.pred \/ o = a.cause
  <2>1. CASE i = k.cause
    <3> PICK l : l = k.lim
      OBVIOUS
    <3>1. l \in Above[k.lim]
      BY <1>0, LeoLinkIs, AboveIs
    <3>2. o \in StepCauses(k, l, OrsOf(I))
      BY <2>1 DEF StepCauses
    <3> QED BY <1>3, <1>4, <3>1, <3>2
  <2>2. ASSUME NEW l \in Above[k.lim], i = l.base
        PROVE  \E a \in b.ands : o = a.pred \/ o = a.cause
    <3>1. PICK c : c \in StepCauses(k, l, OrsOf(I))
      BY <1>0, StepCausesAre
    <3> QED BY <1>3, <1>4, <2>2, <3>1
  <2> QED BY <1>4, <2>1, <2>2 DEF LeoSource
<1> QED BY <1>1, <1>2, <1>4, SourcesAre

\* Only the top is led to by none.
LEMMA OrsAreLedTo ==
    ASSUME DerivationInv, NoNullsAfterRecursion, NEW start, NEW I, NEW b, Made(b, I, start),
           NEW o \in b.ors
    PROVE  o = b.top \/ \E p \in b.ors : o \in Children(b, p)
<1>0. /\ ChartInv /\ BocageIsSound(b) /\ FromStart(I, start) /\ b.top = OrOf(start)
      /\ I \in SUBSET items /\ o \in OrsOf(I)
      /\ b.ands = NullingAnds(I) \cup TokenAnds(I) \cup CompletionAnds(I) \cup LeoAnds(I, OrsOf(I))
  BY DEF DerivationInv, Made, FromStart
<1>1. CASE o \in ItemOrs(I)
  <2>1. PICK i \in I : \E n \in 0 .. NullCount[i.ahm] :
            o = OrNode(RuleOf(i.ahm), i.ahm[2], n, i.origin, i.at)
    BY <1>1 DEF ItemOrs
  <2>2. PICK n \in 0 .. NullCount[i.ahm] : o = OrNode(RuleOf(i.ahm), i.ahm[2], n, i.origin, i.at)
    BY <2>1
  <2>3. CASE n = NullCount[i.ahm]
    <3>1. o = OrOf(i)
      BY <2>2, <2>3 DEF OrOf
    <3>2. i = start \/ i \in Sources(I)
      BY <1>0 DEF FromStart
    <3> QED BY <1>0, <3>1, <3>2, SourcesAreLedTo
  <2>4. CASE n # NullCount[i.ahm]
    <3> PICK m : m = n + 1
      OBVIOUS
    <3>1. m \in 1 .. NullCount[i.ahm] /\ m - 1 = n
      BY <1>0, <2>4, ItemIs
    <3> PICK a : a = And(OrNode(RuleOf(i.ahm), i.ahm[2], m, i.origin, i.at),
                         OrNode(RuleOf(i.ahm), i.ahm[2], m - 1, i.origin, i.at), NullingOr)
      OBVIOUS
    <3>2. a \in NullingAnds(I)
      BY <3>1 DEF NullingAnds
    <3>3. a.pred = o
      BY <2>2, <3>1, AndIs
    <3> QED BY <1>0, <3>2, <3>3, PartsAreLedTo
  <2> QED BY <2>3, <2>4
<1>2. CASE o \in PathOrs(I)
  <2>1. PICK k \in leoLinks : k.effect \in I /\ \E m \in Above[k.lim] :
            PredecessorLim(m) # {} /\ o = ProperOrOf(PathItem(m, k.effect.at))
    BY <1>2 DEF PathOrs
  <2>2. PICK m \in Above[k.lim] :
            PredecessorLim(m) # {} /\ o = ProperOrOf(PathItem(m, k.effect.at))
    BY <2>1
  <2>3. PICK l : l \in PredecessorLim(m)
    BY <2>2
  <2>4. l \in Above[k.lim] /\ l # k.lim
    BY <1>0, <2>3, PathIs, AboveIs, ChainsDoNotReturn
  <2> PICK c : c = PathItem(m, k.effect.at)
    OBVIOUS
  <2>5. OrOf(c) = o
    <3>1. c.ahm \in Ahm /\ IsLeoCompletion(c.ahm)
      BY <1>0, PathItemIs, ItemTypes
    <3>2. NullCount[c.ahm] = 0
      BY <3>1 DEF NoNullsAfterRecursion
    <3> QED BY <2>2, <3>2 DEF OrOf, ProperOrOf
  <2>6. FoundOr(OrOf(PathItem(m, k.effect.at)), OrsOf(I)) = o
    BY <1>0, <2>5 DEF FoundOr
  <2>7. o \in StepCauses(k, l, OrsOf(I))
    BY <2>3, <2>4, <2>6 DEF StepCauses
  <2> PICK a : a = And(StepParent(k, l), OrOf(l.base), o)
    OBVIOUS
  <2>8. a \in StepAnds(k, l, OrsOf(I))
    BY <2>7 DEF StepAnds, Distinct
  <2>9. a \in LeoAnds(I, OrsOf(I))
    BY <2>1, <2>4, <2>8 DEF LeoAnds
  <2>10. a.cause = o
    BY AndIs
  <2> QED BY <1>0, <2>9, <2>10, PartsAreLedTo
<1> QED BY <1>0, <1>1, <1>2 DEF OrsOf

\* A bocage as BocageIsExact says of it.
IsExact(b, C) ==
    /\ b.top \in b.ors
    /\ \A o \in b.ors :
          /\ {And(o, a.pred, a.cause) : a \in AndsOf(b, o)} = ReferenceAnds(C, o)
          /\ Cardinality(AndsOf(b, o)) = Cardinality(ReferenceAnds(C, o))
          /\ AndsOf(b, o) # {}
          /\ \A c \in Children(b, o) :
                c \in b.ors \cup {NoOr, NullingOr} \/ c.type = "token"
          /\ o = b.top \/ \E p \in b.ors : o \in Children(b, p)

\* What marpa_b_new makes from a completion of the start rule is exact.
LEMMA ForestIsExact ==
    ASSUME DerivationInv, NoNullsAfterRecursion, pc = "idle", phase # "before",
           NEW start \in items, RuleOf(start.ahm) = G.startRule, ~ IsPredicted(start),
           NEW b, b = Forest(start)
    PROVE  IsExact(b, Chart(ScannedTokens, b.top.at))
<1>0. ChartInv
  BY DEF DerivationInv
<1> DEFINE I == WithOr(Reached(start))
<1>1. FromStart(I, start)
  BY <1>0, HeldIs, HeldFromStart DEF FromStart, IsHeld
<1>2. BocageIsSound(b)
  <2>1. \A a \in b.ands : a.cause # NoOr
    BY <1>0, ForestHasCauses
  <2> QED BY <1>0, <2>1, ForestOfChart
<1>3. Made(b, I, start)
  BY <1>1, <1>2 DEF Made, Forest, OrsOf
<1> HIDE DEF I
<1>4. b.top.at = start.at /\ start.at \in Nat
  <2>1. /\ RuleOf(start.ahm) \in Rule /\ start.ahm[2] \in Nat /\ start.ahm[2] # 0
        /\ NullCount[start.ahm] \in Nat /\ start.origin \in Nat /\ start.at \in Nat
    BY <1>0, ItemIs DEF IsPredicted
  <2>2. b.top = OrNode(RuleOf(start.ahm), start.ahm[2], NullCount[start.ahm], start.origin, start.at)
    BY <1>3 DEF Made, OrOf
  <2>3. b.top = [type |-> "or", rule |-> RuleOf(start.ahm), dot |-> start.ahm[2],
                 nulls |-> NullCount[start.ahm], origin |-> start.origin, at |-> start.at]
    BY <2>1, <2>2 DEF OrNode
  <2> QED BY <2>1, <2>3
<1> PICK C : C = Chart(ScannedTokens, b.top.at)
  OBVIOUS
<1>5. C = ChartTo(start.at)
  BY <1>4, ChartUpTo DEF ChartTo
<1>6. b.top \in b.ors
  BY <1>2 DEF BocageIsSound
<1>7. ASSUME NEW o \in b.ors
      PROVE  /\ {And(o, a.pred, a.cause) : a \in AndsOf(b, o)} = ReferenceAnds(C, o)
             /\ Cardinality(AndsOf(b, o)) = Cardinality(ReferenceAnds(C, o))
             /\ AndsOf(b, o) # {}
             /\ \A c \in Children(b, o) :
                   c \in b.ors \cup {NoOr, NullingOr} \/ c.type = "token"
             /\ o = b.top \/ \E p \in b.ors : o \in Children(b, p)
  <2>1. AndsOf(b, o) = ReferenceAnds(C, o)
    BY <1>3, <1>5, AndsAreDivisions
  <2>2. /\ AndsOf(b, o) # {}
        /\ \A a \in AndsOf(b, o) : DividesAs(b.ors, o, a)
    BY <1>2, AndsOfAre
  <2>3. \A a \in AndsOf(b, o) : And(o, a.pred, a.cause) = a
    BY <2>2 DEF DividesAs
  <2>4. {And(o, a.pred, a.cause) : a \in AndsOf(b, o)} = AndsOf(b, o)
    BY <2>3
  <2>5. ASSUME NEW c \in Children(b, o)
        PROVE  c \in b.ors \cup {NoOr, NullingOr} \/ c.type = "token"
    <3>1. PICK a \in AndsOf(b, o) : c = a.pred \/ c = a.cause
      BY DEF Children
    <3>2. a.cause \in Causes(b.ors) /\ a.pred \in b.ors \cup {NoOr}
      BY <2>2 DEF DividesAs
    <3> QED BY <3>1, <3>2 DEF Causes, TokenOr
  <2>6. o = b.top \/ \E p \in b.ors : o \in Children(b, p)
    BY <1>3, OrsAreLedTo
  <2> QED BY <2>1, <2>2, <2>4, <2>5, <2>6
<1> QED BY <1>6, <1>7 DEF IsExact

\* So is each bocage.
LEMMA ExactKept ==
    ASSUME DerivationInv, NoNullsAfterRecursion, BocageIsExact, BocageNext
    PROVE  BocageIsExact'
<1>1. CASE bocage = NoBocage /\ UNCHANGED bocage
  BY <1>1 DEF BocageIsExact
<1>2. ASSUME NEW ordinal \in Ordinals, BocageNew(ordinal) PROVE BocageIsExact'
  <2> PICK b, T : b = bocage' /\ T = ScannedTokens
    OBVIOUS
  <2>1. pc = "idle" /\ T = ScannedTokens'
    BY <1>2 DEF BocageNew, linkVars, ScannedTokens
  <2>2. \/ b = NoBocage
        \/ b = NullingBocage
        \/ /\ BocageError(ordinal) = "NONE"
           /\ \E e \in SetOf(ordinal) \ {0} : \E start \in CompletedStarts(e) : b = Forest(start)
    BY <1>2 DEF BocageNew
  <2>3. ASSUME b # NoBocage, ~ b.nulling PROVE IsExact(b, Parser!Chart(T, b.top.at))
    <3>1. /\ BocageError(ordinal) = "NONE"
          /\ \E e \in SetOf(ordinal) \ {0} : \E start \in CompletedStarts(e) : b = Forest(start)
      BY <2>2, <2>3 DEF NullingBocage
    <3>2. PICK e \in SetOf(ordinal) \ {0} : \E start \in CompletedStarts(e) : b = Forest(start)
      BY <3>1
    <3>3. PICK start \in CompletedStarts(e) : b = Forest(start)
      BY <3>2
    <3>4. phase # "before"
      BY <3>1 DEF BocageError
    <3>5. start \in items /\ RuleOf(start.ahm) = G.startRule /\ ~ IsPredicted(start)
      BY DEF CompletedStarts
    <3>6. IsExact(b, Chart(T, b.top.at))
      BY <2>1, <3>3, <3>4, <3>5, ForestIsExact
    <3> QED BY <3>6, SameChart
  <2>4. bocage' # NoBocage /\ ~ bocage'.nulling
            => IsExact(bocage', Parser!Chart(ScannedTokens', bocage'.top.at))
    BY <2>1, <2>3
  <2>5. \A C, o : ReferenceAnds(C, o)' = ReferenceAnds(C, o)
    BY <2>1 DEF ReferenceAnds, Divisions
  <2> QED BY <2>4, <2>5, Zenon DEF BocageIsExact, IsExact
<1> QED BY <1>1, <1>2 DEF BocageNext

\* marpa_b_new divides each or-node in the ways that Earley's algorithm without Leo items
\* finds, once each, and makes no or-node that nothing leads to, for every input to a
\* grammar without nulling symbols at the end of a right recursive rule.
THEOREM BocageCorrect == NoNullsAfterRecursion => (BocageSpec => []BocageIsExact)
<1> SUFFICES ASSUME NoNullsAfterRecursion PROVE BocageSpec => []BocageIsExact
  OBVIOUS
<1>1. BocageInit => DerivationInv /\ BocageIsExact
  BY DerivationInit DEF BocageInit, BocageIsExact
<1>2. DerivationInv /\ BocageIsExact /\ [BocageNext]_bocageVars => DerivationInv' /\ BocageIsExact'
  <2>1. ASSUME DerivationInv, BocageIsExact, UNCHANGED bocageVars PROVE DerivationInv' /\ BocageIsExact'
    <3>1. UNCHANGED vars /\ bocage' = bocage /\ ScannedTokens' = ScannedTokens
      BY <2>1 DEF bocageVars, vars, linkVars, ScannedTokens
    <3>2. bocage # NoBocage /\ ~ bocage.nulling
            => IsExact(bocage, Parser!Chart(ScannedTokens, bocage.top.at))
      BY <2>1, Zenon DEF BocageIsExact, IsExact
    <3>3. bocage' # NoBocage /\ ~ bocage'.nulling
            => IsExact(bocage', Parser!Chart(ScannedTokens', bocage'.top.at))
      BY <3>1, <3>2
    <3>4. \A C, o : ReferenceAnds(C, o)' = ReferenceAnds(C, o)
      BY <3>1 DEF ReferenceAnds, Divisions
    <3>5. BocageIsExact'
      BY <3>3, <3>4, Zenon DEF BocageIsExact, IsExact
    <3> QED BY <2>1, <3>1, <3>5, DerivationStep
  <2>2. ASSUME DerivationInv, BocageNext PROVE DerivationInv'
    <3>1. ASSUME NEW ordinal \in Ordinals, BocageNew(ordinal) PROVE RecognizerUnchanged
      BY <3>1 DEF BocageNew, RecognizerUnchanged
    <3> QED BY <2>2, <3>1, DerivationStep, DerivationUnchanged DEF BocageNext
  <2> QED BY <2>1, <2>2, ExactKept
<1> QED BY <1>1, <1>2, PTL DEF BocageSpec
=============================================================================
