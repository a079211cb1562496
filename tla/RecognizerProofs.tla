-------------------------- MODULE RecognizerProofs --------------------------
(***************************************************************************)
(* Proofs about the recognizer, for every grammar and every bound: types,  *)
(* the count of events, the pending tokens, the furthest earleme,          *)
(* exhaustion, what a rejected token leaves behind; then the chart: where  *)
(* its items begin, that finished sets are frozen, that every item waits on *)
(* something, that Leo items never wait on each other in a circle and each *)
(* is populated from its predecessor, and that the chart is that of        *)
(* Earley's algorithm.                                                     *)
(***************************************************************************)
EXTENDS Recognizer, FiniteSetTheorems, WellFoundedInduction, TLAPS

-----------------------------------------------------------------------------
\* Induction over the natural numbers, as a fact about a set.
LEMMA SetInduction ==
    ASSUME NEW T, 0 \in T, \A n \in Nat : n \in T => n + 1 \in T
    PROVE  Nat \subseteq T
<1> DEFINE Bad == Nat \ T
<1>1. SUFFICES ASSUME Bad # {} PROVE FALSE
  OBVIOUS
<1>2. IsWellFoundedOn(OpToRel(<, Nat), Nat)
  BY NatLessThanWellFounded
<1>3. PICK x \in Bad : \A y \in Bad : ~ (<<y, x>> \in OpToRel(<, Nat))
  <2>1. Bad \subseteq Nat
    OBVIOUS
  <2> HIDE DEF Bad
  <2> QED BY <1>1, <1>2, <2>1, WFMin
<1>4. \A y \in Bad : ~ (y < x)
  BY <1>3 DEF OpToRel
<1>5. x # 0 /\ x - 1 \in Nat /\ x - 1 \notin Bad
  BY <1>4
<1>6. x - 1 \in T /\ x - 1 + 1 = x
  BY <1>5
<1> QED BY <1>6

-----------------------------------------------------------------------------
(***************************************************************************)
(* Lemmas about dotted rules and items.                                    *)
(***************************************************************************)

\* The left side and the right side of a rule; no right side is empty.
LEMMA RuleTypes ==
    /\ G.startRule \in Rule
    /\ \A r \in Rule : /\ Lhs(r) \in Symbol
                       /\ Rhs(r) \in Seq(Symbol)
                       /\ Len(Rhs(r)) \in Nat /\ Len(Rhs(r)) >= 1
BY GrammarAssumption DEF Rule, Symbol, Lhs, Rhs

\* The rule of a dotted rule, and where its dot can be.
LEMMA AhmTypes ==
    ASSUME NEW a \in Ahm
    PROVE  /\ RuleOf(a) \in Rule
           /\ a[2] \in Nat /\ a[2] <= Len(Rhs(RuleOf(a)))
           /\ a = <<RuleOf(a), a[2]>>
BY RuleTypes DEF Ahm, RuleOf

\* A rule and a place in it make a dotted rule.
LEMMA AhmMade ==
    ASSUME NEW r \in Rule, NEW d \in Nat, d <= Len(Rhs(r))
    PROVE  <<r, d>> \in Ahm
BY RuleTypes DEF Ahm

\* The dotted rule after one that is no completion.
LEMMA NextAhmType ==
    ASSUME NEW a \in Ahm, ~ IsCompletion(a)
    PROVE  /\ NextAhm(a) \in Ahm
           /\ RuleOf(NextAhm(a)) = RuleOf(a)
           /\ NextAhm(a)[2] = a[2] + 1
<1> USE AhmTypes, RuleTypes
<1>1. a[2] + 1 <= Len(Rhs(RuleOf(a)))
  BY DEF IsCompletion
<1>2. NextAhm(a) = <<RuleOf(a), a[2] + 1>>
  BY DEF NextAhm
<1>3. NextAhm(a) \in Ahm
  BY <1>1, <1>2, AhmMade
<1> QED
  BY <1>2, <1>3 DEF RuleOf

\* The first dotted rule of a rule is not a completion.
LEMMA FirstAhmType ==
    ASSUME NEW r \in Rule
    PROVE  /\ FirstAhm(r) \in Ahm
           /\ RuleOf(FirstAhm(r)) = r /\ FirstAhm(r)[2] = 0
           /\ ~ IsCompletion(FirstAhm(r))
           /\ PostdotIs(FirstAhm(r), FirstSymbol(r))
<1>1. FirstAhm(r) \in Ahm
  BY AhmMade, RuleTypes DEF FirstAhm
<1>2. RuleOf(FirstAhm(r)) = r /\ FirstAhm(r)[2] = 0
  BY DEF FirstAhm, RuleOf
<1>3. Rhs(r)[1] = FirstSymbol(r)
  BY RuleTypes DEF FirstSymbol
<1> QED
  BY <1>1, <1>2, <1>3, RuleTypes DEF PostdotIs, IsCompletion

\* The symbol after a dot is a symbol.
LEMMA PostdotType ==
    ASSUME NEW a \in Ahm, NEW s, PostdotIs(a, s)
    PROVE  s \in Symbol /\ ~ IsCompletion(a)
BY AhmTypes, RuleTypes DEF PostdotIs, IsCompletion

\* An item whose dot is moved over a symbol is an item.
LEMMA AdvanceType ==
    ASSUME NEW i \in Item, NEW e \in Nat, ~ IsCompletion(i.ahm)
    PROVE  /\ Advance(i, e) \in Item
           /\ Advance(i, e).at = e /\ Advance(i, e).origin = i.origin
           /\ Advance(i, e).ahm = NextAhm(i.ahm)
BY NextAhmType DEF Item, Advance

\* A predicted item is an item.
LEMMA PredictionType ==
    ASSUME NEW r \in Rule, NEW e \in Nat
    PROVE  /\ Prediction(r, e) \in Item
           /\ Prediction(r, e).at = e /\ Prediction(r, e).origin = e
           /\ Prediction(r, e).ahm = FirstAhm(r)
BY FirstAhmType DEF Item, Prediction

\* The fields of an item.
LEMMA ItemTypes ==
    ASSUME NEW i \in Item
    PROVE  i.ahm \in Ahm /\ i.origin \in Nat /\ i.at \in Nat
BY DEF Item

\* Sets of external symbols are finite, so that events can be counted.
LEMMA CountTypes ==
    /\ DeclaredCount \in Nat
    /\ \A S, x : Cardinality(S \cap {x}) \in Nat /\ Cardinality({x} \ S) \in Nat
<1>1. \A k \in EventKind : Cardinality(G.declared[k]) \in Nat
  BY GrammarAssumption, FS_Subset, FS_CardinalityType
<1>2. DeclaredCount \in Nat
  BY <1>1 DEF DeclaredCount, EventKind
<1>3. ASSUME NEW S, NEW x
      PROVE  Cardinality(S \cap {x}) \in Nat /\ Cardinality({x} \ S) \in Nat
  <2>1. IsFiniteSet({x})
    BY FS_Singleton
  <2>2. IsFiniteSet(S \cap {x}) /\ IsFiniteSet({x} \ S)
    BY <2>1, FS_Subset
  <2> QED
    BY <2>2, FS_CardinalityType
<1> QED
  BY <1>2, <1>3

-----------------------------------------------------------------------------
(***************************************************************************)
(* Type correctness.  Earley sets are built during input only.             *)
(***************************************************************************)
BuiltDuringInput == pc # "idle" => phase = "during"

\* Before the start there is nothing.
NothingBefore ==
    phase = "before" =>
        /\ furthest = 0 /\ alternatives = {}
        /\ sets = {} /\ items = {} /\ stack = {} /\ lims = {} /\ newLims = {}
        /\ tokenLinks = {} /\ completionLinks = {} /\ leoLinks = {}

\* The completion stack and the Leo items to populate belong to the call that runs.
CallState ==
    /\ stack # {} => pc = "complete"
    /\ newLims # {} => pc = "leo"
    /\ \A c \in stack : IsCompletion(c.ahm) /\ c.at = current
    /\ \A n \in newLims :
          /\ n.at = current /\ n.base \in items /\ n.base.at = current
          /\ PostdotIs(n.base.ahm, n.sym) /\ IsLeoPenult(n.base.ahm)
    /\ \A l \in lims : IsCompletion(l.top)

TypeInv == TypeOK /\ BuiltDuringInput /\ NothingBefore /\ CallState

\* A new recognizer is well typed.
LEMMA TypeInit == Init => TypeInv
<1> SUFFICES ASSUME Init PROVE TypeInv
  OBVIOUS
<1>1. active \in [EventKind -> SUBSET Xsy]
  BY GrammarAssumption DEF Init, Xsy
<1>2. activeCount \in Int
  BY CountTypes DEF Init
<1> QED
  BY <1>1, <1>2 DEF Init, TypeInv, TypeOK, BuiltDuringInput, NothingBefore, CallState

\* The settings keep the types.
LEMMA TypeSettings ==
    ASSUME TypeInv, SettingCall PROVE TypeInv'
<1> USE DEF TypeInv, BuiltDuringInput, NothingBefore, CallState
<1>1. ASSUME NEW value \in BOOLEAN, UseLeoSet(value)
      PROVE  TypeInv'
  BY <1>1 DEF TypeOK, UseLeoSet, inputVars, chartVars, linkVars, valueVars
<1>2. ASSUME NEW a \in Activations, Deactivate(a[1], a[2]) \/ Activate(a[1], a[2])
      PROVE  TypeInv'
  <2>1. a[1] \in EventKind /\ a[2] \in Xsy
    BY <1>2, RecognizerAssumption DEF Deactivate, Activate
  <2>2. active' \in [EventKind -> SUBSET Xsy]
    BY <1>2, <2>1 DEF TypeOK, Deactivate, Activate
  <2>3. activeCount' \in Int
    <3>1. CASE Deactivate(a[1], a[2])
      BY <3>1, CountTypes DEF TypeOK, Deactivate
    <3>2. CASE Activate(a[1], a[2])
      BY <3>2, CountTypes DEF TypeOK, Activate
    <3> QED
      BY <1>2, <3>1, <3>2
  <2> QED
    BY <1>2, <2>2, <2>3
    DEF TypeOK, Deactivate, Activate, inputVars, chartVars, linkVars, valueVars
<1>3. ASSUME NEW x \in ExpectationXsys, NEW value \in BOOLEAN, ExpectedEventSet(x, value)
      PROVE  TypeInv'
  <2>1. G.nsyOf[x] # NoSymbol => G.nsyOf[x] \in Symbol
    BY <1>3, GrammarAssumption DEF ExpectedEventSet, Xsy, Symbol
  <2> QED
    BY <1>3, <2>1
    DEF TypeOK, ExpectedEventSet, inputVars, chartVars, linkVars, valueVars
<1> QED
  BY <1>1, <1>2, <1>3 DEF SettingCall

\* The items that set 0 starts with are items.
LEMMA StartItemTypes == StartItems \subseteq Item
<1>1. InitialRules \subseteq Rule
  BY DEF InitialRules
<1> QED
  BY <1>1, RuleTypes, PredictionType DEF StartItems

\* marpa_r_start_input keeps the types.
LEMMA TypeStart ==
    ASSUME TypeInv, StartInput \/ StartInputAgain PROVE TypeInv'
<1> USE DEF TypeInv, BuiltDuringInput, NothingBefore, CallState
<1>1. CASE StartInput
  <2>1. items' \subseteq Item /\ stack' \subseteq items'
    BY <1>1, StartItemTypes DEF TypeOK, StartInput
  <2>2. expected' \subseteq Symbol
    BY <1>1 DEF StartInput, PostdotSymbols
  <2>3. locked' \subseteq Xsy /\ canBeValued' \subseteq Xsy /\ canBeUnvalued' \subseteq Xsy
    BY <1>1, GrammarAssumption DEF StartInput, Xsy
  <2>4. sets' \subseteq Nat /\ phase' = "during" /\ current' = 0 /\ pc' = "idle"
    BY <1>1 DEF StartInput
  <2> QED
    BY <1>1, <2>1, <2>2, <2>3, <2>4 DEF TypeOK, StartInput, linkVars, settingVars
<1>2. CASE StartInputAgain
  BY <1>2
  DEF TypeOK, StartInputAgain, inputVars, chartVars, linkVars, valueVars, settingVars
<1> QED
  BY <1>1, <1>2

\* What a token must be for its checks to be passed.
LEMMA TokenChecks ==
    ASSUME TypeInv, NEW x \in Xsy \cup {NoSymbol}, NEW value \in TokenValues,
           NEW length \in Lengths,
           Refusal(x, value, length) = "NONE"
    PROVE  /\ x \in Xsy /\ phase = "during" /\ current \in Nat
           /\ length \in Nat /\ length >= 1
<1>1. length \in Int
  BY RecognizerAssumption
<1> QED
  BY <1>1 DEF Refusal, TypeInv, TypeOK

\* A token that passes the checks of marpa_r_alternative is awaited and in range.
LEMMA PassedChecks ==
    ASSUME TypeInv, NEW x \in Xsy, NEW length \in Nat, current \in Nat,
           Rejection(x, length) = "NONE"
    PROVE  /\ G.nsyOf[x] \in Symbol
           /\ current \in sets /\ Pims(current, G.nsyOf[x]) # {}
           /\ current + length < EarlemeThreshold
<1>1. EarlemeThreshold \in Nat
  BY RecognizerAssumption
<1>2. G.nsyOf[x] \in Symbol \cup {NoSymbol}
  BY GrammarAssumption DEF Xsy, Symbol
<1> QED
  BY <1>1, <1>2 DEF Rejection

\* Locking a symbol to a kind of token keeps the types.
LEMMA TypeMark ==
    ASSUME TypeInv, NEW x \in Xsy, NEW value, MarkValue(x, value)
    PROVE  locked' \subseteq Xsy /\ canBeValued' \subseteq Xsy /\ canBeUnvalued' \subseteq Xsy
BY DEF MarkValue, TypeInv, TypeOK

\* marpa_r_alternative keeps the types.
LEMMA TypeAlternative ==
    ASSUME TypeInv, Alternative PROVE TypeInv'
<1> PICK x \in Xsy \cup {NoSymbol}, value \in TokenValues, length \in Lengths :
        \/ RefuseToken(x, value, length)
        \/ RejectToken(x, value, length)
        \/ InsertToken(x, value, length)
  BY DEF Alternative
<1> USE DEF BuiltDuringInput, NothingBefore, CallState
<1>1. CASE RefuseToken(x, value, length)
  BY <1>1 DEF TypeInv, TypeOK, RefuseToken, inputVars, chartVars, linkVars, valueVars, settingVars
<1>2. CASE RejectToken(x, value, length)
  <2>1. locked' \subseteq Xsy /\ canBeValued' \subseteq Xsy /\ canBeUnvalued' \subseteq Xsy
    BY <1>2, TokenChecks, TypeMark DEF RejectToken
  <2> QED
    BY <1>2, <2>1 DEF TypeInv, TypeOK, RejectToken, inputVars, chartVars, linkVars, settingVars
<1>3. CASE InsertToken(x, value, length)
  <2>1. /\ x \in Xsy /\ phase = "during" /\ current \in Nat
        /\ length \in Nat /\ length >= 1
    BY <1>3, TokenChecks DEF InsertToken
  <2>2. locked' \subseteq Xsy /\ canBeValued' \subseteq Xsy /\ canBeUnvalued' \subseteq Xsy
    BY <1>3, <2>1, TypeMark DEF InsertToken
  <2>3. TokenOf(x, value, length) \in Token
    <3>1. G.nsyOf[x] \in Symbol /\ value \in {0, 1}
      BY <1>3, <2>1, PassedChecks, RecognizerAssumption DEF InsertToken
    <3> QED
      BY <2>1, <3>1 DEF TokenOf, Token
  <2>4. alternatives' \subseteq Token
    BY <1>3, <2>3 DEF TypeInv, TypeOK, InsertToken
  <2>5. furthest' \in Nat
    BY <1>3, <2>1 DEF TypeInv, TypeOK, InsertToken
  <2> QED
    BY <1>3, <2>1, <2>2, <2>4, <2>5 DEF TypeInv, TypeOK, InsertToken, chartVars, linkVars, settingVars
<1> QED
  BY <1>1, <1>2, <1>3

\* The entry of marpa_r_earleme_complete keeps the types.
LEMMA TypeEarlemeComplete ==
    ASSUME TypeInv, EarlemeComplete PROVE TypeInv'
<1> USE DEF TypeInv, BuiltDuringInput, NothingBefore, CallState
<1>1. CASE CompleteRefused
  BY <1>1
  DEF TypeOK, CompleteRefused, inputVars, chartVars, linkVars, valueVars, settingVars
<1>2. CASE CompletePastFurthest
  BY <1>2 DEF TypeOK, CompletePastFurthest, linkVars, valueVars, settingVars
<1>3. CASE CompleteGap
  BY <1>3 DEF TypeOK, CompleteGap, linkVars, valueVars, settingVars
<1>4. CASE BeginEarleySet
  <2>1. sets' \subseteq Nat /\ current' \in Nat
    BY <1>4 DEF TypeOK, BeginEarleySet
  <2> QED
    BY <1>4, <2>1 DEF TypeOK, BeginEarleySet, linkVars, valueVars, settingVars
<1> QED
  BY <1>1, <1>2, <1>3, <1>4 DEF EarlemeComplete

-----------------------------------------------------------------------------
(***************************************************************************)
(* Type correctness of the steps of marpa_r_earleme_complete.              *)
(***************************************************************************)
LEMMA CurrentType == TypeInv /\ pc # "idle" => current \in Nat /\ phase = "during"
BY DEF TypeInv, TypeOK, BuiltDuringInput

\* The items that wait for a symbol are items of that set.
LEMMA PimsTypes ==
    ASSUME TypeInv, NEW e, NEW s, NEW i \in Pims(e, s)
    PROVE  i \in Item /\ i \in items /\ i.at = e /\ s \in Symbol /\ ~ IsCompletion(i.ahm)
BY PostdotType, ItemTypes DEF Pims, TypeInv, TypeOK

\* The scan of a token keeps the types.
LEMMA TypeScanToken ==
    ASSUME TypeInv, NEW a \in alternatives, ScanToken(a) PROVE TypeInv'
<1> DEFINE preds == Pims(a.start, a.sym)
<1>1. current \in Nat /\ phase = "during" /\ pc = "scan"
  BY CurrentType DEF ScanToken
<1>2. \A i \in preds : i \in Item /\ Advance(i, current) \in Item
  BY <1>1, PimsTypes, AdvanceType
<1>3. items' \subseteq Item /\ stack' \subseteq items'
  BY <1>2 DEF ScanToken, TypeInv, TypeOK
<1>4. tokenLinks' \subseteq [effect : Item, pred : Item, token : Token]
  <2>1. a \in Token
    BY DEF TypeInv, TypeOK
  <2> QED
    BY <1>2, <2>1 DEF ScanToken, TypeInv, TypeOK
<1>5. stack' = {} /\ newLims' = {}
  BY <1>1 DEF ScanToken, TypeInv, CallState
<1>6. BuiltDuringInput' /\ NothingBefore' /\ CallState'
  BY <1>1, <1>5 DEF ScanToken, TypeInv, BuiltDuringInput, NothingBefore, CallState
<1>7. TypeOK'
  BY <1>1, <1>3, <1>4 DEF ScanToken, TypeInv, TypeOK, valueVars, settingVars
<1> QED
  BY <1>6, <1>7 DEF TypeInv

\* The end of the scan keeps the types.
LEMMA TypeEndScan ==
    ASSUME TypeInv, EndScan PROVE TypeInv'
<1>1. current \in Nat /\ phase = "during" /\ pc = "scan" /\ newLims = {}
  BY CurrentType DEF EndScan, TypeInv, CallState
<1>2. BuiltDuringInput' /\ NothingBefore' /\ CallState'
  BY <1>1 DEF EndScan, TypeInv, BuiltDuringInput, NothingBefore, CallState, AtCurrent, inputVars
<1>3. TypeOK'
  BY <1>1
  DEF EndScan, TypeInv, TypeOK, AtCurrent, inputVars, linkVars, valueVars, settingVars
<1> QED
  BY <1>2, <1>3 DEF TypeInv

\* A completion by a Leo item keeps the types.
LEMMA TypeCompleteByLeo ==
    ASSUME TypeInv, NEW cause \in stack, CompleteByLeo(cause) PROVE TypeInv'
<1>1. current \in Nat /\ phase = "during" /\ pc = "complete" /\ newLims = {}
  BY CurrentType DEF CompleteByLeo, TypeInv, CallState
<1>2. PICK l \in LimsFor(cause.origin, LhsOf(cause.ahm)) :
          /\ items' = items \cup {LeoEffect(l)}
          /\ stack' = (stack \ {cause}) \cup ({LeoEffect(l)} \ items)
          /\ leoLinks' = leoLinks \cup
                {[effect |-> LeoEffect(l), lim |-> l, cause |-> cause]}
  BY DEF CompleteByLeo
<1>3. l \in Lim /\ l \in lims /\ cause \in Item
  BY DEF LimsFor, TypeInv, TypeOK
<1>4. LeoEffect(l) \in Item /\ LeoEffect(l).at = current /\ LeoEffect(l).ahm = l.top
  BY <1>1, <1>3 DEF LeoEffect, Lim, Item
<1>5. IsCompletion(l.top)
  BY <1>3 DEF TypeInv, CallState
<1>6. BuiltDuringInput' /\ NothingBefore' /\ CallState'
  BY <1>1, <1>2, <1>4, <1>5
  DEF CompleteByLeo, TypeInv, BuiltDuringInput, NothingBefore, CallState, inputVars
<1>7. leoLinks' \subseteq [effect : Item, lim : Lim, cause : Item]
  BY <1>2, <1>3, <1>4 DEF TypeInv, TypeOK
<1>8. TypeOK'
  BY <1>1, <1>2, <1>4, <1>7
  DEF CompleteByLeo, TypeInv, TypeOK, inputVars, valueVars, settingVars
<1> QED
  BY <1>6, <1>8 DEF TypeInv

\* A completion without Leo items keeps the types.
LEMMA TypeCompleteByEarley ==
    ASSUME TypeInv, NEW cause \in stack, CompleteByEarley(cause) PROVE TypeInv'
<1> DEFINE preds == Pims(cause.origin, LhsOf(cause.ahm))
           effects == {Advance(i, current) : i \in preds}
<1>1. current \in Nat /\ phase = "during" /\ pc = "complete" /\ newLims = {}
  BY CurrentType DEF CompleteByEarley, TypeInv, CallState
<1>2. cause \in Item
  BY DEF TypeInv, TypeOK
<1>3. \A i \in preds : /\ i \in Item /\ Advance(i, current) \in Item
                       /\ Advance(i, current).at = current
  BY <1>1, PimsTypes, AdvanceType
<1>4. /\ items' = items \cup effects
      /\ stack' = (stack \ {cause}) \cup NewCompletions(effects)
      /\ completionLinks' = completionLinks \cup
            {[effect |-> Advance(i, current), pred |-> i, cause |-> cause] : i \in preds}
  BY DEF CompleteByEarley
<1>5. \A i \in NewCompletions(effects) : i \in effects /\ IsCompletion(i.ahm)
  BY DEF NewCompletions
<1>6. BuiltDuringInput' /\ NothingBefore' /\ CallState'
  BY <1>1, <1>3, <1>4, <1>5
  DEF CompleteByEarley, TypeInv, BuiltDuringInput, NothingBefore, CallState, inputVars
<1>7. completionLinks' \subseteq [effect : Item, pred : Item, cause : Item]
  BY <1>2, <1>3, <1>4 DEF TypeInv, TypeOK
<1>8. items' \subseteq Item /\ stack' \subseteq items'
  BY <1>3, <1>4, <1>5 DEF TypeInv, TypeOK
<1>9. TypeOK'
  BY <1>1, <1>7, <1>8
  DEF CompleteByEarley, TypeInv, TypeOK, inputVars, valueVars, settingVars
<1> QED
  BY <1>6, <1>9 DEF TypeInv

\* A prediction is an item of its set, for a rule that some postdot symbol predicts.
LEMMA PredictionsTypes ==
    ASSUME NEW I, NEW e \in Nat, NEW p \in Predictions(I, e)
    PROVE  /\ p \in Item /\ p.at = e /\ p.origin = e
           /\ \E s \in PostdotSymbols(I) : \E r \in PredictedRules[s] :
                 r \in Rule /\ p = Prediction(r, e)
<1>1. PICK s \in PostdotSymbols(I) : \E r \in PredictedRules[s] : p = Prediction(r, e)
  BY DEF Predictions
<1>2. s \in Symbol
  BY DEF PostdotSymbols
<1>3. PredictedRules[s] \subseteq Rule
  BY <1>2 DEF PredictedRules
<1> QED
  BY <1>1, <1>3, PredictionType

\* Prediction and the creation of Leo items keep the types.
LEMMA TypePredictAndPostdot ==
    ASSUME TypeInv, PredictAndPostdot PROVE TypeInv'
<1> DEFINE here == AtCurrent \cup Predictions(AtCurrent, current)
<1>1. current \in Nat /\ phase = "during" /\ pc = "complete"
  BY CurrentType DEF PredictAndPostdot
<1>2. \A i \in here : i \in Item /\ i.at = current
  BY <1>1, PredictionsTypes DEF AtCurrent, TypeInv, TypeOK
<1>3. items' = items \cup here
  BY DEF PredictAndPostdot
<1>4. ASSUME NEW n \in newLims'
      PROVE  /\ n \in NewLim /\ n.at = current /\ n.base \in here
             /\ PostdotIs(n.base.ahm, n.sym) /\ IsLeoPenult(n.base.ahm)
  <2>1. PICK sym \in Symbol : n \in LeoEligible(here, current, sym)
    BY <1>4 DEF PredictAndPostdot
  <2>2. PICK i \in here : /\ PostdotIs(i.ahm, sym) /\ IsLeoPenult(i.ahm)
                          /\ n = [sym |-> sym, at |-> current, base |-> i]
    BY <2>1 DEF LeoEligible
  <2> QED
    BY <1>1, <1>2, <2>2 DEF NewLim
<1>5. BuiltDuringInput' /\ NothingBefore' /\ CallState'
  BY <1>1, <1>2, <1>3, <1>4
  DEF PredictAndPostdot, TypeInv, BuiltDuringInput, NothingBefore, CallState, inputVars
<1>6. items' \subseteq Item /\ stack' \subseteq items' /\ newLims' \subseteq NewLim
  BY <1>2, <1>3, <1>4 DEF PredictAndPostdot, TypeInv, TypeOK
<1>7. TypeOK'
  BY <1>1, <1>6
  DEF PredictAndPostdot, TypeInv, TypeOK, inputVars, linkVars, valueVars, settingVars
<1> QED
  BY <1>5, <1>7 DEF TypeInv

\* The Leo item made of n.
LEMMA TypePopulateLim ==
    ASSUME TypeInv, NEW n \in newLims, PopulateLim(n) PROVE TypeInv'
<1>1. current \in Nat /\ phase = "during" /\ pc = "leo" /\ stack = {}
  BY CurrentType DEF PopulateLim, TypeInv, CallState
<1>2. n \in NewLim /\ n.base \in Item /\ ~ IsCompletion(n.base.ahm)
  BY ItemTypes, PostdotType DEF TypeInv, TypeOK, CallState, NewLim
<1>3. Trailhead(n) \in Ahm
  BY <1>2, ItemTypes, NextAhmType DEF Trailhead
<1>4. EventAhms(Trailhead(n)) \subseteq Ahm
  BY <1>3 DEF EventAhms
<1>5. \A p \in PredecessorOf(n) : p \in Lim
  BY DEF PredecessorOf, LimsFor, TypeInv, TypeOK
<1>6. \A p \in PredecessorOf(n) :
          Populated(n, p.top, p.origin, MergedCil(p, Trailhead(n))) \in Lim
  BY <1>2, <1>4, <1>5 DEF Populated, MergedCil, Lim, NewLim
<1>7. Populated(n, Trailhead(n), n.base.origin, EventAhms(Trailhead(n))) \in Lim
  BY <1>2, <1>3, <1>4, ItemTypes DEF Populated, Lim, NewLim
<1>8. lims' \subseteq Lim
  BY <1>6, <1>7 DEF PopulateLim, TypeInv, TypeOK
<1>11. IsCompletion(Trailhead(n))
  BY DEF TypeInv, CallState, IsLeoPenult, IsLeoCompletion, Trailhead
<1>12. \A l \in lims' : IsCompletion(l.top)
  BY <1>11 DEF PopulateLim, TypeInv, CallState, PredecessorOf, LimsFor, Populated
<1>9. BuiltDuringInput' /\ NothingBefore' /\ CallState'
  BY <1>1, <1>12
  DEF PopulateLim, TypeInv, BuiltDuringInput, NothingBefore, CallState, inputVars
<1>10. TypeOK'
  BY <1>1, <1>8
  DEF PopulateLim, TypeInv, TypeOK, inputVars, linkVars, valueVars, settingVars
<1> QED
  BY <1>9, <1>10 DEF TypeInv

\* The end of an Earley set keeps the types.
LEMMA TypeEndEarleySet ==
    ASSUME TypeInv, EndEarleySet PROVE TypeInv'
<1>1. current \in Nat /\ phase = "during" /\ pc = "leo" /\ stack = {} /\ newLims = {}
  BY CurrentType DEF EndEarleySet, TypeInv, CallState
<1>2. expected' \subseteq Symbol
  BY DEF EndEarleySet, PostdotSymbols
<1>3. phase' \in {"during", "after"}
  BY <1>1 DEF EndEarleySet
<1>4. BuiltDuringInput' /\ NothingBefore' /\ CallState'
  BY <1>1, <1>3 DEF EndEarleySet, TypeInv, BuiltDuringInput, NothingBefore, CallState
<1>5. TypeOK'
  BY <1>1, <1>2, <1>3
  DEF EndEarleySet, TypeInv, TypeOK, inputVars, linkVars, valueVars, settingVars
<1> QED
  BY <1>4, <1>5 DEF TypeInv

\* Each step keeps TypeInv.
LEMMA TypeStep ==
    ASSUME TypeInv, [Next]_vars PROVE TypeInv'
<1>1. CASE SettingCall
  BY <1>1, TypeSettings
<1>2. CASE StartInput \/ StartInputAgain
  BY <1>2, TypeStart
<1>3. CASE Alternative
  BY <1>3, TypeAlternative
<1>4. CASE EarlemeComplete
  BY <1>4, TypeEarlemeComplete
<1>5. CASE InternalStep
  BY <1>5, TypeScanToken, TypeEndScan, TypeCompleteByLeo, TypeCompleteByEarley,
     TypePredictAndPostdot, TypePopulateLim, TypeEndEarleySet DEF InternalStep
<1>6. CASE UNCHANGED vars
  BY <1>6 DEF vars, inputVars, chartVars, linkVars, valueVars, settingVars, TypeInv,
     TypeOK, BuiltDuringInput, NothingBefore, CallState
<1> QED
  BY <1>1, <1>2, <1>3, <1>4, <1>5, <1>6 DEF Next

\* The state of the recognizer has its types in every run of marpa_r_new and of
\* the calls after it.
THEOREM TypeCorrect == Spec => []TypeOK
<1>1. Init => TypeInv
  BY TypeInit
<1>2. TypeInv /\ [Next]_vars => TypeInv'
  BY TypeStep
<1>3. TypeInv => TypeOK
  BY DEF TypeInv
<1> QED
  BY <1>1, <1>2, <1>3, PTL DEF Spec

-----------------------------------------------------------------------------
(***************************************************************************)
(* The count of active events.  It starts from the declared events, so it  *)
(* may be too large for ever, but every switch changes it with the set:    *)
(* it never falls below the number of the active ones.                     *)
(***************************************************************************)
ActiveNumber(act) ==
    Cardinality(act["completed"]) + Cardinality(act["nulled"]) + Cardinality(act["predicted"])

CountInv == TypeInv /\ ActiveNumber(active) <= activeCount

\* Sets of external symbols are finite.
LEMMA XsysFinite ==
    ASSUME NEW S \in SUBSET Xsy
    PROVE  IsFiniteSet(S) /\ Cardinality(S) \in Nat
BY GrammarAssumption, FS_Subset, FS_CardinalityType DEF Xsy

\* A new recognizer counts the declared events, of which the active ones are a part.
LEMMA CountInit == Init => CountInv
<1> SUFFICES ASSUME Init PROVE CountInv
  OBVIOUS
<1>1. ASSUME NEW k \in EventKind
      PROVE  /\ Cardinality(G.startsActive[k]) <= Cardinality(G.declared[k])
             /\ Cardinality(G.startsActive[k]) \in Nat /\ Cardinality(G.declared[k]) \in Nat
  <2>1. G.declared[k] \in SUBSET Xsy /\ G.startsActive[k] \in SUBSET G.declared[k]
    BY GrammarAssumption DEF Xsy
  <2> QED
    BY <2>1, XsysFinite, FS_Subset
<1>2. /\ Cardinality(G.startsActive["completed"]) <= Cardinality(G.declared["completed"])
      /\ Cardinality(G.startsActive["nulled"]) <= Cardinality(G.declared["nulled"])
      /\ Cardinality(G.startsActive["predicted"]) <= Cardinality(G.declared["predicted"])
  BY <1>1 DEF EventKind
<1>3. ActiveNumber(G.startsActive) <= DeclaredCount
  BY <1>1, <1>2 DEF ActiveNumber, DeclaredCount, EventKind
<1> QED
  BY <1>3, TypeInit DEF Init, CountInv

\* A switch of one symbol changes the number of one kind.
LEMMA CountSwitch ==
    ASSUME TypeInv, NEW k \in EventKind, NEW x \in Xsy, NEW S \in SUBSET Xsy,
           NEW act, act = [active EXCEPT ![k] = S]
    PROVE  ActiveNumber(act) =
              ActiveNumber(active) - Cardinality(active[k]) + Cardinality(S)
<1>1. /\ active \in [EventKind -> SUBSET Xsy] /\ active[k] \in SUBSET Xsy
      /\ \A j \in EventKind : Cardinality(active[j]) \in Nat
      /\ Cardinality(S) \in Nat
  BY XsysFinite DEF TypeInv, TypeOK
<1>2. \A j \in EventKind : act[j] = IF j = k THEN S ELSE active[j]
  BY <1>1
<1>3. k = "completed" \/ k = "nulled" \/ k = "predicted"
  BY DEF EventKind
<1>4. "completed" \in EventKind /\ "nulled" \in EventKind /\ "predicted" \in EventKind
  BY DEF EventKind
<1>5. CASE k = "completed"
  BY <1>1, <1>2, <1>4, <1>5 DEF ActiveNumber
<1>6. CASE k = "nulled"
  BY <1>1, <1>2, <1>4, <1>6 DEF ActiveNumber
<1>7. CASE k = "predicted"
  BY <1>1, <1>2, <1>4, <1>7 DEF ActiveNumber
<1> QED
  BY <1>3, <1>5, <1>6, <1>7

\* Each step keeps CountInv: a switch changes the count by as much as the active events.
LEMMA CountStep ==
    ASSUME CountInv, [Next]_vars PROVE CountInv'
<1>0. TypeInv' /\ TypeInv /\ ActiveNumber(active) <= activeCount /\ activeCount \in Int
  BY TypeStep DEF CountInv, TypeInv, TypeOK
<1>1. ASSUME NEW k, NEW x, Deactivate(k, x) \/ Activate(k, x), k \in EventKind
      PROVE  ActiveNumber(active') <= activeCount'
  <2>1. x \in Xsy /\ active[k] \in SUBSET Xsy /\ IsFiniteSet(active[k])
        /\ Cardinality(active[k]) \in Nat
    BY <1>0, <1>1, XsysFinite DEF Deactivate, Activate, TypeInv, TypeOK
  <2>2. ActiveNumber(active) \in Int
    BY <1>0, XsysFinite DEF ActiveNumber, TypeInv, TypeOK, EventKind
  <2>3. CASE Deactivate(k, x)
    <3>1. Cardinality(active[k] \ {x}) = Cardinality(active[k]) - Cardinality(active[k] \cap {x})
      <4>1. CASE x \in active[k]
        <5>1. active[k] \cap {x} = {x}
          BY <4>1
        <5>2. Cardinality(active[k] \cap {x}) = 1
          BY <5>1, FS_Singleton
        <5>3. Cardinality(active[k] \ {x}) = Cardinality(active[k]) - 1
          BY <2>1, <4>1, FS_RemoveElement
        <5> QED
          BY <5>2, <5>3
      <4>2. CASE x \notin active[k]
        <5>1. active[k] \cap {x} = {} /\ active[k] \ {x} = active[k]
          BY <4>2
        <5> QED
          BY <2>1, <5>1, FS_EmptySet
      <4> QED
        BY <4>1, <4>2
    <3>2. active' = [active EXCEPT ![k] = active[k] \ {x}]
          /\ activeCount' = activeCount - Cardinality(active[k] \cap {x})
      BY <2>3 DEF Deactivate
    <3>3. active[k] \ {x} \in SUBSET Xsy
      BY <2>1
    <3>4. ActiveNumber(active') = ActiveNumber(active) - Cardinality(active[k])
                                    + Cardinality(active[k] \ {x})
      BY <1>0, <1>1, <2>1, <3>2, <3>3, CountSwitch
    <3>5. Cardinality(active[k] \cap {x}) \in Nat
      BY CountTypes
    <3> QED
      BY <1>0, <2>1, <2>2, <3>1, <3>2, <3>4, <3>5
  <2>4. CASE Activate(k, x)
    <3>1. Cardinality(active[k] \cup {x}) = Cardinality(active[k]) + Cardinality({x} \ active[k])
      <4>1. CASE x \notin active[k]
        <5>1. {x} \ active[k] = {x} /\ Cardinality({x}) = 1
          BY <4>1, FS_Singleton
        <5> QED
          BY <2>1, <4>1, <5>1, FS_AddElement
      <4>2. CASE x \in active[k]
        <5>1. {x} \ active[k] = {} /\ active[k] \cup {x} = active[k]
          BY <4>2
        <5> QED
          BY <2>1, <5>1, FS_EmptySet
      <4> QED
        BY <4>1, <4>2
    <3>2. active' = [active EXCEPT ![k] = active[k] \cup {x}]
          /\ activeCount' = activeCount + Cardinality({x} \ active[k])
      BY <2>4 DEF Activate
    <3>3. active[k] \cup {x} \in SUBSET Xsy
      BY <2>1
    <3>4. ActiveNumber(active') = ActiveNumber(active) - Cardinality(active[k])
                                    + Cardinality(active[k] \cup {x})
      BY <1>0, <1>1, <2>1, <3>2, <3>3, CountSwitch
    <3>5. Cardinality({x} \ active[k]) \in Nat
      BY CountTypes
    <3> QED
      BY <1>0, <2>1, <2>2, <3>1, <3>2, <3>4, <3>5
  <2> QED
    BY <1>1, <2>3, <2>4
<1>2. \/ UNCHANGED <<active, activeCount>>
      \/ \E a \in Activations : Deactivate(a[1], a[2]) \/ Activate(a[1], a[2])
  <2> USE DEF settingVars
  <2>1. CASE SettingCall
    BY <2>1 DEF SettingCall, UseLeoSet, ExpectedEventSet
  <2>2. CASE StartInput \/ StartInputAgain
    BY <2>2 DEF StartInput, StartInputAgain
  <2>3. CASE Alternative
    BY <2>3 DEF Alternative, RefuseToken, RejectToken, InsertToken
  <2>4. CASE EarlemeComplete
    BY <2>4
    DEF EarlemeComplete, CompleteRefused, CompletePastFurthest, CompleteGap, BeginEarleySet
  <2>5. CASE InternalStep
    BY <2>5 DEF InternalStep, ScanToken, EndScan, CompleteByLeo, CompleteByEarley,
                PredictAndPostdot, PopulateLim, EndEarleySet
  <2>6. CASE UNCHANGED vars
    BY <2>6 DEF vars
  <2> QED
    BY <2>1, <2>2, <2>3, <2>4, <2>5, <2>6 DEF Next
<1>3. \A a \in Activations : Deactivate(a[1], a[2]) \/ Activate(a[1], a[2]) => a[1] \in EventKind
  BY RecognizerAssumption
<1>4. ActiveNumber(active') <= activeCount'
  BY <1>0, <1>1, <1>2, <1>3
<1> QED
  BY <1>0, <1>4 DEF CountInv, ActiveNumber

\* While an event is active marpa_r_earleme_complete looks for it, in whatever order
\* events are switched, those never declared included.
THEOREM EventsAreCounted == Spec => []ActiveEventsAreNotSkipped
<1>1. Init => CountInv
  BY CountInit
<1>2. CountInv /\ [Next]_vars => CountInv'
  BY CountStep
<1>3. CountInv => ActiveEventsAreNotSkipped
  <2> SUFFICES ASSUME CountInv, NEW k \in EventKind, active[k] # {} PROVE activeCount > 0
    BY DEF ActiveEventsAreNotSkipped
  <2>1. \A j \in EventKind : IsFiniteSet(active[j]) /\ Cardinality(active[j]) \in Nat
    BY XsysFinite DEF CountInv, TypeInv, TypeOK
  <2>2. Cardinality(active[k]) > 0
    BY <2>1, FS_EmptySet
  <2>3. /\ "completed" \in EventKind /\ "nulled" \in EventKind /\ "predicted" \in EventKind
        /\ k = "completed" \/ k = "nulled" \/ k = "predicted"
        /\ activeCount \in Int /\ ActiveNumber(active) <= activeCount
    BY DEF CountInv, TypeInv, TypeOK, EventKind
  <2> QED
    BY <2>1, <2>2, <2>3 DEF ActiveNumber
<1> QED
  BY <1>1, <1>2, <1>3, PTL DEF Spec

-----------------------------------------------------------------------------
\* No step removes an Earley set or an Earley item.
LEMMA ChartGrows ==
    ASSUME TypeInv, [Next]_vars
    PROVE  sets \subseteq sets' /\ items \subseteq items'
<1> USE DEF inputVars, chartVars
<1>1. CASE SettingCall
  BY <1>1 DEF SettingCall, UseLeoSet, Activate, Deactivate, ExpectedEventSet
<1>2. CASE StartInput \/ StartInputAgain
  BY <1>2 DEF StartInput, StartInputAgain, TypeInv, NothingBefore
<1>3. CASE Alternative
  BY <1>3 DEF Alternative, RefuseToken, RejectToken, InsertToken
<1>4. CASE EarlemeComplete
  BY <1>4
  DEF EarlemeComplete, CompleteRefused, CompletePastFurthest, CompleteGap, BeginEarleySet
<1>5. CASE InternalStep
  BY <1>5 DEF InternalStep, ScanToken, EndScan, CompleteByLeo, CompleteByEarley,
              PredictAndPostdot, PopulateLim, EndEarleySet
<1>6. CASE UNCHANGED vars
  BY <1>6 DEF vars
<1> QED
  BY <1>1, <1>2, <1>3, <1>4, <1>5, <1>6 DEF Next

\* So a symbol that is waited for stays waited for.
LEMMA PimsGrow ==
    ASSUME TypeInv, [Next]_vars, NEW e, NEW s
    PROVE  Pims(e, s) \subseteq Pims(e, s)'
BY ChartGrows DEF Pims

-----------------------------------------------------------------------------
(***************************************************************************)
(* The inductive invariant is the conjunction of the three properties:     *)
(* that no token is left behind needs the order of the tokens, and that    *)
(* exhaustion is exact needs both others.                                  *)
(***************************************************************************)
InputInv == TypeInv /\ PendingTokens /\ FurthestIsBacked /\ ExhaustionIsExact

\* Before input there is no token.
LEMMA InputInit == Init => InputInv
BY TypeInit DEF Init, InputInv, PendingTokens, FurthestIsBacked, ExhaustionIsExact

\* A pending token starts and ends at earlemes.
LEMMA TokenTypes ==
    ASSUME TypeInv, NEW a \in alternatives
    PROVE  a.end \in Nat /\ a.start \in Nat
BY DEF TypeInv, TypeOK, Token

\* A step that leaves the input alone keeps the tokens and the furthest earleme
\* right, and exhaustion too unless the call returns.
LEMMA QuietStep ==
    ASSUME InputInv, [Next]_vars, UNCHANGED <<inputVars, phase>>,
           \/ pc' = pc /\ expected' = expected
           \/ pc # "idle" /\ pc # "scan" /\ pc' # "idle" /\ pc' # "scan"
    PROVE  InputInv'
<1>1. TypeInv'
  BY TypeStep DEF InputInv
<1>2. PendingTokens'
  BY ChartGrows, PimsGrow DEF InputInv, PendingTokens, inputVars, SameToken
<1>3. FurthestIsBacked'
  BY DEF InputInv, FurthestIsBacked, inputVars
<1>4. ExhaustionIsExact'
  BY DEF InputInv, ExhaustionIsExact, inputVars
<1> QED
  BY <1>1, <1>2, <1>3, <1>4 DEF InputInv

\* marpa_r_start_input leaves no token, and is exhausted if nothing is expected.
LEMMA InputStart ==
    ASSUME InputInv, [Next]_vars, StartInput PROVE InputInv'
<1>1. TypeInv'
  BY TypeStep DEF InputInv
<1>2. alternatives' = {} /\ furthest' = 0 /\ current' = 0
  BY DEF InputInv, TypeInv, NothingBefore, StartInput
<1> QED
  BY <1>1, <1>2 DEF InputInv, PendingTokens, FurthestIsBacked, ExhaustionIsExact

\* An accepted token ends between the current and the furthest earleme.
LEMMA InputInsert ==
    ASSUME InputInv, [Next]_vars, NEW x \in Xsy \cup {NoSymbol}, NEW value \in TokenValues,
           NEW length \in Lengths, InsertToken(x, value, length)
    PROVE  InputInv'
<1> DEFINE token == TokenOf(x, value, length)
<1>1. TypeInv /\ TypeInv'
  BY TypeStep DEF InputInv
<1>2. /\ x \in Xsy /\ phase = "during" /\ current \in Nat
      /\ length \in Nat /\ length >= 1 /\ pc = "idle"
  BY <1>1, TokenChecks DEF InsertToken
<1>3. /\ G.nsyOf[x] \in Symbol
      /\ current \in sets /\ Pims(current, G.nsyOf[x]) # {}
      /\ current + length < EarlemeThreshold
  BY <1>1, <1>2, PassedChecks DEF InsertToken
<1>4. furthest \in Nat /\ furthest' \in Nat
  BY <1>1 DEF TypeInv, TypeOK
<1>5. /\ token.sym = G.nsyOf[x] /\ token.start = current /\ token.end = current + length
  BY DEF TokenOf
<1>6. furthest <= furthest' /\ current + length <= furthest'
  BY <1>2, <1>4 DEF InsertToken
<1>7. UNCHANGED <<phase, pc, current, sets, items, expected>>
  BY DEF InsertToken, chartVars
<1>8. \A e, s : Pims(e, s)' = Pims(e, s)
  BY <1>7 DEF Pims
<1>9. CASE \E a \in alternatives : SameToken(a, token)
  <2>1. alternatives' = alternatives
    BY <1>9 DEF InsertToken
  <2>2. PICK a \in alternatives : a.end = current + length
    BY <1>9, <1>5 DEF SameToken
  <2>3. current + length <= furthest
    BY <2>2 DEF InputInv, PendingTokens
  <2>4. furthest' = furthest
    BY <1>2, <1>4, <2>3 DEF InsertToken
  <2> QED
    BY <1>1, <1>7, <1>8, <2>1, <2>4
    DEF InputInv, PendingTokens, FurthestIsBacked, ExhaustionIsExact, SameToken
<1>10. CASE ~ \E a \in alternatives : SameToken(a, token)
  <2>1. alternatives' = alternatives \cup {token}
    BY <1>10 DEF InsertToken
  <2>2. \A a \in alternatives : a.end \in Nat
    BY <1>1, TokenTypes
  <2>3. PendingTokens'
    <3>1. ASSUME NEW a \in alternatives'
          PROVE  /\ a.start \in sets' /\ Pims(a.start, a.sym)' # {}
                 /\ a.start < a.end /\ a.end > current'
                 /\ a.end <= furthest' /\ a.end < EarlemeThreshold
      <4>1. CASE a \in alternatives
        BY <4>1, <1>2, <1>4, <1>6, <1>7, <1>8, <2>2 DEF InputInv, PendingTokens
      <4>2. CASE a = token
        BY <4>2, <1>2, <1>3, <1>5, <1>6, <1>7, <1>8
      <4> QED
        BY <4>1, <4>2, <2>1
    <3>2. ASSUME NEW a \in alternatives', NEW b \in alternatives', SameToken(a, b)
          PROVE  a = b
      <4>1. ~ \E c \in alternatives : SameToken(token, c)
        BY <1>10 DEF SameToken
      <4> QED
        BY <1>10, <2>1, <3>2, <4>1 DEF InputInv, PendingTokens
    <3> QED
      BY <1>2, <1>7, <3>1, <3>2 DEF PendingTokens, SameToken
  <2>4. FurthestIsBacked'
    <3>1. CASE furthest < current + length
      BY <3>1, <1>5, <1>7, <2>1 DEF InsertToken, FurthestIsBacked
    <3>2. CASE ~ (furthest < current + length)
      BY <3>2, <1>7, <2>1 DEF InsertToken, InputInv, FurthestIsBacked
    <3> QED
      BY <3>1, <3>2
  <2>5. ExhaustionIsExact'
    BY <1>2, <1>7, <2>1 DEF ExhaustionIsExact
  <2> QED
    BY <1>1, <2>3, <2>4, <2>5 DEF InputInv
<1> QED
  BY <1>9, <1>10

\* Past the furthest earleme no token is pending.
LEMMA InputPastFurthest ==
    ASSUME InputInv, [Next]_vars, CompletePastFurthest PROVE InputInv'
<1>1. TypeInv /\ TypeInv'
  BY TypeStep DEF InputInv
<1>2. current \in Int /\ furthest \in Nat
  BY <1>1 DEF TypeInv, TypeOK
<1>3. alternatives = {}
  <2> SUFFICES ASSUME NEW a \in alternatives PROVE FALSE
    OBVIOUS
  <2>1. a.end > current /\ a.end <= furthest /\ a.end \in Nat
    BY <1>1, TokenTypes DEF CompletePastFurthest, InputInv, PendingTokens
  <2> QED
    BY <1>2, <2>1 DEF CompletePastFurthest
<1> QED
  BY <1>1, <1>3
  DEF CompletePastFurthest, InputInv, PendingTokens, FurthestIsBacked, ExhaustionIsExact

\* No pending token ends before the next earleme, so one that ends there is the top.
LEMMA DueIsTop ==
    ASSUME InputInv, pc = "idle", phase = "during", NEW a \in alternatives, ~ EarlemeIsDue
    PROVE  a.end > current + 1
<1>1. \A b \in alternatives : b.end \in Nat /\ b.end > current
  BY TokenTypes DEF InputInv, PendingTokens
<1>2. current \in Nat
  BY DEF InputInv, TypeInv, TypeOK
<1>3. a.end # current + 1
  BY <1>1, <1>2 DEF EarlemeIsDue, IsTop
<1> QED
  BY <1>1, <1>2, <1>3

\* Passing an earleme where no token ends loses no token.
LEMMA InputGap ==
    ASSUME InputInv, [Next]_vars, CompleteGap PROVE InputInv'
<1>1. TypeInv /\ TypeInv'
  BY TypeStep DEF InputInv
<1>2. current \in Nat /\ furthest \in Nat /\ current' = current + 1
  BY <1>1 DEF CompleteGap, TypeInv, TypeOK
<1>3. UNCHANGED <<phase, pc, furthest, alternatives, sets, items>>
  BY DEF CompleteGap
<1>4. \A a \in alternatives : a.end > current'
  BY <1>2, DueIsTop DEF CompleteGap
<1>5. PendingTokens'
  BY <1>3, <1>4 DEF CompleteGap, InputInv, PendingTokens, Pims, SameToken
<1>6. alternatives # {} /\ FurthestIsBacked'
  BY <1>2, <1>3 DEF CompleteGap, InputInv, FurthestIsBacked
<1>7. ExhaustionIsExact'
  BY <1>3, <1>6 DEF CompleteGap, ExhaustionIsExact
<1> QED
  BY <1>1, <1>5, <1>6, <1>7 DEF InputInv

\* As a new Earley set begins, no pending token ends before it.
LEMMA InputBegin ==
    ASSUME InputInv, [Next]_vars, BeginEarleySet PROVE InputInv'
<1>1. TypeInv /\ TypeInv'
  BY TypeStep DEF InputInv
<1>2. current \in Nat /\ furthest \in Nat /\ current' = current + 1
  BY <1>1 DEF BeginEarleySet, TypeInv, TypeOK
<1>3. UNCHANGED <<phase, furthest, alternatives, items>> /\ pc' = "scan"
  BY DEF BeginEarleySet
<1>4. \A a \in alternatives : a.end \in Nat /\ a.end >= current'
  BY <1>1, <1>2, TokenTypes DEF BeginEarleySet, InputInv, PendingTokens
<1>5. PendingTokens'
  BY <1>3, <1>4 DEF BeginEarleySet, InputInv, PendingTokens, Pims, SameToken
<1>6. FurthestIsBacked'
  BY <1>2, <1>3 DEF BeginEarleySet, InputInv, FurthestIsBacked
<1> QED
  BY <1>1, <1>3, <1>5, <1>6 DEF InputInv, ExhaustionIsExact

\* A token that is scanned ended at the current earleme.
LEMMA InputScan ==
    ASSUME InputInv, [Next]_vars, NEW a \in alternatives, ScanToken(a) PROVE InputInv'
<1>1. TypeInv /\ TypeInv'
  BY TypeStep DEF InputInv
<1>2. current \in Nat /\ furthest \in Nat /\ a.end \in Nat
  BY <1>1, TokenTypes, CurrentType DEF ScanToken, TypeInv, TypeOK
<1>3. UNCHANGED <<phase, pc, furthest, current, sets>> /\ pc = "scan"
  BY DEF ScanToken
<1>4. alternatives' = alternatives \ {a} /\ a.end <= current
  BY DEF ScanToken
<1>5. \A e, s : Pims(e, s) \subseteq Pims(e, s)'
  BY <1>1, PimsGrow
<1>6. PendingTokens'
  BY <1>3, <1>4, <1>5 DEF InputInv, PendingTokens, SameToken
<1>7. FurthestIsBacked'
  BY <1>2, <1>3, <1>4 DEF InputInv, FurthestIsBacked
<1> QED
  BY <1>1, <1>3, <1>6, <1>7 DEF InputInv, ExhaustionIsExact

\* All tokens that end here are scanned when no top ends here.
LEMMA InputEndScan ==
    ASSUME InputInv, [Next]_vars, EndScan PROVE InputInv'
<1>1. TypeInv /\ TypeInv'
  BY TypeStep DEF InputInv
<1>2. current \in Nat /\ pc = "scan"
  BY <1>1, CurrentType DEF EndScan
<1>3. UNCHANGED <<phase, furthest, current, alternatives, sets, items>> /\ pc' = "complete"
  BY DEF EndScan, inputVars
<1>4. \A b \in alternatives : b.end \in Nat /\ b.end >= current
  BY <1>1, <1>2, TokenTypes DEF InputInv, PendingTokens
<1>5. \A a \in alternatives : a.end > current
  BY <1>2, <1>4 DEF EndScan, IsTop
<1>6. PendingTokens'
  BY <1>3, <1>5 DEF InputInv, PendingTokens, Pims, SameToken
<1>7. FurthestIsBacked'
  BY <1>3 DEF InputInv, FurthestIsBacked
<1> QED
  BY <1>1, <1>3, <1>6, <1>7 DEF InputInv, ExhaustionIsExact

\* The end of an Earley set tests for exhaustion with the terminals it expects.
LEMMA InputEndSet ==
    ASSUME InputInv, [Next]_vars, EndEarleySet PROVE InputInv'
<1>1. TypeInv /\ TypeInv'
  BY TypeStep DEF InputInv
<1>2. pc = "leo" /\ pc' = "idle" /\ phase = "during"
  BY <1>1, CurrentType DEF EndEarleySet
<1>3. UNCHANGED <<furthest, current, alternatives, sets, items>>
  BY DEF EndEarleySet, inputVars
<1>4. PendingTokens'
  BY <1>2, <1>3 DEF InputInv, PendingTokens, Pims, SameToken
<1>5. FurthestIsBacked'
  BY <1>2, <1>3 DEF InputInv, FurthestIsBacked
<1>6. ExhaustionIsExact'
  BY <1>2, <1>3 DEF EndEarleySet, NothingLeft, ExhaustionIsExact
<1> QED
  BY <1>1, <1>4, <1>5, <1>6 DEF InputInv

\* Each step keeps InputInv.
LEMMA InputStep ==
    ASSUME InputInv, [Next]_vars PROVE InputInv'
<1>1. CASE SettingCall
  <2>1. UNCHANGED <<inputVars, phase, pc, expected>>
    BY <1>1 DEF SettingCall, UseLeoSet, Activate, Deactivate, ExpectedEventSet, chartVars
  <2> QED
    BY <2>1, QuietStep
<1>2. CASE StartInput
  BY <1>2, InputStart
<1>3. CASE StartInputAgain \/ CompleteRefused \/ UNCHANGED vars
  <2>1. UNCHANGED <<inputVars, phase, pc, expected>>
    BY <1>3 DEF StartInputAgain, CompleteRefused, vars, chartVars
  <2> QED
    BY <2>1, QuietStep
<1>4. CASE Alternative
  <2> PICK x \in Xsy \cup {NoSymbol}, value \in TokenValues, length \in Lengths :
        \/ RefuseToken(x, value, length)
        \/ RejectToken(x, value, length)
        \/ InsertToken(x, value, length)
    BY <1>4 DEF Alternative
  <2>1. CASE RefuseToken(x, value, length) \/ RejectToken(x, value, length)
    <3>1. UNCHANGED <<inputVars, phase, pc, expected>>
      BY <2>1 DEF RefuseToken, RejectToken, chartVars
    <3> QED
      BY <3>1, QuietStep
  <2>2. CASE InsertToken(x, value, length)
    BY <2>2, InputInsert
  <2> QED
    BY <2>1, <2>2
<1>5. CASE CompletePastFurthest \/ CompleteGap \/ BeginEarleySet
  BY <1>5, InputPastFurthest, InputGap, InputBegin
<1>6. CASE InternalStep
  <2>1. ASSUME NEW a \in alternatives, ScanToken(a) PROVE InputInv'
    BY <2>1, InputScan
  <2>2. CASE EndScan
    BY <2>2, InputEndScan
  <2>3. ASSUME NEW cause \in stack, CompleteByLeo(cause) \/ CompleteByEarley(cause)
        PROVE  InputInv'
    BY <2>3, QuietStep DEF CompleteByLeo, CompleteByEarley
  <2>4. CASE PredictAndPostdot
    BY <2>4, QuietStep DEF PredictAndPostdot
  <2>5. ASSUME NEW n \in newLims, PopulateLim(n) PROVE InputInv'
    BY <2>5, QuietStep DEF PopulateLim
  <2>6. CASE EndEarleySet
    BY <2>6, InputEndSet
  <2> QED
    BY <1>6, <2>1, <2>2, <2>3, <2>4, <2>5, <2>6 DEF InternalStep
<1> QED
  BY <1>1, <1>2, <1>3, <1>4, <1>5, <1>6 DEF Next, EarlemeComplete

\* InputInv holds in every reachable state.
LEMMA InputCorrect == Spec => []InputInv
<1>1. Init => InputInv
  BY InputInit
<1>2. InputInv /\ [Next]_vars => InputInv'
  BY InputStep
<1> QED
  BY <1>1, <1>2, PTL DEF Spec

\* Every token that marpa_r_alternative accepted is scanned once, at its end: it is
\* pending and within range until then.
THEOREM TokensStayPending == Spec => []PendingTokens
<1>1. InputInv => PendingTokens
  BY DEF InputInv
<1> QED
  BY <1>1, InputCorrect, PTL

\* The furthest earleme is the end of a pending token as long as it lies ahead.
THEOREM FurthestHasToken == Spec => []FurthestIsBacked
<1>1. InputInv => FurthestIsBacked
  BY DEF InputInv
<1> QED
  BY <1>1, InputCorrect, PTL

\* t_is_exhausted is set exactly when no token is pending and none is expected.
THEOREM ExhaustionCorrect == Spec => []ExhaustionIsExact
<1>1. InputInv => ExhaustionIsExact
  BY DEF InputInv
<1> QED
  BY <1>1, InputCorrect, PTL

-----------------------------------------------------------------------------
\* The furthest earleme that marpa_r_alternative raised before it found a duplicate
\* was not raised at all: the first of the two tokens had raised it.
LEMMA DuplicateIsHarmless ==
    ASSUME InputInv, NEW x \in Xsy \cup {NoSymbol}, NEW value \in TokenValues,
           NEW length \in Lengths, InsertToken(x, value, length), ret'[2] # "NONE"
    PROVE  UNCHANGED <<inputVars, chartVars>>
<1>1. /\ x \in Xsy /\ current \in Nat /\ length \in Nat
  BY TokenChecks DEF InputInv, InsertToken
<1>2. \E a \in alternatives : SameToken(a, TokenOf(x, value, length))
  BY DEF InsertToken, Returned
<1>3. PICK a \in alternatives : a.end = current + length
  BY <1>2 DEF SameToken, TokenOf
<1>4. current + length <= furthest /\ furthest \in Nat
  BY <1>3 DEF InputInv, PendingTokens, TypeInv, TypeOK
<1> QED
  BY <1>1, <1>2, <1>4 DEF InsertToken, inputVars

\* A token that is not accepted changes neither the input nor the chart.
THEOREM RejectionCorrect == Spec => RejectionIsHarmless
<1> DEFINE Harmless ==
        pc = "idle" /\ pc' = "idle" /\ ret'[1] = "alternative" /\ ret'[2] # "NONE"
          => UNCHANGED <<inputVars, chartVars>>
<1>1. InputInv /\ [Next]_vars => [Harmless]_vars
  <2> SUFFICES ASSUME InputInv, Next, pc = "idle", pc' = "idle",
                      ret'[1] = "alternative", ret'[2] # "NONE"
               PROVE  UNCHANGED <<inputVars, chartVars>>
    OBVIOUS
  <2>1. CASE SettingCall
    BY <2>1
    DEF SettingCall, UseLeoSet, Activate, Deactivate, ExpectedEventSet, Returned
  <2>2. CASE StartInput \/ StartInputAgain
    BY <2>2 DEF StartInput, StartInputAgain, Returned
  <2>3. CASE Alternative
    <3> PICK x \in Xsy \cup {NoSymbol}, value \in TokenValues, length \in Lengths :
          \/ RefuseToken(x, value, length)
          \/ RejectToken(x, value, length)
          \/ InsertToken(x, value, length)
      BY <2>3 DEF Alternative
    <3>1. CASE RefuseToken(x, value, length) \/ RejectToken(x, value, length)
      BY <3>1 DEF RefuseToken, RejectToken
    <3>2. CASE InsertToken(x, value, length)
      BY <3>2, DuplicateIsHarmless
    <3> QED
      BY <3>1, <3>2
  <2>4. CASE EarlemeComplete
    BY <2>4 DEF EarlemeComplete, CompleteRefused, CompletePastFurthest, CompleteGap,
                BeginEarleySet, Returned
  <2>5. CASE InternalStep
    BY <2>5 DEF InternalStep, ScanToken, EndScan, CompleteByLeo, CompleteByEarley,
                PredictAndPostdot, PopulateLim, EndEarleySet
  <2> QED
    BY <2>1, <2>2, <2>3, <2>4, <2>5 DEF Next
<1> QED
  BY <1>1, InputCorrect, PTL DEF Spec, RejectionIsHarmless

-----------------------------------------------------------------------------
(***************************************************************************)
(* Valued and unvalued tokens.                                             *)
(***************************************************************************)

\* A symbol that the grammar locks stays locked, and only its kind is permitted.
LocksAreKept ==
    phase # "before" =>
        \A x \in G.valuedLocked :
            /\ x \in locked
            /\ x \in canBeValued => x \in G.valued
            /\ x \in canBeUnvalued => x \notin G.valued

LocksInv == TypeInv /\ LocksAreKept /\ LockedSymbolsKeepTheirKind

\* Before input no symbol has taken a token.
LEMMA LocksInit == Init => LocksInv
BY TypeInit DEF Init, LocksInv, LocksAreKept, LockedSymbolsKeepTheirKind, TokensRead

\* The symbols of two XSYs differ.
LEMMA SymbolsDiffer ==
    ASSUME NEW x \in Xsy, NEW y \in Xsy, G.nsyOf[x] = G.nsyOf[y], G.nsyOf[x] # NoSymbol
    PROVE  x = y
BY GrammarAssumption DEF Xsy

\* A symbol that is marked is not locked, or its kind was permitted before.
LEMMA MarksKeepLocks ==
    ASSUME LocksInv, NEW x \in Xsy \cup {NoSymbol}, NEW value \in TokenValues,
           NEW length \in Lengths, Refusal(x, value, length) = "NONE", MarkValue(x, value),
           phase' = phase
    PROVE  /\ LocksAreKept'
           /\ x \in G.valuedLocked => (value = 1) = (x \in G.valued)
<1>1. phase = "during" /\ (x \in CanHave(value) \/ x \notin locked) /\ value \in {0, 1}
  BY RecognizerAssumption DEF Refusal
<1> QED
  BY <1>1 DEF LocksInv, LocksAreKept, MarkValue, CanHave

\* A token of a locked symbol is of the kind the symbol is locked to, or refused.
LEMMA ValueInsert ==
    ASSUME LocksInv, NEW x \in Xsy \cup {NoSymbol}, NEW value \in TokenValues,
           NEW length \in Lengths, InsertToken(x, value, length)
    PROVE  LocksAreKept' /\ LockedSymbolsKeepTheirKind'
<1> DEFINE token == TokenOf(x, value, length)
<1>1. /\ Refusal(x, value, length) = "NONE" /\ MarkValue(x, value) /\ phase' = phase
      /\ alternatives' \subseteq alternatives \cup {token} /\ tokenLinks' = tokenLinks
  BY DEF InsertToken, linkVars
<1>2. LocksAreKept' /\ (x \in G.valuedLocked => (value = 1) = (x \in G.valued))
  BY <1>1, MarksKeepLocks
<1>3. x \in Xsy /\ G.nsyOf[x] \in Symbol
  BY TokenChecks, PassedChecks DEF InsertToken, LocksInv
<1>4. ASSUME NEW y \in G.valuedLocked, token.sym = G.nsyOf[y]
      PROVE  (token.value = 1) = (y \in G.valued)
  <2>1. y \in Xsy /\ G.nsyOf[y] # NoSymbol
    BY <1>3, <1>4, GrammarAssumption DEF Xsy, Symbol, TokenOf
  <2>2. x = y
    BY <1>3, <1>4, <2>1, SymbolsDiffer DEF TokenOf
  <2> QED
    BY <1>2, <2>2 DEF TokenOf
<1>5. \A a \in TokensRead' : a \in TokensRead \/ a = token
  BY <1>1 DEF TokensRead
<1> QED
  BY <1>2, <1>4, <1>5 DEF LocksInv, LockedSymbolsKeepTheirKind

\* Each step keeps the kinds of the tokens.
LEMMA LocksStep ==
    ASSUME LocksInv, [Next]_vars PROVE LocksInv'
<1> SUFFICES LocksAreKept' /\ LockedSymbolsKeepTheirKind'
  BY TypeStep DEF LocksInv
<1> USE DEF LocksInv
<1>1. CASE UNCHANGED <<valueVars, tokenLinks>> /\ alternatives' = alternatives
           /\ (phase = "before" => phase' = "before")
  BY <1>1 DEF LocksAreKept, LockedSymbolsKeepTheirKind, TokensRead, valueVars
<1>2. CASE SettingCall
  BY <1>1, <1>2 DEF SettingCall, UseLeoSet, Activate, Deactivate, ExpectedEventSet,
                    inputVars, linkVars
<1>3. CASE StartInput
  <2>1. alternatives' = {} /\ tokenLinks' = {}
    BY <1>3 DEF StartInput, TypeInv, NothingBefore, linkVars
  <2> QED
    BY <1>3, <2>1 DEF StartInput, LocksAreKept, LockedSymbolsKeepTheirKind, TokensRead
<1>4. CASE StartInputAgain \/ EarlemeComplete \/ UNCHANGED vars
  BY <1>1, <1>4
  DEF StartInputAgain, EarlemeComplete, CompleteRefused, CompletePastFurthest, CompleteGap,
      BeginEarleySet, vars, inputVars, linkVars
<1>5. CASE Alternative
  <2> PICK x \in Xsy \cup {NoSymbol}, value \in TokenValues, length \in Lengths :
        \/ RefuseToken(x, value, length)
        \/ RejectToken(x, value, length)
        \/ InsertToken(x, value, length)
    BY <1>5 DEF Alternative
  <2>1. CASE RefuseToken(x, value, length)
    BY <1>1, <2>1 DEF RefuseToken, inputVars, linkVars
  <2>2. CASE RejectToken(x, value, length)
    <3>1. phase' = phase /\ UNCHANGED <<alternatives, tokenLinks>>
      BY <2>2 DEF RejectToken, inputVars, linkVars
    <3>2. LocksAreKept'
      BY <2>2, <3>1, MarksKeepLocks DEF RejectToken
    <3> QED
      BY <3>1, <3>2 DEF LockedSymbolsKeepTheirKind, TokensRead
  <2>3. CASE InsertToken(x, value, length)
    BY <2>3, ValueInsert
  <2> QED
    BY <2>1, <2>2, <2>3
<1>6. CASE InternalStep
  <2>1. ASSUME NEW a \in alternatives, ScanToken(a)
        PROVE  LocksAreKept' /\ LockedSymbolsKeepTheirKind'
    <3>1. UNCHANGED <<valueVars, phase>>
      BY <2>1 DEF ScanToken
    <3>2. \A t \in TokensRead' : t \in TokensRead
      BY <2>1 DEF ScanToken, TokensRead
    <3> QED
      BY <3>1, <3>2 DEF LocksAreKept, LockedSymbolsKeepTheirKind, valueVars
  <2>2. CASE EndEarleySet
    <3>1. phase = "during"
      BY <2>2, CurrentType DEF EndEarleySet
    <3> QED
      BY <1>1, <2>2, <3>1 DEF EndEarleySet, inputVars, linkVars
  <2> QED
    BY <1>1, <1>6, <2>1, <2>2
    DEF InternalStep, EndScan, CompleteByLeo, CompleteByEarley, PredictAndPostdot,
        PopulateLim, inputVars, linkVars
<1> QED
  BY <1>2, <1>3, <1>4, <1>5, <1>6 DEF Next

\* A symbol that marpa_g_force_valued, or the application, locked as valued or as
\* unvalued has tokens of that kind only.
THEOREM ValuesCorrect == Spec => []LockedSymbolsKeepTheirKind
<1>1. Init => LocksInv
  BY LocksInit
<1>2. LocksInv /\ [Next]_vars => LocksInv'
  BY LocksStep
<1>3. LocksInv => LockedSymbolsKeepTheirKind
  BY DEF LocksInv
<1> QED
  BY <1>1, <1>2, <1>3, PTL DEF Spec

-----------------------------------------------------------------------------
(***************************************************************************)
(* How a step changes the chart.                                           *)
(***************************************************************************)

\* An Earley set begins, or the earleme moves on without one.
EarlemeStep == CompletePastFurthest \/ CompleteGap \/ BeginEarleySet

\* Every step that is none of those below leaves the chart alone.
LEMMA OtherSteps ==
    ASSUME TypeInv, [Next]_vars
    PROVE  \/ StartInput
           \/ EarlemeStep
           \/ \E a \in alternatives : ScanToken(a)
           \/ \E cause \in stack : CompleteByLeo(cause) \/ CompleteByEarley(cause)
           \/ PredictAndPostdot
           \/ \E n \in newLims : PopulateLim(n)
           \/ /\ UNCHANGED <<current, sets, items, lims, newLims, linkVars>>
              /\ \/ UNCHANGED <<pc, stack>>
                 \/ EndScan
                 \/ EndEarleySet
<1> USE DEF inputVars, chartVars, linkVars
<1>1. CASE SettingCall
  BY <1>1 DEF SettingCall, UseLeoSet, Activate, Deactivate, ExpectedEventSet
<1>2. CASE StartInput \/ StartInputAgain
  BY <1>2 DEF StartInputAgain
<1>3. CASE Alternative
  BY <1>3 DEF Alternative, RefuseToken, RejectToken, InsertToken
<1>4. CASE EarlemeComplete
  BY <1>4 DEF EarlemeComplete, CompleteRefused, EarlemeStep
<1>5. CASE InternalStep
  BY <1>5 DEF InternalStep, EndScan, EndEarleySet
<1>6. CASE UNCHANGED vars
  BY <1>6 DEF vars
<1> QED
  BY <1>1, <1>2, <1>3, <1>4, <1>5, <1>6 DEF Next

\* The earleme moves on by one, and with it nothing of the chart but the sets.
LEMMA EarlemeSteps ==
    ASSUME InputInv, EarlemeStep
    PROVE  /\ pc = "idle" /\ phase = "during" /\ current \in Nat /\ current' = current + 1
           /\ UNCHANGED <<items, stack, lims, newLims, linkVars>>
           /\ stack = {} /\ newLims = {}
           /\ pc' \in {"idle", "scan"}
<1>1. current \in Nat /\ pc = "idle" /\ phase = "during" /\ stack = {} /\ newLims = {}
  BY DEF InputInv, TypeInv, TypeOK, CallState, EarlemeStep, CompletePastFurthest,
         CompleteGap, BeginEarleySet
<1> QED
  BY <1>1 DEF EarlemeStep, CompletePastFurthest, CompleteGap, BeginEarleySet

-----------------------------------------------------------------------------
(***************************************************************************)
(* Items span the input: an item whose dot has moved ends after it began,  *)
(* and the dots of the set that is built are moved until it predicts.      *)
(***************************************************************************)
ItemsSpan ==
    \A i \in items :
        /\ i.at <= current /\ i.origin <= i.at
        /\ i.ahm[2] > 0 => i.origin < i.at
        /\ pc \in {"scan", "complete"} /\ i.at = current => i.ahm[2] > 0

LimsSpan ==
    \A l \in lims :
        /\ l.at <= current /\ l.origin <= l.at
        /\ pc \in {"scan", "complete"} => l.at < current
        /\ l.base \in items /\ l.base.at = l.at /\ PostdotIs(l.base.ahm, l.sym)

SpanInv == InputInv /\ ItemsSpan /\ LimsSpan /\ (pc # "idle" => current > 0)

\* The empty chart has no item that could span nothing.
LEMMA SpanInit == Init => SpanInv
BY InputInit DEF Init, SpanInv, ItemsSpan, LimsSpan

\* The items that set 0 starts with are predictions there.
LEMMA StartItemsSpan ==
    \A i \in StartItems : i.at = 0 /\ i.origin = 0 /\ i.ahm[2] = 0 /\ i \in Item
<1>1. InitialRules \subseteq Rule
  BY DEF InitialRules
<1> QED
  BY <1>1, RuleTypes, PredictionType, FirstAhmType DEF StartItems

\* An item that is advanced over something between its end and the current earleme.
LEMMA AdvancedSpan ==
    ASSUME SpanInv, pc # "idle", NEW p \in items, p.at < current, ~ IsCompletion(p.ahm)
    PROVE  LET i == Advance(p, current)
           IN i \in Item /\ i.at = current /\ i.origin < i.at /\ i.ahm[2] > 0
<1>1. p \in Item /\ current \in Nat /\ p.origin <= p.at
  BY CurrentType DEF SpanInv, ItemsSpan, InputInv, TypeInv, TypeOK
<1>2. NextAhm(p.ahm)[2] = p.ahm[2] + 1 /\ p.ahm[2] \in Nat
  BY <1>1, ItemTypes, NextAhmType, AhmTypes
<1> QED
  BY <1>1, <1>2, AdvanceType, ItemTypes

\* A completed item of the stack began in an earlier set.
LEMMA CauseSpan ==
    ASSUME SpanInv, NEW cause \in stack
    PROVE  /\ cause \in Item /\ cause \in items /\ cause.at = current
           /\ cause.origin \in Nat /\ cause.origin < current
           /\ IsCompletion(cause.ahm) /\ pc = "complete"
<1>1. cause \in Item /\ cause \in items /\ IsCompletion(cause.ahm) /\ cause.at = current
  BY DEF SpanInv, InputInv, TypeInv, TypeOK, CallState
<1>2. cause.ahm[2] > 0
  BY <1>1, ItemTypes, AhmTypes, RuleTypes DEF IsCompletion
<1> QED
  BY <1>1, <1>2, ItemTypes DEF SpanInv, InputInv, TypeInv, CallState, ItemsSpan

\* The effect of a Leo item is an item whose dot has moved and that spans some input.
LEMMA LeoEffectSpan ==
    ASSUME SpanInv, NEW cause \in stack, NEW l \in LimsFor(cause.origin, LhsOf(cause.ahm))
    PROVE  LET i == LeoEffect(l)
           IN i \in Item /\ i.at = current /\ i.origin < i.at /\ i.ahm[2] > 0
<1>1. l \in Lim /\ l \in lims /\ l.at = cause.origin
  BY DEF LimsFor, SpanInv, InputInv, TypeInv, TypeOK
<1>2. current \in Nat /\ cause.origin \in Nat /\ cause.origin < current
  BY CauseSpan, CurrentType DEF SpanInv, InputInv
<1>3. l.origin \in Nat /\ l.origin <= l.at /\ IsCompletion(l.top) /\ l.top \in Ahm
  BY <1>1 DEF SpanInv, InputInv, TypeInv, CallState, LimsSpan, Lim
<1>4. l.top[2] > 0 /\ RuleOf(l.top) \in Rule
  BY <1>3, AhmTypes, RuleTypes DEF IsCompletion
<1> QED
  BY <1>1, <1>2, <1>3, <1>4 DEF LeoEffect, Item

\* A step that adds items with moved dots to the current set keeps the spans.
LEMMA MovedItems ==
    ASSUME SpanInv, InputInv', pc \in {"scan", "complete"}, UNCHANGED <<current, lims, pc>>,
           NEW I, items' = items \cup I,
           \A i \in I : i.at = current /\ i.origin < i.at /\ i.ahm[2] > 0 /\ i \in Item
    PROVE  SpanInv'
<1>1. current \in Nat
  BY CurrentType DEF SpanInv, InputInv
<1>2. ItemsSpan'
  BY <1>1, ItemTypes DEF SpanInv, ItemsSpan
<1>3. LimsSpan'
  BY DEF SpanInv, LimsSpan
<1> QED
  BY <1>2, <1>3 DEF SpanInv

\* Each step keeps SpanInv: an effect begins no later than the item that waited for it.
LEMMA SpanStep ==
    ASSUME SpanInv, [Next]_vars PROVE SpanInv'
<1>0. InputInv /\ InputInv' /\ TypeInv
  BY InputStep DEF SpanInv, InputInv
<1>1. CASE StartInput
  <2>1. current' = 0 /\ items' = StartItems /\ lims' = {} /\ pc' = "idle"
    BY <1>0, <1>1 DEF StartInput, TypeInv, NothingBefore
  <2> QED
    BY <1>0, <2>1, StartItemsSpan DEF SpanInv, ItemsSpan, LimsSpan
<1>2. CASE EarlemeStep
  <2>1. /\ pc = "idle" /\ current \in Nat /\ current' = current + 1
        /\ UNCHANGED <<items, lims>>
    BY <1>0, <1>2, EarlemeSteps
  <2>2. \A i \in items : i \in Item
    BY <1>0 DEF TypeInv, TypeOK
  <2>3. \A l \in lims : l.at \in Nat
    BY <1>0 DEF TypeInv, TypeOK, Lim
  <2> QED
    BY <1>0, <2>1, <2>2, <2>3, ItemTypes DEF SpanInv, ItemsSpan, LimsSpan
<1>3. ASSUME NEW a \in alternatives, ScanToken(a) PROVE SpanInv'
  <2>1. pc = "scan" /\ a.start < a.end /\ a.end <= current /\ a.start \in Nat /\ a.end \in Nat
    BY <1>0, <1>3, TokenTypes DEF ScanToken, InputInv, PendingTokens
  <2>2. \A p \in Pims(a.start, a.sym) : p \in items /\ p.at < current /\ ~ IsCompletion(p.ahm)
    BY <1>0, <2>1, PimsTypes, CurrentType
  <2>3. \A i \in {Advance(p, current) : p \in Pims(a.start, a.sym)} :
            i.at = current /\ i.origin < i.at /\ i.ahm[2] > 0 /\ i \in Item
    BY <2>1, <2>2, AdvancedSpan
  <2> QED
    BY <1>0, <1>3, <2>1, <2>3, MovedItems DEF ScanToken
<1>4. ASSUME NEW cause \in stack, CompleteByLeo(cause) PROVE SpanInv'
  <2>1. PICK l \in LimsFor(cause.origin, LhsOf(cause.ahm)) :
            items' = items \cup {LeoEffect(l)}
    BY <1>4 DEF CompleteByLeo
  <2>2. \A i \in {LeoEffect(l)} :
            i.at = current /\ i.origin < i.at /\ i.ahm[2] > 0 /\ i \in Item
    BY LeoEffectSpan
  <2> QED
    BY <1>0, <1>4, <2>1, <2>2, MovedItems DEF CompleteByLeo, inputVars
<1>5. ASSUME NEW cause \in stack, CompleteByEarley(cause) PROVE SpanInv'
  <2>1. pc = "complete" /\ cause.origin < current
    BY <1>5, CauseSpan DEF CompleteByEarley
  <2>2. \A p \in Pims(cause.origin, LhsOf(cause.ahm)) :
            p \in items /\ p.at < current /\ ~ IsCompletion(p.ahm)
    BY <1>0, <2>1, PimsTypes
  <2>3. \A i \in {Advance(p, current) : p \in Pims(cause.origin, LhsOf(cause.ahm))} :
            i.at = current /\ i.origin < i.at /\ i.ahm[2] > 0 /\ i \in Item
    BY <2>1, <2>2, AdvancedSpan
  <2> QED
    BY <1>0, <1>5, <2>1, <2>3, MovedItems DEF CompleteByEarley, inputVars
<1>6. CASE PredictAndPostdot
  <2>1. current \in Nat /\ pc = "complete" /\ pc' = "leo" /\ UNCHANGED <<current, lims>>
    BY <1>0, <1>6, CurrentType DEF PredictAndPostdot, inputVars
  <2>2. items' = items \cup Predictions(AtCurrent, current)
    BY <1>6 DEF PredictAndPostdot, AtCurrent
  <2>3. ASSUME NEW i \in Predictions(AtCurrent, current)
        PROVE  i.at = current /\ i.origin = current /\ i.ahm[2] = 0
    BY <2>1, PredictionsTypes, PredictionType, FirstAhmType
  <2>4. ItemsSpan'
    BY <2>1, <2>2, <2>3 DEF SpanInv, ItemsSpan
  <2>5. LimsSpan'
    BY <2>1, <2>2 DEF SpanInv, LimsSpan
  <2> QED
    BY <1>0, <2>1, <2>4, <2>5 DEF SpanInv
<1>7. ASSUME NEW n \in newLims, PopulateLim(n) PROVE SpanInv'
  <2>1. pc = "leo" /\ current \in Nat /\ UNCHANGED <<pc, current, items>>
    BY <1>0, <1>7, CurrentType DEF PopulateLim, inputVars
  <2>2. /\ n.at = current /\ n.base \in items /\ n.base.at = current
        /\ PostdotIs(n.base.ahm, n.sym) /\ n.base.origin \in Nat
        /\ n.base.origin <= n.base.at
    BY <1>0, ItemTypes DEF TypeInv, TypeOK, CallState, SpanInv, ItemsSpan
  <2>3. ASSUME NEW l \in lims', l \notin lims
        PROVE  /\ l.at = current /\ l.origin <= l.at
               /\ l.base \in items /\ l.base.at = l.at /\ PostdotIs(l.base.ahm, l.sym)
    <3>1. CASE \E p \in PredecessorOf(n) :
                  l = Populated(n, p.top, p.origin, MergedCil(p, Trailhead(n)))
      <4>1. PICK p \in PredecessorOf(n) : l.origin = p.origin
        BY <3>1 DEF Populated
      <4>2. p.at = n.base.origin /\ p.origin <= p.at /\ p.origin \in Nat
        BY <1>0 DEF PredecessorOf, LimsFor, SpanInv, LimsSpan, TypeInv, TypeOK, Lim
      <4> QED
        BY <2>1, <2>2, <3>1, <4>1, <4>2 DEF Populated
    <3>2. CASE l = Populated(n, Trailhead(n), n.base.origin, EventAhms(Trailhead(n)))
      BY <2>2, <3>2 DEF Populated
    <3> QED
      BY <1>7, <2>3, <3>1, <3>2 DEF PopulateLim
  <2>4. ItemsSpan'
    BY <2>1 DEF SpanInv, ItemsSpan
  <2>5. LimsSpan'
    BY <2>1, <2>3 DEF SpanInv, LimsSpan
  <2> QED
    BY <1>0, <2>1, <2>4, <2>5 DEF SpanInv
<1>8. CASE UNCHANGED <<current, items, lims>> /\ UNCHANGED pc
  BY <1>0, <1>8 DEF SpanInv, ItemsSpan, LimsSpan
<1>9. CASE UNCHANGED <<current, items, lims>> /\ EndScan
  BY <1>0, <1>9 DEF SpanInv, ItemsSpan, LimsSpan, EndScan
<1>10. CASE UNCHANGED <<current, items, lims>> /\ EndEarleySet
  BY <1>0, <1>10 DEF SpanInv, ItemsSpan, LimsSpan, EndEarleySet
<1> QED
  BY <1>0, <1>1, <1>2, <1>3, <1>4, <1>5, <1>6, <1>7, <1>8, <1>9, <1>10, OtherSteps

\* SpanInv holds in every reachable state.
LEMMA SpanCorrect == Spec => []SpanInv
<1>1. Init => SpanInv
  BY SpanInit
<1>2. SpanInv /\ [Next]_vars => SpanInv'
  BY SpanStep
<1> QED
  BY <1>1, <1>2, PTL DEF Spec

\* The completion loop looks only into sets whose postdot items are made.
THEOREM CompletionsSpan == Spec => []CompletionsSpanInput
<1>1. SpanInv => CompletionsSpanInput
  <2> SUFFICES ASSUME SpanInv, NEW i \in items
               PROVE  i.origin <= i.at /\ (IsCompletion(i.ahm) => i.origin < i.at)
    BY DEF CompletionsSpanInput
  <2>1. i.ahm \in Ahm
    BY ItemTypes DEF SpanInv, InputInv, TypeInv, TypeOK
  <2>2. IsCompletion(i.ahm) => i.ahm[2] > 0
    BY <2>1, AhmTypes, RuleTypes DEF IsCompletion
  <2> QED
    BY <2>2 DEF SpanInv, ItemsSpan
<1> QED
  BY <1>1, SpanCorrect, PTL

-----------------------------------------------------------------------------
(***************************************************************************)
(* The prediction closure.                                                 *)
(***************************************************************************)

\* A symbol predicts itself, and what it predicts is closed.
LEMMA PredictedAreClosed ==
    ASSUME NEW s \in Symbol
    PROVE  /\ s \in PredictedSymbols[s] /\ PredictedSymbols[s] \subseteq Symbol
           /\ \A r \in Rule : Lhs(r) \in PredictedSymbols[s] =>
                 FirstSymbol(r) \in PredictedSymbols[s]
<1>1. PredictedSymbols[s] =
         {t \in Symbol : \A C \in SUBSET Symbol : PredictionClosed(s, C) => t \in C}
  BY DEF PredictedSymbols
<1>2. s \in PredictedSymbols[s]
  BY <1>1 DEF PredictionClosed
<1>3. ASSUME NEW r \in Rule, Lhs(r) \in PredictedSymbols[s]
      PROVE  FirstSymbol(r) \in PredictedSymbols[s]
  <2>1. FirstSymbol(r) \in Symbol
    BY RuleTypes DEF FirstSymbol
  <2>2. ASSUME NEW C \in SUBSET Symbol, PredictionClosed(s, C)
        PROVE  FirstSymbol(r) \in C
    BY <1>1, <1>3, <2>2 DEF PredictionClosed
  <2> QED
    BY <1>1, <2>1, <2>2
<1> QED
  BY <1>1, <1>2, <1>3

\* It is the least closed set.
LEMMA PredictedAreLeast ==
    ASSUME NEW s \in Symbol, NEW C \in SUBSET Symbol, PredictionClosed(s, C)
    PROVE  PredictedSymbols[s] \subseteq C
BY DEF PredictedSymbols

\* A symbol predicted by another one stands first in a rule that is predicted.
LEMMA PredictedStandsFirst ==
    ASSUME NEW s \in Symbol, NEW t \in PredictedSymbols[s], t # s
    PROVE  \E q \in PredictedRules[s] : q \in Rule /\ FirstSymbol(q) = t
<1> SUFFICES ASSUME \A q \in PredictedRules[s] : q \in Rule => FirstSymbol(q) # t
             PROVE  FALSE
  OBVIOUS
<1> DEFINE C == PredictedSymbols[s] \ {t}
<1>1. PredictedRules[s] = {r \in Rule : Lhs(r) \in PredictedSymbols[s]}
  BY DEF PredictedRules
<1>2. C \in SUBSET Symbol /\ PredictionClosed(s, C)
  BY <1>1, PredictedAreClosed DEF PredictionClosed
<1> QED
  BY <1>2, PredictedAreLeast

\* Prediction is transitive.
LEMMA PredictedTransitively ==
    ASSUME NEW s \in Symbol, NEW t \in PredictedSymbols[s]
    PROVE  PredictedSymbols[t] \subseteq PredictedSymbols[s]
<1>1. t \in Symbol /\ PredictionClosed(t, PredictedSymbols[s])
  BY PredictedAreClosed DEF PredictionClosed
<1> QED
  BY <1>1, PredictedAreClosed, PredictedAreLeast

\* The initial rules are closed under prediction past the barred ones.
LEMMA InitialAreClosed ==
    /\ InitialRules \subseteq Rule
    /\ \A r \in Rule \ G.barred :
          (\/ Lhs(r) = FirstSymbol(G.startRule)
           \/ \E q \in InitialRules : Lhs(r) = FirstSymbol(q)) => r \in InitialRules
BY DEF InitialRules

\* An initial rule is reached from the start rule or from another initial rule.
LEMMA InitialAreReached ==
    ASSUME NEW r \in InitialRules
    PROVE  /\ r \in Rule \ G.barred
           /\ \E q \in InitialRules \cup {G.startRule} : FirstSymbol(q) = Lhs(r)
<1> DEFINE Reached(q) == \/ Lhs(q) = FirstSymbol(G.startRule)
                         \/ \E p \in InitialRules : Lhs(q) = FirstSymbol(p)
           R == {q \in InitialRules : q \notin G.barred /\ Reached(q)}
<1>1. R \in SUBSET Rule
  BY InitialAreClosed
<1>2. \A q \in Rule \ G.barred :
          (Lhs(q) = FirstSymbol(G.startRule) \/ \E p \in R : Lhs(q) = FirstSymbol(p))
             => q \in R
  BY InitialAreClosed
<1>3. r \in R
  BY <1>1, <1>2 DEF InitialRules
<1> QED
  BY <1>3, InitialAreClosed

-----------------------------------------------------------------------------
(***************************************************************************)
(* Finished sets do not change.                                            *)
(***************************************************************************)

\* After the start, items are added while a set is scanned and completed, and Leo
\* items while they are populated, all of them to the current set.
LEMMA ChartFrozen ==
    ASSUME SpanInv, [Next]_vars, phase # "before"
    PROVE  /\ items \subseteq items' /\ lims \subseteq lims' /\ tokenLinks \subseteq tokenLinks'
           /\ phase' # "before"
           /\ items' # items =>
                 /\ pc \in {"scan", "complete"} /\ current' = current
                 /\ \A i \in items' \ items : i.at = current
           /\ lims' # lims =>
                 /\ pc = "leo" /\ pc' = "leo" /\ current' = current
                 /\ \A l \in lims' \ lims : l.at = current
           /\ current' >= current
<1>0. SpanInv' /\ TypeInv /\ InputInv /\ TypeInv'
  BY SpanStep, TypeStep DEF SpanInv, InputInv
<1>1. items \subseteq items'
  BY <1>0, ChartGrows
<1>2. current \in Int /\ phase' # "before" /\ ~ StartInput
  <2>1. current \in Int /\ ~ StartInput
    BY <1>0 DEF TypeInv, TypeOK, StartInput
  <2>2. phase' # "before"
    BY <1>0, <2>1, OtherSteps
    DEF Next, SettingCall, UseLeoSet, Activate, Deactivate, ExpectedEventSet, StartInputAgain,
        Alternative, RefuseToken, RejectToken, InsertToken, EarlemeComplete, CompleteRefused,
        CompletePastFurthest, CompleteGap, BeginEarleySet, InternalStep, ScanToken, EndScan,
        CompleteByLeo, CompleteByEarley, PredictAndPostdot, PopulateLim, EndEarleySet, vars
  <2> QED
    BY <2>1, <2>2
<1>3. CASE EarlemeStep
  BY <1>0, <1>1, <1>2, <1>3, EarlemeSteps DEF linkVars
<1>4. ASSUME NEW a \in alternatives, ScanToken(a)
      PROVE  /\ pc = "scan" /\ current' = current /\ lims' = lims
             /\ tokenLinks \subseteq tokenLinks'
             /\ \A i \in items' \ items : i.at = current
  BY <1>4 DEF ScanToken, Advance
<1>5. ASSUME NEW cause \in stack, CompleteByLeo(cause)
      PROVE  /\ pc = "complete" /\ current' = current /\ lims' = lims
             /\ tokenLinks' = tokenLinks
             /\ \A i \in items' \ items : i.at = current
  BY <1>5 DEF CompleteByLeo, LeoEffect, inputVars
<1>6. ASSUME NEW cause \in stack, CompleteByEarley(cause)
      PROVE  /\ pc = "complete" /\ current' = current /\ lims' = lims
             /\ tokenLinks' = tokenLinks
             /\ \A i \in items' \ items : i.at = current
  BY <1>6 DEF CompleteByEarley, Advance, inputVars
<1>7. ASSUME PredictAndPostdot
      PROVE  /\ pc = "complete" /\ current' = current /\ lims' = lims
             /\ tokenLinks' = tokenLinks
             /\ \A i \in items' \ items : i.at = current
  <2>1. current \in Nat
    BY <1>0, <1>7, CurrentType DEF PredictAndPostdot
  <2> QED
    BY <1>7, <2>1, PredictionsTypes DEF PredictAndPostdot, AtCurrent, inputVars, linkVars
<1>8. ASSUME NEW n \in newLims, PopulateLim(n)
      PROVE  /\ pc = "leo" /\ pc' = "leo" /\ current' = current /\ items' = items
             /\ tokenLinks' = tokenLinks /\ lims \subseteq lims'
             /\ \A l \in lims' \ lims : l.at = current
  BY <1>0, <1>8 DEF PopulateLim, Populated, TypeInv, CallState, inputVars, linkVars
<1>9. CASE UNCHANGED <<current, sets, items, lims, newLims, linkVars>>
  BY <1>1, <1>2, <1>9 DEF linkVars
<1> QED
  BY <1>0, <1>1, <1>2, <1>3, <1>4, <1>5, <1>6, <1>7, <1>8, <1>9, OtherSteps

\* Finished sets are never changed again: SetsAreFrozen, for every grammar.
THEOREM SetsFrozen == Spec => SetsAreFrozen
<1> DEFINE Frozen == /\ items \subseteq items' /\ lims \subseteq lims'
                     /\ \A i \in items' \ items :
                           i.at = current' /\ (pc # "idle" \/ phase = "before")
                     /\ \A l \in lims' \ lims : l.at = current /\ pc = "leo"
<1>1. SpanInv /\ [Next]_vars => [Frozen]_vars
  <2> SUFFICES ASSUME SpanInv, [Next]_vars PROVE Frozen
    OBVIOUS
  <2>1. TypeInv
    BY DEF SpanInv, InputInv
  <2>2. CASE phase # "before"
    BY <2>2, ChartFrozen
  <2>3. CASE phase = "before"
    <3>1. items = {} /\ lims = {} /\ stack = {} /\ newLims = {} /\ alternatives = {} /\ pc = "idle"
      BY <2>1, <2>3 DEF TypeInv, NothingBefore, BuiltDuringInput
    <3>2. CASE StartInput
      BY <2>3, <3>1, <3>2, StartItemsSpan DEF StartInput
    <3>3. CASE ~ StartInput
      BY <2>1, <2>3, <3>1, <3>3, OtherSteps
      DEF EarlemeStep, CompletePastFurthest, CompleteGap, BeginEarleySet, PredictAndPostdot
    <3> QED
      BY <3>2, <3>3
  <2> QED
    BY <2>2, <2>3
<1> QED
  BY <1>1, SpanCorrect, PTL DEF Spec, SetsAreFrozen

\* Nothing is added to a set before the current one, and items only while the set
\* is scanned and completed.
LEMMA PimsFrozen ==
    ASSUME SpanInv, [Next]_vars, phase # "before", NEW e, NEW s,
           e # current \/ pc \in {"idle", "leo"}
    PROVE  Pims(e, s)' = Pims(e, s)
BY ChartFrozen DEF Pims

\* Nor are Leo items, but while they are populated.
LEMMA LimsFrozen ==
    ASSUME SpanInv, [Next]_vars, phase # "before", NEW e, NEW s,
           e # current \/ pc # "leo"
    PROVE  LimsFor(e, s)' = LimsFor(e, s)
BY ChartFrozen DEF LimsFor

-----------------------------------------------------------------------------
(***************************************************************************)
(* Every item waits on something: PredecessorExists.  A Leo item promises  *)
(* an item with its top and its origin, so these need something to wait on *)
(* as well.                                                                *)
(***************************************************************************)
LimsWait ==
    \A l \in lims : RuleOf(l.top) # G.startRule => Pims(l.origin, LhsOf(l.top)) # {}

WaitInv == PredecessorExists /\ LimsWait

\* The empty chart waits for nothing.
LEMMA WaitInit == Init => WaitInv
BY DEF Init, WaitInv, PredecessorExists, LimsWait

\* The rule of an item does not change as its dot moves.
LEMMA AdvanceRule ==
    ASSUME NEW i \in Item, ~ IsCompletion(i.ahm), NEW e \in Nat
    PROVE  /\ RuleOf(Advance(i, e).ahm) = RuleOf(i.ahm)
           /\ LhsOf(Advance(i, e).ahm) = LhsOf(i.ahm)
           /\ Advance(i, e).origin = i.origin
BY ItemTypes, NextAhmType DEF Advance, LhsOf

\* What waits goes on waiting, so it is enough to look at what a step adds.
LEMMA WaitGrows ==
    ASSUME SpanInv, [Next]_vars, WaitInv,
           \A i \in items' \ items :
              RuleOf(i.ahm) # G.startRule => Pims(i.origin, LhsOf(i.ahm))' # {},
           \A l \in lims' \ lims :
              RuleOf(l.top) # G.startRule => Pims(l.origin, LhsOf(l.top)) # {}
    PROVE  WaitInv'
<1>1. \A e, s : Pims(e, s) \subseteq Pims(e, s)'
  BY PimsGrow DEF SpanInv, InputInv
<1>2. PredecessorExists'
  BY <1>1 DEF WaitInv, PredecessorExists
<1>3. LimsWait'
  BY <1>1 DEF WaitInv, LimsWait
<1> QED
  BY <1>2, <1>3 DEF WaitInv

\* An initial item waits on another one or on the start item.
LEMMA WaitStart ==
    ASSUME NEW i \in StartItems, RuleOf(i.ahm) # G.startRule
    PROVE  \E j \in StartItems : j.at = i.origin /\ PostdotIs(j.ahm, LhsOf(i.ahm))
<1>1. PICK r \in InitialRules : i = Prediction(r, 0)
  BY RuleTypes, PredictionType, FirstAhmType DEF StartItems
<1>2. PICK q \in InitialRules \cup {G.startRule} : FirstSymbol(q) = Lhs(r)
  BY InitialAreReached
<1>3. r \in Rule /\ q \in Rule
  BY RuleTypes, InitialAreClosed
<1>4. i.origin = 0 /\ LhsOf(i.ahm) = Lhs(r)
  BY <1>1, <1>3, PredictionType, FirstAhmType DEF LhsOf
<1>5. Prediction(q, 0) \in StartItems /\ Prediction(q, 0).at = 0
      /\ PostdotIs(Prediction(q, 0).ahm, FirstSymbol(q))
  BY <1>3, PredictionType, FirstAhmType DEF StartItems
<1> QED
  BY <1>2, <1>4, <1>5

\* A predicted item waits on an item of its own set.
LEMMA WaitPrediction ==
    ASSUME SpanInv, PredictAndPostdot, NEW i \in items' \ items
    PROVE  Pims(i.origin, LhsOf(i.ahm))' # {}
<1>1. current \in Nat /\ items' = items \cup AtCurrent \cup Predictions(AtCurrent, current)
  BY CurrentType DEF SpanInv, InputInv, PredictAndPostdot
<1>2. i \in Predictions(AtCurrent, current)
  BY <1>1 DEF AtCurrent
<1>3. PICK s \in PostdotSymbols(AtCurrent), r \in Rule :
          r \in PredictedRules[s] /\ i = Prediction(r, current)
  BY <1>1, <1>2, PredictionsTypes
<1>4. s \in Symbol /\ Lhs(r) \in PredictedSymbols[s]
  BY <1>3 DEF PostdotSymbols, PredictedRules
<1>5. i.origin = current /\ LhsOf(i.ahm) = Lhs(r)
  BY <1>1, <1>3, PredictionType, FirstAhmType DEF LhsOf
<1>6. CASE Lhs(r) = s
  <2>1. PICK j \in AtCurrent : PostdotIs(j.ahm, s)
    BY <1>3 DEF PostdotSymbols
  <2> QED
    BY <1>1, <1>5, <1>6, <2>1 DEF Pims, AtCurrent
<1>7. CASE Lhs(r) # s
  <2>1. PICK q \in PredictedRules[s] : q \in Rule /\ FirstSymbol(q) = Lhs(r)
    BY <1>4, <1>7, PredictedStandsFirst
  <2>2. Prediction(q, current) \in items'
    BY <1>1, <1>3, <2>1 DEF Predictions
  <2>3. Prediction(q, current).at = current
        /\ PostdotIs(Prediction(q, current).ahm, FirstSymbol(q))
    BY <1>1, <2>1, PredictionType, FirstAhmType
  <2> QED
    BY <1>5, <2>1, <2>2, <2>3 DEF Pims
<1> QED
  BY <1>6, <1>7

\* An item that is advanced waits on what it waited on before.
LEMMA WaitAdvanced ==
    ASSUME SpanInv, WaitInv, [Next]_vars, pc # "idle", lims' = lims, NEW e, NEW s,
           items' = items \cup {Advance(i, current) : i \in Pims(e, s)}
    PROVE  WaitInv'
<1>1. current \in Nat /\ TypeInv
  BY CurrentType DEF SpanInv, InputInv
<1>2. ASSUME NEW i \in items' \ items, RuleOf(i.ahm) # G.startRule
      PROVE  Pims(i.origin, LhsOf(i.ahm))' # {}
  <2>1. PICK j \in Pims(e, s) : i = Advance(j, current)
    BY <1>2
  <2>2. j \in items /\ j \in Item /\ ~ IsCompletion(j.ahm)
    BY <1>1, PimsTypes
  <2>3. RuleOf(j.ahm) = RuleOf(i.ahm) /\ LhsOf(j.ahm) = LhsOf(i.ahm) /\ i.origin = j.origin
    BY <1>1, <2>1, <2>2, AdvanceRule
  <2>4. Pims(i.origin, LhsOf(i.ahm)) # {}
    BY <1>2, <2>2, <2>3 DEF WaitInv, PredecessorExists
  <2> QED
    BY <1>1, <2>4, PimsGrow
<1> QED
  BY <1>2, WaitGrows

\* Each step keeps WaitInv: who makes an item leaves the item that waits for it where it was.
LEMMA WaitStep ==
    ASSUME SpanInv, WaitInv, [Next]_vars PROVE WaitInv'
<1>0. TypeInv /\ TypeOK
  BY DEF SpanInv, InputInv, TypeInv
<1>1. CASE StartInput
  <2>1. items' = StartItems /\ lims' = {}
    BY <1>0, <1>1 DEF StartInput, TypeInv, NothingBefore
  <2> QED
    BY <2>1, WaitStart DEF WaitInv, PredecessorExists, LimsWait, Pims
<1>2. CASE EarlemeStep
  BY <1>2, EarlemeSteps, WaitGrows DEF SpanInv
<1>3. ASSUME NEW a \in alternatives, ScanToken(a) PROVE WaitInv'
  BY <1>3, WaitAdvanced DEF ScanToken
<1>4. ASSUME NEW cause \in stack, CompleteByLeo(cause) PROVE WaitInv'
  <2>1. PICK l \in LimsFor(cause.origin, LhsOf(cause.ahm)) :
            items' = items \cup {LeoEffect(l)} /\ lims' = lims
    BY <1>4 DEF CompleteByLeo
  <2>2. l \in lims /\ LeoEffect(l).ahm = l.top /\ LeoEffect(l).origin = l.origin
    BY DEF LimsFor, LeoEffect
  <2>3. RuleOf(l.top) # G.startRule => Pims(l.origin, LhsOf(l.top))' # {}
    BY <1>0, <2>2, PimsGrow DEF WaitInv, LimsWait
  <2> QED
    BY <2>1, <2>2, <2>3, WaitGrows
<1>5. ASSUME NEW cause \in stack, CompleteByEarley(cause) PROVE WaitInv'
  BY <1>5, WaitAdvanced DEF CompleteByEarley
<1>6. CASE PredictAndPostdot
  <2>1. lims' = lims
    BY <1>6 DEF PredictAndPostdot
  <2> QED
    BY <1>6, <2>1, WaitPrediction, WaitGrows
<1>7. ASSUME NEW n \in newLims, PopulateLim(n) PROVE WaitInv'
  <2>1. items' = items /\ n.base \in items /\ n.base \in Item /\ ~ IsCompletion(n.base.ahm)
    BY <1>0, <1>7, ItemTypes, PostdotType DEF PopulateLim, TypeInv, TypeOK, CallState
  <2>2. RuleOf(Trailhead(n)) = RuleOf(n.base.ahm) /\ LhsOf(Trailhead(n)) = LhsOf(n.base.ahm)
    BY <2>1, ItemTypes, NextAhmType DEF Trailhead, LhsOf
  <2>3. RuleOf(Trailhead(n)) # G.startRule => Pims(n.base.origin, LhsOf(Trailhead(n))) # {}
    BY <2>1, <2>2 DEF WaitInv, PredecessorExists
  <2>4. ASSUME NEW l \in lims' \ lims, RuleOf(l.top) # G.startRule
        PROVE  Pims(l.origin, LhsOf(l.top)) # {}
    <3>1. CASE l = Populated(n, Trailhead(n), n.base.origin, EventAhms(Trailhead(n)))
      BY <2>3, <2>4, <3>1 DEF Populated
    <3>2. CASE \E p \in PredecessorOf(n) :
                  l = Populated(n, p.top, p.origin, MergedCil(p, Trailhead(n)))
      BY <2>4, <3>2 DEF Populated, PredecessorOf, LimsFor, WaitInv, LimsWait
    <3> QED
      BY <1>7, <3>1, <3>2 DEF PopulateLim
  <2> QED
    BY <2>1, <2>4, WaitGrows
<1>8. CASE UNCHANGED <<items, lims>>
  BY <1>8, WaitGrows
<1> QED
  BY <1>0, <1>1, <1>2, <1>3, <1>4, <1>5, <1>6, <1>7, <1>8, OtherSteps

\* The predecessor of every item is there: the lookup of marpa_r_earleme_complete
\* that does not test for a postdot item always finds one.
THEOREM PredecessorsExist == Spec => []PredecessorExists
<1>1. Init => WaitInv
  BY WaitInit
<1>2. SpanInv /\ WaitInv /\ [Next]_vars => WaitInv'
  BY WaitStep
<1>3. WaitInv => PredecessorExists
  BY DEF WaitInv
<1> QED
  BY <1>1, <1>2, <1>3, SpanCorrect, PTL DEF Spec

-----------------------------------------------------------------------------
(***************************************************************************)
(* Prediction.  A set that is done holds what its items predict, and what  *)
(* it predicts is predicted by an item whose dot has moved; set 0 holds    *)
(* the initial items.                                                      *)
(***************************************************************************)
Done(e) == e < current \/ pc \in {"leo", "idle"}

StartSet == phase # "before" => {i \in items : i.at = 0} = StartItems

PredictionsClosed ==
    \A i \in items, s \in Symbol :
        Done(i.at) /\ i.at > 0 /\ PostdotIs(i.ahm, s) =>
            \A r \in PredictedRules[s] : Prediction(r, i.at) \in items

PredictionsBacked ==
    \A i \in items : i.at > 0 /\ i.ahm[2] = 0 =>
        \E j \in items, s \in Symbol :
            /\ j.at = i.at /\ j.ahm[2] > 0
            /\ PostdotIs(j.ahm, s) /\ RuleOf(i.ahm) \in PredictedRules[s]

PredictInv == StartSet /\ PredictionsClosed /\ PredictionsBacked

\* The empty chart has no prediction.
LEMMA PredictInit == Init => PredictInv
BY DEF Init, PredictInv, StartSet, PredictionsClosed, PredictionsBacked

\* A step that adds moved dots to an unfinished set, and finishes no set.
LEMMA PredictMoved ==
    ASSUME SpanInv, SpanInv', [Next]_vars, PredictInv, phase # "before",
           \A i \in items' \ items : i.ahm[2] > 0 /\ ~ Done(i.at)',
           \A i \in items : Done(i.at)' => Done(i.at)
    PROVE  PredictInv'
<1>1. /\ items \subseteq items' /\ phase' # "before"
      /\ items' # items => pc \in {"scan", "complete"} /\ current' = current
      /\ \A i \in items' \ items : i.at = current
  BY ChartFrozen
<1>2. StartSet'
  <2>1. \A i \in items' \ items : i.at # 0
    BY <1>1 DEF SpanInv
  <2>2. StartItems' = StartItems
    BY DEF StartItems, Prediction
  <2> QED
    BY <1>1, <2>1, <2>2 DEF PredictInv, StartSet
<1>3. PredictionsClosed'
  BY <1>1 DEF PredictInv, PredictionsClosed
<1>4. PredictionsBacked'
  BY <1>1 DEF PredictInv, PredictionsBacked
<1> QED
  BY <1>2, <1>3, <1>4 DEF PredictInv

\* Prediction keeps PredictInv: each is backed by the items that made it.
LEMMA PredictPredict ==
    ASSUME SpanInv, SpanInv', [Next]_vars, PredictInv, PredictAndPostdot
    PROVE  PredictInv'
<1> DEFINE P == Predictions(AtCurrent, current)
<1>1. /\ current \in Nat /\ current > 0 /\ phase = "during" /\ pc = "complete" /\ pc' = "leo"
      /\ current' = current /\ phase' = phase /\ items' = items \cup P
  BY CurrentType DEF SpanInv, InputInv, PredictAndPostdot, AtCurrent, inputVars
<1>2. \A i \in P : i \in Item /\ i.at = current
  BY <1>1, PredictionsTypes
<1>3. \A i \in items : i \in Item /\ i.at <= current /\ (i.at = current => i.ahm[2] > 0)
  BY <1>1 DEF SpanInv, ItemsSpan, InputInv, TypeInv, TypeOK
<1>4. StartSet'
  <2>1. StartItems' = StartItems
    BY DEF StartItems, Prediction
  <2> QED
    BY <1>1, <1>2, <2>1 DEF PredictInv, StartSet
<1>5. ASSUME NEW i \in items', NEW s \in Symbol, i.at > 0, PostdotIs(i.ahm, s),
             NEW r \in PredictedRules[s]
      PROVE  Prediction(r, i.at) \in items'
  <2>1. CASE i \in items /\ i.at < current
    BY <1>1, <1>5, <2>1 DEF PredictInv, PredictionsClosed, Done
  <2>2. CASE i \in items /\ i.at = current
    BY <1>1, <1>5, <2>2 DEF Predictions, PostdotSymbols, AtCurrent
  <2>3. CASE i \in P
    <3>1. PICK t \in PostdotSymbols(AtCurrent), q \in Rule :
              q \in PredictedRules[t] /\ i = Prediction(q, current)
      BY <1>1, <2>3, PredictionsTypes
    <3>2. t \in Symbol /\ Lhs(q) \in PredictedSymbols[t]
      BY <3>1 DEF PostdotSymbols, PredictedRules
    <3>3. s = FirstSymbol(q)
      BY <1>1, <1>5, <3>1, PredictionType, FirstAhmType DEF PostdotIs
    <3>4. s \in PredictedSymbols[t]
      BY <3>2, <3>3, PredictedAreClosed
    <3>5. r \in PredictedRules[t]
      BY <3>2, <3>4, PredictedTransitively DEF PredictedRules
    <3> QED
      BY <1>1, <1>2, <2>3, <3>1, <3>5 DEF Predictions
  <2> QED
    BY <1>1, <1>3, <1>5, <2>1, <2>2, <2>3, ItemTypes
<1>6. PredictionsClosed'
  BY <1>1, <1>5 DEF PredictionsClosed
<1>7. ASSUME NEW i \in P
      PROVE  \E j \in items', s \in Symbol :
                /\ j.at = i.at /\ j.ahm[2] > 0
                /\ PostdotIs(j.ahm, s) /\ RuleOf(i.ahm) \in PredictedRules[s]
  <2>1. PICK s \in PostdotSymbols(AtCurrent), q \in Rule :
            q \in PredictedRules[s] /\ i = Prediction(q, current)
    BY <1>1, PredictionsTypes
  <2>2. PICK j \in AtCurrent : PostdotIs(j.ahm, s)
    BY <2>1 DEF PostdotSymbols
  <2>3. RuleOf(i.ahm) = q /\ s \in Symbol
    BY <1>1, <2>1, PredictionType, FirstAhmType DEF PostdotSymbols
  <2> QED
    BY <1>1, <1>2, <1>3, <2>1, <2>2, <2>3 DEF AtCurrent
<1>8. PredictionsBacked'
  BY <1>1, <1>3, <1>7 DEF PredictInv, PredictionsBacked
<1> QED
  BY <1>4, <1>6, <1>8 DEF PredictInv

\* Each step keeps PredictInv.
LEMMA PredictStep ==
    ASSUME SpanInv, PredictInv, [Next]_vars PROVE PredictInv'
<1>0. TypeInv /\ TypeInv' /\ SpanInv'
  BY SpanStep, TypeStep DEF SpanInv, InputInv
<1>1. CASE phase = "before"
  <2>1. items = {} /\ stack = {} /\ newLims = {} /\ alternatives = {} /\ pc = "idle"
    BY <1>0, <1>1 DEF TypeInv, NothingBefore, BuiltDuringInput
  <2>2. CASE StartInput
    <3>1. items' = StartItems /\ \A i \in StartItems : i.at = 0
      BY <2>2, StartItemsSpan DEF StartInput
    <3>2. StartItems' = StartItems
      BY DEF StartItems, Prediction
    <3> QED
      BY <3>1, <3>2 DEF PredictInv, StartSet, PredictionsClosed, PredictionsBacked
  <2>3. CASE ~ StartInput
    <3>1. items' = {}
      BY <1>0, <1>1, <2>1, <2>3, OtherSteps
      DEF EarlemeStep, CompletePastFurthest, CompleteGap, BeginEarleySet, PredictAndPostdot
    <3>2. phase' = "before"
      BY <1>1, <2>1, <2>3
      DEF Next, SettingCall, UseLeoSet, Activate, Deactivate, ExpectedEventSet, StartInputAgain,
          Alternative, RefuseToken, RejectToken, InsertToken, EarlemeComplete, CompleteRefused,
          CompletePastFurthest, CompleteGap, BeginEarleySet, InternalStep, EndScan,
          PredictAndPostdot, EndEarleySet, vars
    <3> QED
      BY <3>1, <3>2 DEF PredictInv, StartSet, PredictionsClosed, PredictionsBacked
  <2> QED
    BY <2>2, <2>3
<1>2. CASE phase # "before" /\ PredictAndPostdot
  BY <1>0, <1>2, PredictPredict
<1>3. CASE phase # "before" /\ ~ PredictAndPostdot
  <2>1. ~ StartInput
    BY <1>3 DEF StartInput
  <2>2. CASE EarlemeStep
    BY <1>0, <1>3, <2>2, EarlemeSteps, PredictMoved DEF SpanInv, Done
  <2>3. CASE (\E a \in alternatives : ScanToken(a))
              \/ \E cause \in stack : CompleteByLeo(cause) \/ CompleteByEarley(cause)
    <3>1. /\ pc \in {"scan", "complete"} /\ pc' = pc /\ current' = current
          /\ current \in Nat
      BY <1>0, <2>3, CurrentType DEF ScanToken, CompleteByLeo, CompleteByEarley, inputVars
    <3>2. \A i \in items' \ items : i.at = current
      BY <1>3, ChartFrozen
    <3>3. \A i \in items' \ items : i.ahm[2] > 0
      BY <1>0, <3>1, <3>2 DEF SpanInv, ItemsSpan
    <3> QED
      BY <1>0, <1>3, <3>1, <3>2, <3>3, PredictMoved DEF Done
  <2>4. CASE \E n \in newLims : PopulateLim(n)
    BY <1>0, <1>3, <2>4, PredictMoved DEF PopulateLim, Done, inputVars
  <2>5. CASE UNCHANGED <<current, items>> /\ (UNCHANGED pc \/ EndScan \/ EndEarleySet)
    BY <1>0, <1>3, <2>5, PredictMoved DEF EndScan, EndEarleySet, Done
  <2> QED
    BY <1>0, <1>3, <2>1, <2>2, <2>3, <2>4, <2>5, OtherSteps
<1> QED
  BY <1>1, <1>2, <1>3

-----------------------------------------------------------------------------
(***************************************************************************)
(* Leo items.  LimsFollow has the pending Leo items too: a Leo item that   *)
(* is populated without a predecessor must not get one later.              *)
(***************************************************************************)
LimsAlone ==
    \A l \in lims :
        /\ Pims(l.at, l.sym) = {l.base} /\ l.at > 0
        /\ \A m \in LimsFor(l.at, l.sym) : m = l

NewLimsAlone ==
    \A n \in newLims : Pims(n.at, n.sym) = {n.base} /\ LimsFor(n.at, n.sym) = {}

LimsFollow ==
    \A l \in lims :
        \/ /\ PredecessorOf(l) = {} /\ PendingPredecessorOf(l) = {}
           /\ l.top = Trailhead(l) /\ l.origin = l.base.origin
        \/ \E p \in PredecessorOf(l) : l.top = p.top /\ l.origin = p.origin

LeoInv == LimsAlone /\ NewLimsAlone /\ LimsFollow

\* The empty chart has no Leo item.
LEMMA LeoInit == Init => LeoInv
BY DEF Init, LeoInv, LimsAlone, NewLimsAlone, LimsFollow

\* An item is at the dot of one symbol only.
LEMMA PostdotUnique ==
    ASSUME NEW a, NEW s, NEW t, PostdotIs(a, s), PostdotIs(a, t) PROVE s = t
BY DEF PostdotIs

\* A pending Leo item whose predecessor is pending rests on a predicted item.
LEMMA PendingIsPredicted ==
    ASSUME SpanInv, NEW n \in newLims, PendingPredecessorOf(n) # {}
    PROVE  /\ n.base \in items /\ n.base.at = current /\ n.base.ahm[2] = 0
           /\ RuleOf(n.base.ahm) \in Rule /\ FirstSymbol(RuleOf(n.base.ahm)) = n.sym
           /\ PostdotIs(n.base.ahm, n.sym)
           /\ \E m \in newLims : m.sym = Lhs(RuleOf(n.base.ahm))
<1>1. PICK m \in newLims : m.at = n.base.origin /\ m.sym = LhsOf(n.base.ahm)
  BY DEF PendingPredecessorOf
<1>2. /\ n.base \in items /\ n.base \in Item /\ n.base.at = current /\ m.at = current
      /\ PostdotIs(n.base.ahm, n.sym)
  BY DEF SpanInv, InputInv, TypeInv, TypeOK, CallState
<1>3. n.base.ahm \in Ahm
  BY <1>2, ItemTypes
<1>4. n.base.ahm[2] = 0
  <2>1. n.base.ahm[2] \in Nat /\ n.base.at \in Nat
    BY <1>2, <1>3, ItemTypes, AhmTypes
  <2>2. n.base.ahm[2] > 0 => n.base.origin < n.base.at
    BY <1>2 DEF SpanInv, ItemsSpan
  <2> QED
    BY <1>1, <1>2, <2>1, <2>2
<1>5. n.base.ahm = FirstAhm(RuleOf(n.base.ahm)) /\ RuleOf(n.base.ahm) \in Rule
  BY <1>3, <1>4, AhmTypes DEF FirstAhm
<1>6. FirstSymbol(RuleOf(n.base.ahm)) = n.sym
  BY <1>2, <1>5, FirstAhmType, PostdotUnique
<1> QED
  BY <1>1, <1>2, <1>4, <1>5, <1>6 DEF LhsOf

\* Some pending Leo item has no pending predecessor: a circle of them would be one
\* of predicted items that nothing outside of it predicts.
LEMMA ChainsEnd ==
    ASSUME SpanInv, PredictInv, LeoInv, pc = "leo", newLims # {}
    PROVE  \E m \in newLims : PendingPredecessorOf(m) = {}
<1> SUFFICES ASSUME \A m \in newLims : PendingPredecessorOf(m) # {} PROVE FALSE
  OBVIOUS
<1> DEFINE K == {m.sym : m \in newLims}
<1>1. current \in Nat /\ current > 0 /\ \A n \in newLims : n.at = current
  BY CurrentType DEF SpanInv, InputInv, TypeInv, CallState
<1>2. PICK n \in newLims : TRUE
  OBVIOUS
<1>3. \A m \in newLims : /\ m.base \in items /\ m.base.at = current /\ m.base.ahm[2] = 0
                         /\ RuleOf(m.base.ahm) \in Rule
                         /\ FirstSymbol(RuleOf(m.base.ahm)) = m.sym
                         /\ Lhs(RuleOf(m.base.ahm)) \in K
  BY PendingIsPredicted
<1>4. \A m \in newLims, i \in items :
          i.at = current /\ PostdotIs(i.ahm, m.sym) => i = m.base
  BY <1>1 DEF LeoInv, NewLimsAlone, Pims
<1>5. PICK j \in items, s \in Symbol :
          /\ j.at = current /\ j.ahm[2] > 0
          /\ PostdotIs(j.ahm, s) /\ RuleOf(n.base.ahm) \in PredictedRules[s]
  BY <1>1, <1>3 DEF PredictInv, PredictionsBacked
<1>6. s \notin K
  BY <1>3, <1>4, <1>5
<1>7. Lhs(RuleOf(n.base.ahm)) \in PredictedSymbols[s]
  BY <1>5 DEF PredictedRules
<1>8. PredictionClosed(s, PredictedSymbols[s] \ K)
  <2>1. ASSUME NEW q \in Rule, Lhs(q) \in PredictedSymbols[s] \ K
        PROVE  FirstSymbol(q) \in PredictedSymbols[s] \ K
    <3>1. q \in PredictedRules[s] /\ FirstSymbol(q) \in PredictedSymbols[s]
      BY <2>1, PredictedAreClosed DEF PredictedRules
    <3>2. Prediction(q, current) \in items
      BY <1>1, <1>5, <3>1 DEF PredictInv, PredictionsClosed, Done
    <3>3. ASSUME NEW m \in newLims, m.sym = FirstSymbol(q) PROVE FALSE
      <4>1. Prediction(q, current) = m.base /\ RuleOf(Prediction(q, current).ahm) = q
        BY <1>1, <1>4, <3>2, <3>3, PredictionType, FirstAhmType
      <4> QED
        BY <1>3, <2>1, <4>1
    <3> QED
      BY <3>1, <3>3
  <2> QED
    BY <1>6, <2>1, PredictedAreClosed DEF PredictionClosed
<1>9. PredictedSymbols[s] \subseteq PredictedSymbols[s] \ K
  BY <1>8, PredictedAreClosed, PredictedAreLeast
<1> QED
  BY <1>2, <1>3, <1>7, <1>9

\* So the walk of a chain ends where it should.
LEMMA PopulatedLast ==
    ASSUME SpanInv, PredictInv, LeoInv, NEW n \in newLims, PopulateLim(n)
    PROVE  PendingPredecessorOf(n) = {}
BY ChainsEnd DEF PopulateLim, ChainEnds

\* A step that leaves Leo items alone and adds no item to their sets.
LEMMA LeoKept ==
    ASSUME SpanInv, [Next]_vars, LeoInv, phase # "before", lims' = lims, newLims' = newLims,
           newLims = {} \/ items' = items
    PROVE  LeoInv'
<1>1. ASSUME NEW l \in lims PROVE Pims(l.at, l.sym)' = Pims(l.at, l.sym)
  <2>1. l.at \in Nat /\ current \in Int
    BY DEF SpanInv, InputInv, TypeInv, TypeOK, Lim
  <2>2. pc \in {"scan", "complete"} => l.at # current
    BY <2>1 DEF SpanInv, LimsSpan
  <2> QED
    BY <2>2, ChartFrozen DEF Pims
<1>2. LimsAlone'
  BY <1>1 DEF LeoInv, LimsAlone, LimsFor
<1>3. NewLimsAlone'
  BY DEF LeoInv, NewLimsAlone, LimsFor, Pims
<1>4. LimsFollow'
  BY DEF LeoInv, LimsFollow, PredecessorOf, PendingPredecessorOf, LimsFor
<1> QED
  BY <1>2, <1>3, <1>4 DEF LeoInv

\* Prediction keeps LeoInv: the Leo items created stand for the only item that waits.
LEMMA LeoPredict ==
    ASSUME SpanInv, [Next]_vars, LeoInv, PredictAndPostdot PROVE LeoInv'
<1> DEFINE here == AtCurrent \cup Predictions(AtCurrent, current)
<1>1. /\ current \in Nat /\ current > 0 /\ phase = "during" /\ pc = "complete" /\ newLims = {}
      /\ current' = current /\ lims' = lims /\ items' = items \cup here
  BY CurrentType DEF SpanInv, InputInv, TypeInv, CallState, PredictAndPostdot, inputVars
<1>2. \A l \in lims : /\ l.at < current /\ l.base.at = l.at /\ l.base \in items
                      /\ l.base.origin <= l.base.at /\ l.at \in Nat /\ l.base.origin \in Nat
  BY <1>1, ItemTypes DEF SpanInv, LimsSpan, ItemsSpan, InputInv, TypeInv, TypeOK, Lim
<1>3. \A i \in items' : i.at = current <=> i \in here
  BY <1>1, PredictionsTypes DEF AtCurrent
<1>4. ASSUME NEW n \in newLims'
      PROVE  n.at = current /\ Pims(n.at, n.sym)' = {n.base}
  <2>1. PICK s \in Symbol : n \in LeoEligible(here, current, s)
    BY <1>4 DEF PredictAndPostdot
  <2>2. PICK b \in here : /\ n = [sym |-> s, at |-> current, base |-> b]
                          /\ PostdotIs(b.ahm, s)
                          /\ \A c \in here : PostdotIs(c.ahm, s) => c = b
    BY <2>1 DEF LeoEligible
  <2>3. n.at = current /\ n.sym = s /\ n.base = b
    BY <2>2
  <2> QED
    BY <1>1, <1>3, <2>2, <2>3 DEF Pims
<1>5. LimsAlone'
  <2>1. ASSUME NEW l \in lims PROVE Pims(l.at, l.sym)' = Pims(l.at, l.sym)
    BY <1>1, <1>2, ChartFrozen DEF Pims
  <2> QED
    BY <1>1, <2>1 DEF LeoInv, LimsAlone, LimsFor
<1>6. NewLimsAlone'
  <2>1. ASSUME NEW n \in newLims' PROVE LimsFor(n.at, n.sym)' = {}
    BY <1>1, <1>2, <1>4, <2>1 DEF LimsFor
  <2> QED
    BY <1>4, <2>1 DEF NewLimsAlone
<1>7. LimsFollow'
  <2>1. ASSUME NEW l \in lims PROVE PendingPredecessorOf(l)' = {}
    BY <1>1, <1>2, <1>4 DEF PendingPredecessorOf
  <2> QED
    BY <1>1, <2>1 DEF LeoInv, LimsFollow, PredecessorOf, LimsFor
<1> QED
  BY <1>5, <1>6, <1>7 DEF LeoInv

\* A Leo item that is populated takes the top of its predecessor, or its own base.
LEMMA LeoPopulate ==
    ASSUME SpanInv, [Next]_vars, PredictInv, LeoInv, NEW n \in newLims, PopulateLim(n)
    PROVE  LeoInv'
<1>1. /\ pc = "leo" /\ current \in Nat /\ current > 0 /\ current' = current /\ items' = items
      /\ newLims' = newLims \ {n} /\ n.at = current /\ newLims \subseteq NewLim
      /\ \A m \in newLims : m.at = current
  BY CurrentType DEF SpanInv, InputInv, TypeInv, TypeOK, CallState, PopulateLim, inputVars
<1>2. PICK l : /\ lims' = lims \cup {l}
               /\ l.sym = n.sym /\ l.at = n.at /\ l.base = n.base
               /\ \/ \E p \in PredecessorOf(n) : l.top = p.top /\ l.origin = p.origin
                  \/ /\ PredecessorOf(n) = {}
                     /\ l.top = Trailhead(n) /\ l.origin = n.base.origin
  <2>1. CASE \E p \in PredecessorOf(n) :
                lims' = lims \cup {Populated(n, p.top, p.origin, MergedCil(p, Trailhead(n)))}
    <3>1. PICK p \in PredecessorOf(n) :
              lims' = lims \cup {Populated(n, p.top, p.origin, MergedCil(p, Trailhead(n)))}
      BY <2>1
    <3> WITNESS Populated(n, p.top, p.origin, MergedCil(p, Trailhead(n)))
    <3> QED
      BY <3>1 DEF Populated
  <2>2. CASE /\ PredecessorOf(n) = {}
             /\ lims' = lims \cup
                   {Populated(n, Trailhead(n), n.base.origin, EventAhms(Trailhead(n)))}
    <3> WITNESS Populated(n, Trailhead(n), n.base.origin, EventAhms(Trailhead(n)))
    <3> QED
      BY <2>2 DEF Populated
  <2> QED
    BY <2>1, <2>2 DEF PopulateLim
<1>3. PendingPredecessorOf(n) = {}
  BY PopulatedLast
<1>4. /\ Pims(n.at, n.sym) = {n.base} /\ LimsFor(n.at, n.sym) = {}
  BY DEF LeoInv, NewLimsAlone
<1>5. \A e, s : Pims(e, s)' = Pims(e, s)
  BY <1>1 DEF Pims
<1>6. LimsFor(n.at, n.sym)' = {l}
  BY <1>2, <1>4 DEF LimsFor
<1>7. \A e, s : ~ (e = n.at /\ s = n.sym) => LimsFor(e, s)' = LimsFor(e, s)
  BY <1>2 DEF LimsFor
<1>8. LimsAlone'
  <2>1. ASSUME NEW k \in lims'
        PROVE  /\ Pims(k.at, k.sym)' = {k.base} /\ k.at > 0
               /\ \A m \in LimsFor(k.at, k.sym)' : m = k
    <3>1. CASE k \in lims
      <4>1. ~ (k.at = n.at /\ k.sym = n.sym)
        BY <1>4, <3>1 DEF LimsFor
      <4> QED
        BY <1>5, <1>7, <3>1, <4>1 DEF LeoInv, LimsAlone
    <3>2. CASE k = l
      BY <1>1, <1>2, <1>4, <1>5, <1>6, <3>2
    <3> QED
      BY <1>2, <3>1, <3>2
  <2> QED
    BY <2>1 DEF LimsAlone, LimsFor
<1>9. NewLimsAlone'
  <2>1. ASSUME NEW m \in newLims \ {n}
        PROVE  Pims(m.at, m.sym)' = {m.base} /\ LimsFor(m.at, m.sym)' = {}
    <3>1. Pims(m.at, m.sym) = {m.base} /\ LimsFor(m.at, m.sym) = {}
      BY DEF LeoInv, NewLimsAlone
    <3>2. m.at = n.at /\ (m.sym = n.sym => m.base = n.base)
      BY <1>1, <1>4, <3>1
    <3>3. m.sym # n.sym
      BY <1>1, <3>2 DEF NewLim
    <3> QED
      BY <1>5, <1>7, <3>1, <3>3
  <2> QED
    BY <1>1, <2>1 DEF NewLimsAlone, LimsFor, Pims
<1>10. LimsFollow'
  <2>1. ASSUME NEW k \in lims,
               PredecessorOf(k) = {}, PendingPredecessorOf(k) = {}
        PROVE  PredecessorOf(k)' = {} /\ PendingPredecessorOf(k)' = {}
    <3>1. ~ (k.base.origin = n.at /\ LhsOf(k.base.ahm) = n.sym)
      BY <2>1 DEF PendingPredecessorOf
    <3> QED
      BY <1>1, <1>7, <2>1, <3>1 DEF PredecessorOf, PendingPredecessorOf
  <2>2. ASSUME NEW k \in lims, NEW p \in PredecessorOf(k)
        PROVE  p \in PredecessorOf(k)'
    BY <1>2 DEF PredecessorOf, LimsFor
  <2>3. Trailhead(l) = Trailhead(n) /\ PredecessorOf(l) = PredecessorOf(n)
        /\ PendingPredecessorOf(l) = PendingPredecessorOf(n)
    BY <1>2 DEF Trailhead, PredecessorOf, PendingPredecessorOf
  <2>4. CASE PredecessorOf(n) = {}
    <3>1. ~ (l.base.origin = n.at /\ LhsOf(l.base.ahm) = n.sym)
      BY <1>2, <1>3 DEF PendingPredecessorOf
    <3>2. PredecessorOf(l)' = {} /\ PendingPredecessorOf(l)' = {}
      BY <1>1, <1>3, <1>7, <2>3, <2>4, <3>1 DEF PredecessorOf, PendingPredecessorOf
    <3>3. l.top = Trailhead(l) /\ l.origin = l.base.origin
      BY <1>2, <2>3, <2>4
    <3> QED
      BY <1>2, <2>1, <2>2, <3>2, <3>3 DEF LeoInv, LimsFollow, Trailhead
  <2>5. CASE PredecessorOf(n) # {}
    <3>1. \E p \in PredecessorOf(l)' : l.top = p.top /\ l.origin = p.origin
      BY <1>2, <2>5 DEF PredecessorOf, LimsFor
    <3> QED
      BY <1>2, <2>1, <2>2, <3>1 DEF LeoInv, LimsFollow, Trailhead
  <2> QED
    BY <2>4, <2>5
<1> QED
  BY <1>8, <1>9, <1>10 DEF LeoInv

\* Each step keeps LeoInv.
LEMMA LeoStep ==
    ASSUME SpanInv, PredictInv, LeoInv, [Next]_vars PROVE LeoInv'
<1>0. TypeInv
  BY DEF SpanInv, InputInv
<1>1. CASE phase = "before"
  <2>1. /\ items = {} /\ stack = {} /\ lims = {} /\ newLims = {} /\ alternatives = {}
        /\ pc = "idle"
    BY <1>0, <1>1 DEF TypeInv, NothingBefore, BuiltDuringInput
  <2>2. lims' = {} /\ newLims' = {}
    BY <1>0, <1>1, <2>1, OtherSteps
    DEF StartInput, EarlemeStep, CompletePastFurthest, CompleteGap, BeginEarleySet,
        PredictAndPostdot
  <2> QED
    BY <2>2 DEF LeoInv, LimsAlone, NewLimsAlone, LimsFollow
<1>2. CASE phase # "before"
  <2>1. ~ StartInput
    BY <1>2 DEF StartInput
  <2>2. CASE EarlemeStep
    BY <1>2, <2>2, EarlemeSteps, LeoKept DEF SpanInv
  <2>3. CASE (\E a \in alternatives : ScanToken(a))
              \/ \E cause \in stack : CompleteByLeo(cause) \/ CompleteByEarley(cause)
    BY <1>0, <1>2, <2>3, LeoKept
    DEF ScanToken, CompleteByLeo, CompleteByEarley, TypeInv, CallState
  <2>4. CASE PredictAndPostdot
    BY <2>4, LeoPredict
  <2>5. CASE \E n \in newLims : PopulateLim(n)
    BY <2>5, LeoPopulate
  <2>6. CASE UNCHANGED <<items, lims, newLims>>
    BY <1>2, <2>6, LeoKept
  <2> QED
    BY <1>0, <2>1, <2>2, <2>3, <2>4, <2>5, <2>6, OtherSteps
<1> QED
  BY <1>1, <1>2

\* The three invariants hold together in every reachable state.
LEMMA LeoCorrect == Spec => [](SpanInv /\ PredictInv /\ LeoInv)
<1>1. Init => PredictInv /\ LeoInv
  BY PredictInit, LeoInit
<1>2. SpanInv /\ PredictInv /\ LeoInv /\ [Next]_vars => PredictInv' /\ LeoInv'
  BY PredictStep, LeoStep
<1> QED
  BY <1>1, <1>2, SpanCorrect, PTL DEF Spec

\* Populated Leo items carry the top and the origin of their chains, in the order
\* in which postdot_items_create happens to populate them, unit rules in a circle or not.
THEOREM LeoFaithful == Spec => []LeoItemsAreFaithful
<1>1. LeoInv => LeoItemsAreFaithful
  BY DEF LeoInv, LimsAlone, LimsFollow, LeoItemsAreFaithful
<1> QED
  BY <1>1, LeoCorrect, PTL

-----------------------------------------------------------------------------
(***************************************************************************)
(* The chart is sound: every chart that is closed as Earley's algorithm    *)
(* requires, for the tokens scanned so far, holds every item of the        *)
(* recognizer.  A Leo item promises its top for a completion of its base.  *)
(***************************************************************************)
Within(C) ==
    /\ items \subseteq C
    /\ \A l \in lims, e \in Nat :
          Advance(l.base, e) \in C => [ahm |-> l.top, origin |-> l.origin, at |-> e] \in C

ItemsAreSound ==
    \A C \in SUBSET Item : EarleyClosed(C, ScannedTokens) => items \subseteq C

SoundInv == \A C \in SUBSET Item : EarleyClosed(C, ScannedTokens) => Within(C)

\* Fewer tokens ask for less.
LEMMA FewerTokens ==
    ASSUME NEW C, NEW T, NEW U, T \subseteq U, EarleyClosed(C, U)
    PROVE  EarleyClosed(C, T)
BY DEF EarleyClosed

\* The empty chart holds no item too many.
LEMMA SoundInit == Init => SoundInv
BY DEF Init, SoundInv, Within

\* A closed chart that holds the items of a set holds what it predicts.
LEMMA ClosedPredicts ==
    ASSUME NEW C \in SUBSET Item, NEW T, EarleyClosed(C, T), NEW e \in Nat, e > 0,
           NEW I, I \subseteq {i \in C : i.at = e}
    PROVE  Predictions(I, e) \subseteq C
<1> SUFFICES ASSUME NEW p \in Predictions(I, e) PROVE p \in C
  OBVIOUS
<1>1. PICK s \in PostdotSymbols(I), r \in Rule : r \in PredictedRules[s] /\ p = Prediction(r, e)
  BY PredictionsTypes
<1>2. PICK i \in I : PostdotIs(i.ahm, s)
  BY <1>1 DEF PostdotSymbols
<1> DEFINE B == {t \in Symbol : \A q \in Rule : Lhs(q) = t => Prediction(q, e) \in C}
<1>3. s \in Symbol /\ i \in C /\ i.at = e
  BY <1>1, <1>2 DEF PostdotSymbols
<1>4. s \in B
  BY <1>2, <1>3 DEF EarleyClosed
<1>5. ASSUME NEW q \in Rule, Lhs(q) \in B PROVE FirstSymbol(q) \in B
  <2>1. Prediction(q, e) \in C
    BY <1>5
  <2>2. Prediction(q, e).at = e /\ PostdotIs(Prediction(q, e).ahm, FirstSymbol(q))
    BY PredictionType, FirstAhmType
  <2>3. FirstSymbol(q) \in Symbol
    BY RuleTypes DEF FirstSymbol
  <2> QED
    BY <2>1, <2>2, <2>3 DEF EarleyClosed
<1>6. PredictionClosed(s, B) /\ B \in SUBSET Symbol
  BY <1>4, <1>5 DEF PredictionClosed
<1>7. Lhs(r) \in B
  BY <1>1, <1>3, <1>6, PredictedAreLeast DEF PredictedRules
<1> QED
  BY <1>1, <1>7

\* A closed chart holds the items of set 0.
LEMMA ClosedStarts ==
    ASSUME NEW C \in SUBSET Item, NEW T, EarleyClosed(C, T)
    PROVE  StartItems \subseteq C
<1> DEFINE R == {r \in Rule : Prediction(r, 0) \in C}
<1>1. G.startRule \in R
  BY RuleTypes DEF EarleyClosed
<1>2. ASSUME NEW r \in Rule \ G.barred, NEW q \in R, Lhs(r) = FirstSymbol(q) PROVE r \in R
  <2>1. Prediction(q, 0) \in C /\ Prediction(q, 0).at = 0
        /\ PostdotIs(Prediction(q, 0).ahm, FirstSymbol(q))
    BY PredictionType, FirstAhmType
  <2> QED
    BY <1>2, <2>1 DEF EarleyClosed
<1>3. R \in SUBSET Rule
        /\ \A r \in Rule \ G.barred :
              (Lhs(r) = FirstSymbol(G.startRule) \/ \E q \in R : Lhs(r) = FirstSymbol(q))
                 => r \in R
  BY <1>1, <1>2
<1>4. InitialRules \subseteq R
  BY <1>3 DEF InitialRules
<1> QED
  BY <1>1, <1>4 DEF StartItems

\* An item made by a scan is in every closed chart.
LEMMA SoundScan ==
    ASSUME SpanInv, NEW a \in alternatives, ScanToken(a),
           NEW C \in SUBSET Item, EarleyClosed(C, ScannedTokens'), Within(C)
    PROVE  Within(C)'
<1>1. current \in Nat /\ a.end = current /\ lims' = lims
      /\ items' = items \cup {Advance(i, current) : i \in Pims(a.start, a.sym)}
      /\ tokenLinks' = tokenLinks \cup
            {[effect |-> Advance(i, current), pred |-> i, token |-> a] :
                i \in Pims(a.start, a.sym)}
  BY CurrentType, TokenTypes DEF ScanToken, SpanInv, InputInv, PendingTokens
<1>2. ASSUME NEW i \in Pims(a.start, a.sym) PROVE Advance(i, current) \in C
  <2>1. i \in C /\ i.at = a.start /\ PostdotIs(i.ahm, a.sym)
    BY DEF Pims, Within
  <2>2. a \in ScannedTokens'
    <3>1. [effect |-> Advance(i, current), pred |-> i, token |-> a] \in tokenLinks'
      BY <1>1
    <3> QED
      BY <3>1 DEF ScannedTokens
  <2> QED
    BY <1>1, <2>1, <2>2 DEF EarleyClosed
<1> QED
  BY <1>1, <1>2 DEF Within, Advance

\* An item made by a completion is in every closed chart.
LEMMA SoundEarley ==
    ASSUME SpanInv, NEW cause \in stack, CompleteByEarley(cause),
           NEW C \in SUBSET Item, NEW T, EarleyClosed(C, T), Within(C)
    PROVE  Within(C)'
<1>1. /\ lims' = lims
      /\ items' = items \cup
            {Advance(i, current) : i \in Pims(cause.origin, LhsOf(cause.ahm))}
  BY DEF CompleteByEarley
<1>2. cause \in C /\ cause.at = current /\ IsCompletion(cause.ahm)
  BY CauseSpan DEF Within
<1>3. ASSUME NEW i \in Pims(cause.origin, LhsOf(cause.ahm))
      PROVE  Advance(i, current) \in C
  BY <1>2 DEF Pims, Within, EarleyClosed
<1> QED
  BY <1>1, <1>3 DEF Within, Advance

\* The top that a Leo item jumps to is in every closed chart.
LEMMA SoundLeo ==
    ASSUME SpanInv, NEW cause \in stack, CompleteByLeo(cause),
           NEW C \in SUBSET Item, NEW T, EarleyClosed(C, T), Within(C)
    PROVE  Within(C)'
<1>1. PICK l \in LimsFor(cause.origin, LhsOf(cause.ahm)) :
          items' = items \cup {LeoEffect(l)} /\ lims' = lims
  BY DEF CompleteByLeo
<1>2. cause \in C /\ cause.at = current /\ IsCompletion(cause.ahm) /\ current \in Nat
  BY CauseSpan, CurrentType DEF Within, SpanInv, InputInv
<1>3. /\ l \in lims /\ l.base \in C /\ l.base.at = cause.origin
      /\ PostdotIs(l.base.ahm, LhsOf(cause.ahm))
  BY DEF LimsFor, SpanInv, LimsSpan, Within
<1>4. Advance(l.base, current) \in C
  BY <1>2, <1>3 DEF EarleyClosed
<1>5. LeoEffect(l) \in C
  BY <1>2, <1>3, <1>4 DEF Within, LeoEffect
<1> QED
  BY <1>1, <1>5 DEF Within, Advance

\* Populating a Leo item adds no promise that a closed chart does not keep.
LEMMA SoundPopulate ==
    ASSUME SpanInv, NEW n \in newLims, PopulateLim(n),
           NEW C \in SUBSET Item, NEW T, EarleyClosed(C, T), Within(C)
    PROVE  Within(C)'
<1>1. /\ items' = items /\ n.base \in items /\ n.base \in Item
      /\ ~ IsCompletion(n.base.ahm) /\ IsCompletion(Trailhead(n))
  BY ItemTypes, PostdotType
  DEF PopulateLim, SpanInv, InputInv, TypeInv, TypeOK, CallState, IsLeoPenult,
      IsLeoCompletion, Trailhead
<1>2. ASSUME NEW l \in lims' \ lims, NEW e \in Nat, Advance(l.base, e) \in C
      PROVE  [ahm |-> l.top, origin |-> l.origin, at |-> e] \in C
  <2>1. CASE l = Populated(n, Trailhead(n), n.base.origin, EventAhms(Trailhead(n)))
    BY <1>2, <2>1 DEF Populated, Advance, Trailhead
  <2>2. CASE \E p \in PredecessorOf(n) :
                l = Populated(n, p.top, p.origin, MergedCil(p, Trailhead(n)))
    <3>1. PICK p \in PredecessorOf(n) :
              l = Populated(n, p.top, p.origin, MergedCil(p, Trailhead(n)))
      BY <2>2
    <3>2. l.base = n.base /\ l.top = p.top /\ l.origin = p.origin
      BY <3>1 DEF Populated
    <3>3. /\ p \in lims /\ p.base \in C /\ p.base.at = n.base.origin
          /\ PostdotIs(p.base.ahm, LhsOf(n.base.ahm))
      BY DEF PredecessorOf, LimsFor, SpanInv, LimsSpan, Within
    <3> DEFINE c == Advance(n.base, e)
    <3>4. /\ c \in C /\ c.at = e /\ c.origin = n.base.origin
          /\ IsCompletion(c.ahm) /\ LhsOf(c.ahm) = LhsOf(n.base.ahm)
      BY <1>1, <1>2, <3>2, AdvanceRule DEF Advance, Trailhead
    <3>5. Advance(p.base, e) \in C
      BY <3>3, <3>4 DEF EarleyClosed
    <3> QED
      BY <3>2, <3>3, <3>5 DEF Within
  <2> QED
    BY <1>2, <2>1, <2>2 DEF PopulateLim
<1> QED
  BY <1>1, <1>2 DEF Within, Advance

\* Each step keeps SoundInv.
LEMMA SoundStep ==
    ASSUME SpanInv, SoundInv, [Next]_vars PROVE SoundInv'
<1> SUFFICES ASSUME NEW C \in SUBSET Item, EarleyClosed(C, ScannedTokens')
             PROVE  Within(C)'
  BY DEF SoundInv, EarleyClosed, Prediction, Advance
<1>0. TypeInv
  BY DEF SpanInv, InputInv
<1>1. CASE StartInput
  <2>1. items' = StartItems /\ lims' = {}
    BY <1>0, <1>1 DEF StartInput, TypeInv, NothingBefore
  <2> QED
    BY <2>1, ClosedStarts DEF Within
<1>2. CASE ~ StartInput
  <2>1. tokenLinks \subseteq tokenLinks'
    BY <1>0, <1>2, OtherSteps, EarlemeSteps
    DEF SpanInv, ScanToken, CompleteByLeo, CompleteByEarley, PredictAndPostdot, PopulateLim,
        linkVars
  <2>2. EarleyClosed(C, ScannedTokens) /\ Within(C)
    BY <2>1, FewerTokens DEF SoundInv, ScannedTokens
  <2>3. CASE EarlemeStep
    BY <2>2, <2>3, EarlemeSteps DEF SpanInv, Within, Advance
  <2>4. CASE \E a \in alternatives : ScanToken(a)
    BY <2>2, <2>4, SoundScan
  <2>5. CASE \E cause \in stack : CompleteByLeo(cause) \/ CompleteByEarley(cause)
    BY <2>2, <2>5, SoundLeo, SoundEarley
  <2>6. CASE PredictAndPostdot
    <3>1. /\ current \in Nat /\ current > 0 /\ lims' = lims
          /\ items' = items \cup Predictions(AtCurrent, current)
      BY <1>0, <2>6, CurrentType DEF SpanInv, PredictAndPostdot, AtCurrent
    <3>2. AtCurrent \subseteq {i \in C : i.at = current}
      BY <2>2 DEF AtCurrent, Within
    <3>3. Predictions(AtCurrent, current) \subseteq C
      BY <2>2, <3>1, <3>2, ClosedPredicts
    <3> QED
      BY <2>2, <3>1, <3>3 DEF Within, Advance
  <2>7. CASE \E n \in newLims : PopulateLim(n)
    BY <2>2, <2>7, SoundPopulate
  <2>8. CASE UNCHANGED <<items, lims>>
    BY <2>2, <2>8 DEF Within, Advance
  <2> QED
    BY <1>0, <1>2, <2>3, <2>4, <2>5, <2>6, <2>7, <2>8, OtherSteps
<1> QED
  BY <1>1, <1>2

\* Every item of the recognizer is one of Earley's algorithm for the tokens scanned,
\* at every step of every call: Leo items never invent a completion.
THEOREM ChartIsSound == Spec => []ItemsAreSound
<1>1. Init => SoundInv
  BY SoundInit
<1>2. SpanInv /\ SoundInv /\ [Next]_vars => SoundInv'
  BY SoundStep
<1>3. SoundInv => ItemsAreSound
  BY DEF SoundInv, ItemsAreSound, Within
<1> QED
  BY <1>1, <1>2, <1>3, SpanCorrect, PTL DEF Spec

-----------------------------------------------------------------------------
(***************************************************************************)
(* The chart is complete.  A completion that is off the stack has had its  *)
(* effect, and a token that was scanned has advanced all that waited for   *)
(* it; both look at finished sets, so neither is ever out of date.         *)
(***************************************************************************)
Processed(c) ==
    \/ \E l \in LimsFor(c.origin, LhsOf(c.ahm)) :
          [ahm |-> l.top, origin |-> l.origin, at |-> c.at] \in items
    \/ /\ LimsFor(c.origin, LhsOf(c.ahm)) = {}
       /\ \A i \in Pims(c.origin, LhsOf(c.ahm)) : Advance(i, c.at) \in items

CompletionsProcessed ==
    \A c \in items :
        IsCompletion(c.ahm) /\ c \notin stack /\ ~ (pc = "scan" /\ c.at = current)
           => Processed(c)

TokensProcessed ==
    \A t \in ScannedTokens :
        /\ t.start \in Nat /\ t.end \in Nat /\ t.start < t.end /\ t.end <= current
        /\ \A i \in Pims(t.start, t.sym) : Advance(i, t.end) \in items

DoneInv == CompletionsProcessed /\ TokensProcessed

\* The empty chart has nothing left to complete.
LEMMA DoneInit == Init => DoneInv
BY DEF Init, DoneInv, CompletionsProcessed, TokensProcessed, ScannedTokens

\* A completed item began before the current set.
LEMMA CompletedBefore ==
    ASSUME SpanInv, NEW c \in items, IsCompletion(c.ahm)
    PROVE  c.origin < c.at /\ c.at <= current /\ c.origin # current /\ c \in Item
<1>1. c \in Item /\ c.ahm[2] > 0 /\ current \in Int
  BY ItemTypes, AhmTypes, RuleTypes DEF SpanInv, InputInv, TypeInv, TypeOK, IsCompletion
<1> QED
  BY <1>1, ItemTypes DEF SpanInv, ItemsSpan

\* The effect of a completion stays.
LEMMA ProcessedStays ==
    ASSUME SpanInv, [Next]_vars, phase # "before", NEW c \in items, IsCompletion(c.ahm),
           Processed(c)
    PROVE  Processed(c)'
<1>1. c.origin # current
  BY CompletedBefore
<1>2. /\ LimsFor(c.origin, LhsOf(c.ahm))' = LimsFor(c.origin, LhsOf(c.ahm))
      /\ Pims(c.origin, LhsOf(c.ahm))' = Pims(c.origin, LhsOf(c.ahm))
  BY <1>1, LimsFrozen, PimsFrozen
<1>3. items \subseteq items'
  BY ChartFrozen
<1> QED
  BY <1>2, <1>3 DEF Processed, Advance

\* A completion stays on the stack until its effects are made, and they stay made.
LEMMA CompletionsStep ==
    ASSUME SpanInv, SpanInv', DoneInv, [Next]_vars, phase # "before"
    PROVE  CompletionsProcessed'
<1> SUFFICES ASSUME NEW c \in items', IsCompletion(c.ahm), c \notin stack',
                    ~ (pc' = "scan" /\ c.at = current')
             PROVE  Processed(c)'
  BY DEF CompletionsProcessed
<1>0. TypeInv /\ ~ StartInput
  BY DEF SpanInv, InputInv, StartInput
<1>1. ASSUME c \in items, c \notin stack, ~ (pc = "scan" /\ c.at = current)
      PROVE  Processed(c)'
  BY <1>1, ProcessedStays DEF DoneInv, CompletionsProcessed
<1>2. \A i \in items' \ items : i.at = current
  BY ChartFrozen
<1>3. CASE EarlemeStep
  BY <1>1, <1>3, EarlemeSteps DEF SpanInv
<1>4. ASSUME NEW a \in alternatives, ScanToken(a) PROVE Processed(c)'
  BY <1>1, <1>2, <1>4 DEF ScanToken
<1>5. ASSUME EndScan PROVE Processed(c)'
  <2>1. c \in items /\ c.at # current /\ stack = {}
    BY <1>0, <1>5 DEF EndScan, AtCurrent, TypeInv, CallState
  <2> QED
    BY <1>1, <2>1
<1>6. ASSUME NEW cause \in stack, CompleteByLeo(cause) PROVE Processed(c)'
  <2>1. PICK l \in LimsFor(cause.origin, LhsOf(cause.ahm)) :
            /\ items' = items \cup {LeoEffect(l)}
            /\ stack' = (stack \ {cause}) \cup ({LeoEffect(l)} \ items)
    BY <1>6 DEF CompleteByLeo
  <2>2. c \in items /\ pc = "complete"
    BY <1>6, <2>1 DEF CompleteByLeo
  <2>3. CASE c = cause
    <3>1. c.origin # current /\ c.at = current
      BY <2>2, <2>3, CauseSpan, CompletedBefore
    <3>2. l \in LimsFor(c.origin, LhsOf(c.ahm))'
      BY <2>1, <2>3, <3>1, LimsFrozen
    <3> QED
      BY <2>1, <3>1, <3>2 DEF Processed, LeoEffect
  <2>4. CASE c # cause
    BY <1>1, <2>1, <2>2, <2>4
  <2> QED
    BY <2>3, <2>4
<1>7. ASSUME NEW cause \in stack, CompleteByEarley(cause) PROVE Processed(c)'
  <2> DEFINE effects == {Advance(i, current) : i \in Pims(cause.origin, LhsOf(cause.ahm))}
  <2>1. /\ items' = items \cup effects
        /\ stack' = (stack \ {cause}) \cup NewCompletions(effects)
        /\ LimsFor(cause.origin, LhsOf(cause.ahm)) = {}
        /\ pc = "complete"
    BY <1>7 DEF CompleteByEarley
  <2>2. c \in items
    BY <2>1 DEF NewCompletions
  <2>3. CASE c = cause
    <3>1. c.origin # current /\ c.at = current
      BY <2>2, <2>3, CauseSpan, CompletedBefore
    <3>2. /\ LimsFor(c.origin, LhsOf(c.ahm))' = {}
          /\ Pims(c.origin, LhsOf(c.ahm))' = Pims(c.origin, LhsOf(c.ahm))
      BY <2>1, <2>3, <3>1, LimsFrozen, PimsFrozen
    <3>3. \A i \in Pims(c.origin, LhsOf(c.ahm)) : Advance(i, c.at) \in items'
      BY <2>1, <2>3, <3>1
    <3> QED
      BY <3>2, <3>3 DEF Processed, Advance
  <2>4. CASE c # cause
    BY <1>1, <2>1, <2>2, <2>4
  <2> QED
    BY <2>3, <2>4
<1>8. ASSUME PredictAndPostdot PROVE Processed(c)'
  <2>1. /\ current \in Nat /\ pc = "complete" /\ stack = {}
        /\ items' = items \cup Predictions(AtCurrent, current)
    BY <1>0, <1>8, CurrentType DEF PredictAndPostdot, AtCurrent
  <2>2. \A i \in Predictions(AtCurrent, current) : ~ IsCompletion(i.ahm)
    BY <2>1, PredictionsTypes, PredictionType, FirstAhmType
  <2> QED
    BY <1>1, <2>1, <2>2
<1>9. ASSUME NEW n \in newLims, PopulateLim(n) PROVE Processed(c)'
  BY <1>0, <1>1, <1>9 DEF PopulateLim, TypeInv, CallState
<1>10. CASE UNCHANGED <<current, items>> /\ (UNCHANGED <<pc, stack>> \/ EndEarleySet)
  BY <1>1, <1>10 DEF EndEarleySet
<1> QED
  BY <1>0, <1>3, <1>4, <1>5, <1>6, <1>7, <1>8, <1>9, <1>10, OtherSteps

\* A token that is due stays to be scanned until its items are made, and they stay made.
LEMMA TokensStep ==
    ASSUME SpanInv, DoneInv, [Next]_vars, phase # "before"
    PROVE  TokensProcessed'
<1>0. TypeInv /\ ~ StartInput /\ current \in Int /\ current' \in Int
  BY TypeStep DEF SpanInv, InputInv, StartInput, TypeInv, TypeOK
<1>1. items \subseteq items' /\ current' >= current
  BY ChartFrozen
<1>2. ASSUME NEW t \in ScannedTokens
      PROVE  /\ t.start \in Nat /\ t.end \in Nat /\ t.start < t.end /\ t.end <= current'
             /\ \A i \in Pims(t.start, t.sym)' : Advance(i, t.end) \in items'
  <2>1. /\ t.start \in Nat /\ t.end \in Nat /\ t.start < t.end /\ t.end <= current
        /\ \A i \in Pims(t.start, t.sym) : Advance(i, t.end) \in items
    BY DEF DoneInv, TokensProcessed
  <2>2. Pims(t.start, t.sym)' = Pims(t.start, t.sym)
    BY <1>0, <2>1, PimsFrozen
  <2> QED
    BY <1>0, <1>1, <2>1, <2>2
<1>3. CASE tokenLinks' = tokenLinks
  <2>1. ScannedTokens' = ScannedTokens
    BY <1>3 DEF ScannedTokens
  <2> QED
    BY <1>2, <2>1 DEF TokensProcessed, Advance
<1>4. ASSUME NEW a \in alternatives, ScanToken(a) PROVE TokensProcessed'
  <2>1. /\ current \in Nat /\ a.end = current /\ a.start < a.end /\ a.start \in Nat
        /\ current' = current /\ pc = "scan"
        /\ items' = items \cup {Advance(i, current) : i \in Pims(a.start, a.sym)}
        /\ tokenLinks' = tokenLinks \cup
              {[effect |-> Advance(i, current), pred |-> i, token |-> a] :
                  i \in Pims(a.start, a.sym)}
    BY <1>0, <1>4, CurrentType, TokenTypes DEF ScanToken, SpanInv, InputInv, PendingTokens
  <2>2. Pims(a.start, a.sym)' = Pims(a.start, a.sym)
    BY <2>1, PimsFrozen
  <2>3. \A t \in ScannedTokens' : t \in ScannedTokens \/ t = a
    BY <2>1 DEF ScannedTokens
  <2>4. \A i \in Pims(a.start, a.sym)' : Advance(i, a.end) \in items'
    BY <2>1, <2>2
  <2>5. \A t \in ScannedTokens' :
          /\ t.start \in Nat /\ t.end \in Nat /\ t.start < t.end /\ t.end <= current'
          /\ \A i \in Pims(t.start, t.sym)' : Advance(i, t.end) \in items'
    <3> TAKE t \in ScannedTokens'
    <3>1. CASE t \in ScannedTokens
      BY <1>2, <3>1
    <3>2. CASE t = a
      BY <2>1, <2>4, <3>2
    <3> QED
      BY <2>3, <3>1, <3>2
  <2> QED
    BY <2>5 DEF TokensProcessed, Advance
<1> QED
  BY <1>0, <1>3, <1>4, OtherSteps, EarlemeSteps
  DEF SpanInv, CompleteByLeo, CompleteByEarley, PredictAndPostdot, PopulateLim, linkVars

\* Each step keeps DoneInv.
LEMMA DoneStep ==
    ASSUME SpanInv, DoneInv, [Next]_vars PROVE DoneInv'
<1>0. TypeInv /\ SpanInv'
  BY SpanStep DEF SpanInv, InputInv
<1>1. CASE phase = "before"
  <2>1. /\ items = {} /\ stack = {} /\ newLims = {} /\ alternatives = {} /\ pc = "idle"
        /\ tokenLinks = {}
    BY <1>0, <1>1 DEF TypeInv, NothingBefore, BuiltDuringInput
  <2>2. tokenLinks' = {} /\ \A i \in items' : ~ IsCompletion(i.ahm)
    <3>1. CASE StartInput
      <4>1. InitialRules \cup {G.startRule} \subseteq Rule
        BY RuleTypes, InitialAreClosed
      <4>2. items' = StartItems /\ tokenLinks' = {}
        BY <2>1, <3>1 DEF StartInput, linkVars
      <4> QED
        BY <4>1, <4>2, PredictionType, FirstAhmType DEF StartItems
    <3>2. CASE ~ StartInput
      BY <1>0, <1>1, <2>1, <3>2, OtherSteps
      DEF EarlemeStep, CompletePastFurthest, CompleteGap, BeginEarleySet, PredictAndPostdot,
          linkVars
    <3> QED
      BY <3>1, <3>2
  <2> QED
    BY <2>2 DEF DoneInv, CompletionsProcessed, TokensProcessed, ScannedTokens
<1>2. CASE phase # "before"
  BY <1>0, <1>2, CompletionsStep, TokensStep DEF DoneInv
<1> QED
  BY <1>1, <1>2

\* What a Leo item hides is complete.
LimsHide == \A l \in lims : IsCompletion(Trailhead(l))

\* The empty chart has no Leo item.
LEMMA HideInit == Init => LimsHide
BY DEF Init, LimsHide

\* Each step keeps LimsHide: a Leo item is made only where its symbol ends a rule.
LEMMA HideStep ==
    ASSUME SpanInv, LimsHide, [Next]_vars PROVE LimsHide'
<1>1. lims' = lims \/ \E n \in newLims : PopulateLim(n)
  BY OtherSteps, EarlemeSteps
  DEF SpanInv, InputInv, StartInput, ScanToken, CompleteByLeo, CompleteByEarley,
      PredictAndPostdot
<1>2. CASE lims' = lims
  BY <1>2 DEF LimsHide, Trailhead
<1>3. ASSUME NEW n \in newLims, PopulateLim(n) PROVE LimsHide'
  <2>1. \A l \in lims' \ lims : l.base = n.base
    BY <1>3 DEF PopulateLim, Populated
  <2>2. IsCompletion(NextAhm(n.base.ahm))
    BY DEF SpanInv, InputInv, TypeInv, CallState, IsLeoPenult, IsLeoCompletion
  <2> QED
    BY <2>1, <2>2 DEF LimsHide, Trailhead
<1> QED
  BY <1>1, <1>2, <1>3

\* Where the top of a chain is, the completion that the Leo item stands for is there
\* as well, or hidden.
LEMMA SkippedThere ==
    ASSUME SpanInv, LeoInv, NEW l \in lims, NEW j \in items,
           j.ahm = l.top, j.origin = l.origin
    PROVE  Advance(l.base, j.at) \in items \cup Hidden
<1>1. CASE PredecessorOf(l) # {}
  BY <1>1 DEF Hidden, Skipped
<1>2. CASE PredecessorOf(l) = {}
  <2>1. j.ahm = NextAhm(l.base.ahm) /\ j.origin = l.base.origin
    BY <1>2 DEF LeoInv, LimsFollow, Trailhead
  <2>2. j = [ahm |-> j.ahm, origin |-> j.origin, at |-> j.at]
    BY DEF SpanInv, InputInv, TypeInv, TypeOK, Item
  <2> QED
    BY <2>1, <2>2 DEF Advance
<1> QED
  BY <1>1, <1>2

\* A hidden item is a completion that a Leo item skipped on the way to its top.
LEMMA HiddenItems ==
    ASSUME SpanInv, LimsHide, NEW c \in Hidden
    PROVE  /\ IsCompletion(c.ahm) /\ ~ \E s : PostdotIs(c.ahm, s)
           /\ \E l \in lims, j \in items :
                 /\ PredecessorOf(l) # {} /\ j.ahm = l.top /\ j.origin = l.origin
                 /\ c = Advance(l.base, j.at)
                 /\ c.at = j.at /\ c.origin = l.base.origin
                 /\ LhsOf(c.ahm) = LhsOf(l.base.ahm)
<1>1. PICK l \in lims : PredecessorOf(l) # {} /\ c \in Skipped(l)
  BY DEF Hidden
<1>2. PICK j \in items : j.ahm = l.top /\ j.origin = l.origin /\ c = Advance(l.base, j.at)
  BY <1>1 DEF Skipped
<1>3. l.base \in Item /\ ~ IsCompletion(l.base.ahm) /\ j.at \in Nat
  BY PostdotType, ItemTypes DEF SpanInv, LimsSpan, InputInv, TypeInv, TypeOK
<1>4. c.ahm = NextAhm(l.base.ahm) /\ c.at = j.at /\ c.origin = l.base.origin
  BY <1>2 DEF Advance
<1>5. LhsOf(c.ahm) = LhsOf(l.base.ahm)
  BY <1>2, <1>3, AdvanceRule
<1>6. IsCompletion(c.ahm)
  BY <1>4 DEF LimsHide, Trailhead
<1> QED
  BY <1>1, <1>2, <1>4, <1>5, <1>6 DEF PostdotIs

\* Between calls the chart with the hidden completions is closed.
LEMMA ChartClosed ==
    ASSUME SpanInv, PredictInv, LeoInv, DoneInv, LimsHide, pc = "idle", phase # "before"
    PROVE  EarleyClosed(items \cup Hidden, ScannedTokens)
<1> DEFINE C == items \cup Hidden
<1>0. items \subseteq Item /\ stack = {} /\ current \in Int
  BY DEF SpanInv, InputInv, TypeInv, TypeOK, CallState
<1>1. Prediction(G.startRule, 0) \in C
  BY DEF PredictInv, StartSet, StartItems
<1>2. \A i \in C : (\E s : PostdotIs(i.ahm, s)) => i \in items
  BY HiddenItems
<1>3. ASSUME NEW i \in C, NEW r \in Rule, PostdotIs(i.ahm, Lhs(r)),
             i.at = 0 => r \notin G.barred
      PROVE  Prediction(r, i.at) \in C
  <2>1. i \in items /\ i.at \in Nat
    BY <1>0, <1>2, <1>3, ItemTypes
  <2>2. CASE i.at = 0
    <3>1. PICK q \in InitialRules \cup {G.startRule} : i = Prediction(q, 0)
      BY <2>1, <2>2 DEF PredictInv, StartSet, StartItems
    <3>2. q \in Rule
      BY RuleTypes, InitialAreClosed
    <3>3. Lhs(r) = FirstSymbol(q)
      BY <1>3, <3>1, <3>2, PredictionType, FirstAhmType, PostdotUnique
    <3>4. r \in InitialRules
      BY <1>3, <2>2, <3>3, InitialAreClosed
    <3>5. Prediction(r, 0) \in items
      BY <3>4 DEF PredictInv, StartSet, StartItems
    <3> QED
      BY <2>2, <3>5
  <2>3. CASE i.at > 0
    <3>1. Lhs(r) \in Symbol /\ r \in PredictedRules[Lhs(r)]
      BY RuleTypes, PredictedAreClosed DEF PredictedRules
    <3>2. Done(i.at)
      BY DEF Done
    <3> QED
      BY <1>3, <2>1, <2>3, <3>1, <3>2 DEF PredictInv, PredictionsClosed
  <2> QED
    BY <2>1, <2>2, <2>3
<1>4. ASSUME NEW i \in C, NEW t \in ScannedTokens, i.at = t.start, PostdotIs(i.ahm, t.sym)
      PROVE  Advance(i, t.end) \in C
  <2>1. i \in Pims(t.start, t.sym)
    BY <1>2, <1>4 DEF Pims
  <2> QED
    BY <2>1 DEF DoneInv, TokensProcessed
<1>5. ASSUME NEW i \in C, NEW c \in C, IsCompletion(c.ahm), i.at = c.origin,
             PostdotIs(i.ahm, LhsOf(c.ahm))
      PROVE  Advance(i, c.at) \in C
  <2>1. i \in Pims(c.origin, LhsOf(c.ahm))
    BY <1>2, <1>5 DEF Pims
  <2>2. \A l \in LimsFor(c.origin, LhsOf(c.ahm)) : l \in lims /\ i = l.base
    BY <2>1 DEF LimsFor, LeoInv, LimsAlone
  <2>3. CASE c \in items
    <3>1. Processed(c)
      BY <1>0, <1>5, <2>3 DEF DoneInv, CompletionsProcessed
    <3>2. ASSUME NEW l \in LimsFor(c.origin, LhsOf(c.ahm)),
                 [ahm |-> l.top, origin |-> l.origin, at |-> c.at] \in items
          PROVE  Advance(i, c.at) \in C
      BY <2>2, <3>2, SkippedThere
    <3> QED
      BY <2>1, <3>1, <3>2 DEF Processed
  <2>4. CASE c \in Hidden
    <3>1. PICK l \in lims, j \in items :
              /\ PredecessorOf(l) # {} /\ j.ahm = l.top /\ j.origin = l.origin
              /\ c.at = j.at /\ c.origin = l.base.origin
              /\ LhsOf(c.ahm) = LhsOf(l.base.ahm)
      BY <2>4, HiddenItems
    <3>2. PICK p \in PredecessorOf(l) : l.top = p.top /\ l.origin = p.origin
      BY <3>1 DEF LeoInv, LimsFollow
    <3>3. p \in LimsFor(c.origin, LhsOf(c.ahm))
      BY <3>1, <3>2 DEF PredecessorOf
    <3> QED
      BY <2>2, <3>1, <3>2, <3>3, SkippedThere
  <2> QED
    BY <2>3, <2>4
<1> QED
  BY <1>1, <1>3, <1>4, <1>5 DEF EarleyClosed

\* Between calls the chart lacks nothing that Earley's algorithm has, whatever the
\* grammar, the tokens and the order of the stack, but completions that a Leo item
\* hides.
THEOREM ChartComplete == Spec => []ChartIsComplete
<1>1. Init => DoneInv /\ LimsHide
  BY DoneInit, HideInit
<1>2. SpanInv /\ DoneInv /\ LimsHide /\ [Next]_vars => DoneInv' /\ LimsHide'
  BY DoneStep, HideStep
<1>3. SpanInv /\ PredictInv /\ LeoInv /\ DoneInv /\ LimsHide => ChartIsComplete
  BY ChartClosed DEF ChartIsComplete
<1> QED
  BY <1>1, <1>2, <1>3, LeoCorrect, PTL DEF Spec
=============================================================================
