---------------------------- MODULE ValueProofs ----------------------------
(***************************************************************************)
(* Proofs about the valuator, for every grammar, every tree and any order  *)
(* of the settings: which symbols have values is settled by the first      *)
(* step, and the steps are those of the tree, each rule after its children *)
(* and these from left to right, with the tokens that were read.           *)
(***************************************************************************)
EXTENDS Value, TreeProofs, SequenceTheorems

-----------------------------------------------------------------------------
(***************************************************************************)
(* The calls on the forest below a valuator are those of the tree          *)
(* iterator, so that its invariants hold here too.                         *)
(***************************************************************************)
LEMMA ValueStepsTheTree ==
    ASSUME [ValueNext]_valuatorVars
    PROVE  [AllNext]_allVars
<1>1. CASE UNCHANGED valuatorVars
  BY <1>1 DEF valuatorVars
<1>2. CASE ForestCall
  BY <1>2 DEF ForestCall, AllNext
<1>3. CASE ValuatorNew \/ ValuatorFree
  BY <1>3 DEF ValuatorNew, ValuatorFree, AllNext
<1>4. CASE ValueStep \/ Setting
  <2>1. TreeUnchanged /\ UNCHANGED ret
    BY <1>4 DEF ValueStep, Setting, SettingUnchanged, SymbolIsValuedSet, RuleIsValuedSet,
                ValuedForce, TraceSet
  <2>2. UNCHANGED allVars
    BY <2>1 DEF TreeUnchanged, ForestUnchanged, RecognizerUnchanged, allVars, bocageVars, vars,
                valueVars
  <2> QED BY <2>2
<1> QED BY <1>1, <1>2, <1>3, <1>4 DEF ValueNext

(* What is proved of the tree iterator holds below a valuator. *)
LEMMA TreeBelow == ValueSpec => [](ForestInv /\ PauseInv /\ NookInv)
<1>1. ValueInit => ForestInv /\ PauseInv /\ NookInv
  BY ForestInit, PauseInit, NookInit DEF ValueInit
<1>2. ForestInv /\ PauseInv /\ NookInv /\ [ValueNext]_valuatorVars
        => ForestInv' /\ PauseInv' /\ NookInv'
  BY ValueStepsTheTree, ForestStep, PauseStep, NookStep
<1> QED BY <1>1, <1>2, PTL DEF ValueSpec

-----------------------------------------------------------------------------
(***************************************************************************)
(* What the walk of the nooks keeps of the settings.                       *)
(***************************************************************************)
Fields ==
    {"next", "step", "nook", "rule", "xsy", "token", "value", "arg0", "argN", "result",
     "tokenStart", "ruleStart", "at", "pop", "virtual", "valued", "locked", "xrlValued",
     "trace", "nulling"}

\* The settings of v are those of w, and v has the fields of a valuator.
SameSettings(v, w) ==
    /\ DOMAIN v = Fields
    /\ v.valued = w.valued /\ v.locked = w.locked /\ v.xrlValued = w.xrlValued
    /\ v.nulling = w.nulling

(* Settings kept twice are kept. *)
LEMMA SettingsAreTransitive ==
    ASSUME NEW u, NEW v, NEW w, SameSettings(u, v), SameSettings(v, w)
    PROVE  SameSettings(u, w)
BY DEF SameSettings

(* The next nook: no setting changes. *)
LEMMA PoppedKeeps ==
    ASSUME NEW v, DOMAIN v = Fields
    PROVE  SameSettings(Popped(v), v)
BY DEF Popped, SameSettings, Fields

(* The token of a nook: no setting changes. *)
LEMMA TokenVisitedKeeps ==
    ASSUME NEW v, DOMAIN v = Fields, NEW nook
    PROVE  SameSettings(TokenVisited(v, nook), v)
<1> DEFINE placed == [v EXCEPT !.argN = @ + 1, !.arg0 = v.argN + 1]
<1>1. SameSettings(placed, v)
  BY DEF SameSettings, Fields
<1>2. \A a, b, c, d : SameSettings([placed EXCEPT !.token = a, !.xsy = b, !.value = c,
                                                 !.tokenStart = d], placed)
  BY <1>1 DEF SameSettings, Fields
<1>3. \A a, b, c : SameSettings([placed EXCEPT !.token = a, !.xsy = b, !.tokenStart = c], placed)
  BY <1>1 DEF SameSettings, Fields
<1>4. \A a : SameSettings([placed EXCEPT !.token = a], placed)
  BY <1>1 DEF SameSettings, Fields
<1>5. \A a : SameSettings([v EXCEPT !.token = a], v)
  BY DEF SameSettings, Fields
<1> HIDE DEF placed
<1>6. SameSettings(TokenVisited(v, nook), placed) \/ SameSettings(TokenVisited(v, nook), v)
  BY <1>2, <1>3, <1>4, <1>5, Zenon DEF TokenVisited, placed
<1> QED BY <1>1, <1>6, SettingsAreTransitive

(* The rule of a nook: no setting changes. *)
LEMMA RuleVisitedKeeps ==
    ASSUME NEW v, DOMAIN v = Fields, NEW o
    PROVE  SameSettings(RuleVisited(v, o), v)
<1>1. \A a, b, c, d, e : SameSettings([v EXCEPT !.virtual = a, !.arg0 = b, !.pop = c,
                                               !.rule = d, !.ruleStart = e], v)
  BY DEF SameSettings, Fields
<1>2. \A a : SameSettings([v EXCEPT !.virtual = a], v)
  BY DEF SameSettings, Fields
<1>3. SameSettings(v, v)
  BY DEF SameSettings
<1> QED BY <1>1, <1>2, <1>3, Zenon DEF RuleVisited

(* One turn of the loop of marpa_v_step changes no setting. *)
LEMMA VisitedKeeps ==
    ASSUME NEW v, DOMAIN v = Fields
    PROVE  SameSettings(Visited(v), v)
<1> DEFINE
      w == [v EXCEPT !.nook = @ - 1, !.value = -1, !.rule = NoRule]
      At(u, a) == [u EXCEPT !.at = a]
<1>1. SameSettings(w, v)
  BY DEF SameSettings, Fields
<1>2. SameSettings([w EXCEPT !.next = "INACTIVE"], w)
  BY <1>1 DEF SameSettings, Fields
<1>3. SameSettings(Popped(w), w)
  BY <1>1, PoppedKeeps DEF SameSettings
<1>4. \A u, a : DOMAIN u = Fields => SameSettings(At(u, a), u)
  BY DEF SameSettings, Fields
<1>5. \A u, n : DOMAIN u = Fields => SameSettings(RuleVisited(TokenVisited(u, n), n.or), u)
  <2> SUFFICES ASSUME NEW u, NEW n, DOMAIN u = Fields
               PROVE  SameSettings(RuleVisited(TokenVisited(u, n), n.or), u)
    OBVIOUS
  <2>1. SameSettings(TokenVisited(u, n), u)
    BY TokenVisitedKeeps
  <2>2. DOMAIN TokenVisited(u, n) = Fields
    BY <2>1 DEF SameSettings
  <2>3. SameSettings(RuleVisited(TokenVisited(u, n), n.or), TokenVisited(u, n))
    BY <2>2, RuleVisitedKeeps
  <2> QED BY <2>1, <2>3, SettingsAreTransitive
<1> DEFINE nook == nooks[w.nook]
           at == At(Popped(w), nook.or.at)
<1>6. Visited(v) = IF w.nook < 1 THEN [w EXCEPT !.next = "INACTIVE"]
                   ELSE RuleVisited(TokenVisited(at, nook), nook.or)
  BY Zenon DEF Visited
<1> HIDE DEF w
<1>7. SameSettings(at, Popped(w)) /\ DOMAIN at = Fields
  BY <1>3, <1>4, Zenon DEF SameSettings
<1>8. SameSettings(RuleVisited(TokenVisited(at, nook), nook.or), at)
  <2> HIDE DEF at, nook
  <2> QED BY <1>5, <1>7
<1>9. SameSettings(Visited(v), w)
  BY <1>2, <1>3, <1>6, <1>7, <1>8, SettingsAreTransitive
<1> QED BY <1>1, <1>9, SettingsAreTransitive

-----------------------------------------------------------------------------
(***************************************************************************)
(* The turns of the loop, one after the other.                             *)
(***************************************************************************)
\* The valuator after each turn, up to turn n.
Turns(f, begun, n) ==
    f = [k \in 0 .. n |->
           IF k = 0 THEN Visited(begun)
           ELSE IF IsFound(f[k - 1]) THEN f[k - 1]
           ELSE Visited(f[k - 1])]

(* The recursive function over the turns of that loop exists. *)
LEMMA TurnsExist ==
    ASSUME NEW begun, NEW size \in Nat
    PROVE  \E f : Turns(f, begun, size)
<1> DEFINE T == {n \in Nat : \E f : Turns(f, begun, n)}
<1>1. 0 \in T
  <2>1. Turns([k \in 0 .. 0 |-> Visited(begun)], begun, 0)
    BY DEF Turns
  <2> QED BY <2>1
<1>2. ASSUME NEW n \in Nat, n \in T PROVE n + 1 \in T
  <2>1. PICK f : Turns(f, begun, n)
    BY <1>2
  <2> DEFINE Next1(u) == IF IsFound(u) THEN u ELSE Visited(u)
             e == [k \in 0 .. n + 1 |-> IF k = n + 1 THEN Next1(f[n]) ELSE f[k]]
  <2>2. \A k \in 0 .. n + 1 : e[k] = IF k = 0 THEN Visited(begun) ELSE Next1(e[k - 1])
    <3> HIDE DEF Next1
    <3> TAKE k \in 0 .. n + 1
    <3>1. CASE k = n + 1
      BY <3>1
    <3>2. CASE k # n + 1
      <4>1. k \in 0 .. n /\ e[k] = f[k] /\ (k # 0 => k - 1 \in 0 .. n /\ e[k - 1] = f[k - 1])
        BY <3>2
      <4>2. f[k] = IF k = 0 THEN Visited(begun) ELSE Next1(f[k - 1])
        BY <2>1, <4>1 DEF Turns, Next1
      <4> QED BY <4>1, <4>2
    <3> QED BY <3>1, <3>2
  <2>3. Turns(e, begun, n + 1)
    BY <2>2, Zenon DEF Turns
  <2> HIDE DEF e
  <2> QED BY <2>3
<1>3. Nat \subseteq T
  <2> HIDE DEF T
  <2> QED BY <1>1, <1>2, SetInduction
<1> QED BY <1>3

(* The walk to the next step is the last of these turns. *)
LEMMA FoundByTurns ==
    ASSUME NEW v, Len(nooks) \in Nat
    PROVE  \E f, begun :
              /\ begun = [v EXCEPT !.pop = TRUE, !.nook = IF @ < 1 THEN Len(nooks) + 1 ELSE @]
              /\ Turns(f, begun, Len(nooks))
              /\ Found(v) = f[Len(nooks)]
<1> DEFINE begun == [v EXCEPT !.pop = TRUE, !.nook = IF @ < 1 THEN Len(nooks) + 1 ELSE @]
           f == CHOOSE h : Turns(h, begun, Len(nooks))
<1>1. Turns(f, begun, Len(nooks))
  <2> HIDE DEF begun
  <2> QED BY TurnsExist
<1>2. Found(v) = f[Len(nooks)]
  BY Zenon DEF Found, Turns
<1> HIDE DEF f
<1> QED BY <1>1, <1>2

(* A walk of any number of turns changes no setting. *)
LEMMA FoundKeeps ==
    ASSUME NEW v, DOMAIN v = Fields, Len(nooks) \in Nat
    PROVE  SameSettings(Found(v), v)
<1>1. PICK f, begun :
          /\ begun = [v EXCEPT !.pop = TRUE, !.nook = IF @ < 1 THEN Len(nooks) + 1 ELSE @]
          /\ Turns(f, begun, Len(nooks))
          /\ Found(v) = f[Len(nooks)]
  BY FoundByTurns
<1>2. SameSettings(begun, v)
  BY <1>1 DEF SameSettings, Fields
<1> DEFINE T == {n \in Nat : n \in 0 .. Len(nooks) => SameSettings(f[n], v)}
<1>3. 0 \in T
  <2>1. f[0] = Visited(begun)
    BY <1>1 DEF Turns
  <2>2. SameSettings(Visited(begun), begun)
    BY <1>2, VisitedKeeps DEF SameSettings
  <2> QED BY <1>2, <2>1, <2>2, SettingsAreTransitive
<1>4. ASSUME NEW n \in Nat, n \in T PROVE n + 1 \in T
  <2> SUFFICES ASSUME n + 1 \in 0 .. Len(nooks) PROVE SameSettings(f[n + 1], v)
    OBVIOUS
  <2>1. SameSettings(f[n], v)
    BY <1>4
  <2>2. f[n + 1] = f[n] \/ f[n + 1] = Visited(f[n])
    BY <1>1 DEF Turns
  <2>3. SameSettings(Visited(f[n]), f[n])
    BY <2>1, VisitedKeeps DEF SameSettings
  <2> QED BY <2>1, <2>2, <2>3, SettingsAreTransitive
<1>5. Nat \subseteq T
  <2> HIDE DEF T
  <2> QED BY <1>3, <1>4, SetInduction
<1> QED BY <1>1, <1>5

-----------------------------------------------------------------------------
(***************************************************************************)
(* A step of marpa_v_step, and the invariant.                              *)
(***************************************************************************)
LEMMA ToldKeeps ==
    ASSUME NEW v, DOMAIN v = Fields
    PROVE  SameSettings(Told(v), v)
<1>1. SameSettings(Inactive(v), v) /\ SameSettings(TraceTold(v), v) /\ SameSettings(RuleTold(v), v)
  BY DEF Inactive, TraceTold, RuleTold, SameSettings, Fields
<1>2. \A a, b : SameSettings([v EXCEPT !.next = "RULE", !.result = a, !.step = b], v)
  BY DEF SameSettings, Fields
<1> QED BY <1>1, <1>2, Zenon DEF Told

\* The settings as the first step leaves them: the symbols are locked, and the rules are
\* those of the valued symbols.
RulesOf(symbols) == {x \in G.xrl : G.xrlLhs[x] \in symbols}
Settled(v) == v.locked = Xsy /\ v.xrlValued = RulesOf(v.valued)

\* The first step settles all of them; later ones, and those of a nulling tree, none.
LEMMA SteppedKeeps ==
    ASSUME NEW v, DOMAIN v = Fields, Len(nooks) \in Nat
    PROVE  /\ ~ v.nulling /\ v.next = "INITIAL" =>
                  /\ DOMAIN Stepped(v) = Fields /\ Stepped(v).valued = v.valued
                  /\ Stepped(v).nulling = v.nulling /\ Settled(Stepped(v))
           /\ v.nulling \/ v.next # "INITIAL" => SameSettings(Stepped(v), v)
<1> DEFINE w == Stepped(v)
<1>1. CASE v.nulling
  <2>1. \A a, b : SameSettings([v EXCEPT !.xsy = StartXsy, !.tokenStart = 0, !.at = 0,
                 !.result = 0, !.arg0 = 0, !.argN = 0, !.step = a, !.next = b], v)
    BY DEF SameSettings, Fields
  <2>2. SameSettings(NullingStep(v), v) /\ NullingStep(v).next = "INACTIVE"
    <3>1. SameSettings(NullingStep(v), v)
      BY <2>1, Zenon DEF NullingStep
    <3>2. NullingStep(v).next = "INACTIVE"
      BY DEF NullingStep, Fields
    <3> QED BY <3>1, <3>2
  <2> QED BY <1>1, <2>2 DEF Stepped, SameSettings
<1>2. CASE ~ v.nulling /\ ~ IsActive(v)
  <2>1. SameSettings(Inactive(v), v)
    BY DEF Inactive, SameSettings, Fields
  <2> QED BY <1>2, <2>1 DEF Stepped, IsActive, SameSettings
<1>3. ASSUME NEW u, DOMAIN u = Fields
      PROVE  SameSettings(Told(Found(u)), u)
  <2>1. SameSettings(Found(u), u)
    BY <1>3, FoundKeeps
  <2>2. SameSettings(Told(Found(u)), Found(u))
    BY <2>1, ToldKeeps DEF SameSettings
  <2> QED BY <2>1, <2>2, SettingsAreTransitive
<1>4. CASE ~ v.nulling /\ v.next = "INITIAL"
  <2>1. DOMAIN Begun(v) = Fields /\ Begun(v).valued = v.valued /\ Begun(v).nulling = v.nulling
        /\ Settled(Begun(v))
    BY DEF Begun, Settled, Fields, RulesOf
  <2>2. SameSettings(Told(Found(Begun(v))), Begun(v))
    BY <1>3, <2>1
  <2>3. w = Told(Found(Begun(v)))
    BY <1>4 DEF Stepped, IsActive
  <2>4. /\ DOMAIN w = Fields /\ w.valued = v.valued /\ w.nulling = v.nulling
        /\ Settled(w)
    BY <2>1, <2>2, <2>3 DEF SameSettings, Settled
  <2>5. ~ (v.nulling \/ v.next # "INITIAL")
    BY <1>4
  <2> HIDE DEF w
  <2> QED BY <2>4, <2>5, Zenon DEF w
<1>5. CASE ~ v.nulling /\ IsActive(v) /\ v.next # "INITIAL"
  <2>1. SameSettings(RuleTold(v), v) /\ SameSettings(TraceTold(v), v)
    BY DEF RuleTold, TraceTold, SameSettings, Fields
  <2>2. SameSettings(w, v)
    BY <1>3, <1>5, <2>1 DEF Stepped, AfterRule
  <2> QED BY <1>5, <2>2 DEF SameSettings
<1> QED BY <1>1, <1>2, <1>4, <1>5

ValuatorInv ==
    valuator # NoValuator =>
        /\ DOMAIN valuator = Fields
        /\ valuator.locked \subseteq Xsy /\ valuator.valued \subseteq Xsy
        /\ ~ valuator.nulling /\ valuator.next # "INITIAL" => Settled(valuator)

\* A valuator begins with what the recognizer knows of the symbols.
LEMMA NewValuatorIsOpen ==
    ASSUME ForestInv
    PROVE  /\ DOMAIN NewValuator = Fields /\ NewValuator.next = "INITIAL"
           /\ NewValuator.locked \subseteq Xsy /\ NewValuator.valued \subseteq Xsy
<1>1. locked \subseteq Xsy /\ canBeValued \subseteq Xsy /\ G.valued \subseteq Xsy
  BY GrammarAssumption DEF ForestInv, TypeInv, TypeOK, Xsy
<1>2. /\ DOMAIN NewValuator = Fields /\ NewValuator.next = "INITIAL"
      /\ NewValuator.locked = locked /\ NewValuator.valued = ValuedInBocage
  BY DEF NewValuator, Fields
<1> QED BY <1>1, <1>2 DEF ValuedInBocage

\* What a change of the settings may do: lock further symbols, and change the value of
\* those that were not locked.
Resettled(v, w) ==
    /\ DOMAIN w = Fields /\ w.next = v.next /\ w.nulling = v.nulling /\ w.xrlValued = v.xrlValued
    /\ v.locked \subseteq w.locked /\ w.locked \subseteq Xsy /\ w.valued \subseteq Xsy
    /\ \A x \in v.locked : (x \in v.valued) = (x \in w.valued)

(* marpa_v_symbol_is_valued_set changes no symbol that is locked. *)
LEMMA SymbolSetResettles ==
    ASSUME NEW x \in Xsy, NEW value \in BOOLEAN, SymbolSet(x, value), ValuatorInv,
           valuator # NoValuator
    PROVE  Resettled(valuator, valuator')
<1> DEFINE v == valuator
<1>1. DOMAIN v = Fields /\ v.locked \subseteq Xsy /\ v.valued \subseteq Xsy
  BY DEF ValuatorInv
<1>2. CASE valuator' = v
  BY <1>1, <1>2 DEF Resettled
<1>3. CASE ~ Conflicts(x, value)
  <2>1. x \in v.locked => ((x \in v.valued) <=> value)
    BY <1>3 DEF Conflicts
  <2>2. PICK w : w = [v EXCEPT !.locked = v.locked \cup {x},
                              !.valued = IF value THEN v.valued \cup {x} ELSE v.valued \ {x}]
    OBVIOUS
  <2>3. w = valuator'
    BY <1>3, <2>2 DEF SymbolSet
  <2>4. /\ DOMAIN w = Fields /\ w.next = v.next /\ w.nulling = v.nulling
        /\ w.xrlValued = v.xrlValued /\ w.locked = v.locked \cup {x}
        /\ w.valued = IF value THEN v.valued \cup {x} ELSE v.valued \ {x}
    BY <1>1, <2>2 DEF Fields
  <2>5. \A y \in v.locked : (y \in v.valued) <=> (y \in w.valued)
    BY <2>1, <2>4
  <2> QED BY <1>1, <2>3, <2>4, <2>5 DEF Resettled
<1> QED BY <1>2, <1>3 DEF SymbolSet

(* marpa_v_valued_force succeeds only if no symbol is locked otherwise. *)
LEMMA ForceResettles ==
    ASSUME ValuedForce, ValuatorInv
    PROVE  Resettled(valuator, valuator')
<1> DEFINE v == valuator
           refused == v.locked \ v.valued
<1>1. DOMAIN v = Fields /\ v.locked \subseteq Xsy /\ v.valued \subseteq Xsy
  BY DEF ValuatorInv, ValuedForce, HasValuator
<1>2. PICK forced \in IF refused = {} THEN {Xsy} ELSE SUBSET (Xsy \ refused) :
          valuator' = [v EXCEPT !.locked = v.locked \cup forced, !.valued = v.valued \cup forced]
  BY DEF ValuedForce
<1>3. forced \subseteq Xsy /\ forced \cap refused = {}
  BY <1>2
<1>4. PICK w : w = [v EXCEPT !.locked = v.locked \cup forced, !.valued = v.valued \cup forced]
  OBVIOUS
<1>5. /\ DOMAIN w = Fields /\ w.next = v.next /\ w.nulling = v.nulling
      /\ w.xrlValued = v.xrlValued /\ w.locked = v.locked \cup forced
      /\ w.valued = v.valued \cup forced
  BY <1>1, <1>4 DEF Fields
<1>6. \A y \in v.locked : (y \in v.valued) <=> (y \in w.valued)
  BY <1>3, <1>5
<1> QED BY <1>1, <1>2, <1>3, <1>4, <1>5, <1>6 DEF Resettled

(* Every setting, whichever call makes it. *)
LEMMA SettingResettles ==
    ASSUME Setting, ValuatorInv
    PROVE  valuator # NoValuator /\ Resettled(valuator, valuator')
<1>1. valuator # NoValuator
  BY DEF Setting, SymbolIsValuedSet, RuleIsValuedSet, ValuedForce, TraceSet, HasValuator
<1>2. ASSUME NEW value \in BOOLEAN, NEW x \in SettableXsys, SymbolIsValuedSet(x, value)
      PROVE  Resettled(valuator, valuator')
  BY <1>1, <1>2, SymbolSetResettles, ValueAssumption DEF SymbolIsValuedSet
<1>3. ASSUME NEW value \in BOOLEAN, NEW xrl \in SettableRules, RuleIsValuedSet(xrl, value)
      PROVE  Resettled(valuator, valuator')
  <2>1. G.xrlLhs[xrl] \in Xsy
    BY ValueAssumption
  <2> QED BY <1>1, <1>3, <2>1, SymbolSetResettles DEF RuleIsValuedSet
<1>4. ASSUME NEW flag \in BOOLEAN, TraceSet(flag)
      PROVE  Resettled(valuator, valuator')
  BY <1>1, <1>4 DEF TraceSet, Resettled, ValuatorInv, Fields
<1> QED BY <1>1, <1>2, <1>3, <1>4, ForceResettles DEF Setting

\* A setting that respects the locks keeps the invariant and what it says is settled.
LEMMA ResettledKeeps ==
    ASSUME ValuatorInv, valuator # NoValuator, Resettled(valuator, valuator')
    PROVE  ValuatorInv' /\ ValuedIsKept
<1> DEFINE v == valuator
<1>1. /\ DOMAIN v = Fields /\ v.locked \subseteq Xsy /\ v.valued \subseteq Xsy
      /\ ~ v.nulling /\ v.next # "INITIAL" => Settled(v)
  BY DEF ValuatorInv
<1>2. PICK w : w = valuator'
  OBVIOUS
<1>3. Resettled(v, w)
  BY <1>2
<1>4. ~ v.nulling /\ v.next # "INITIAL" => w.valued = v.valued /\ w.locked = Xsy
  BY <1>1, <1>3 DEF Settled, Resettled
<1>5. ~ v.nulling /\ v.next # "INITIAL" => Settled(w)
  BY <1>1, <1>3, <1>4 DEF Settled, Resettled
<1>6. ValuatorInv'
  BY <1>2, <1>3, <1>5 DEF Resettled, ValuatorInv
<1> QED BY <1>1, <1>2, <1>3, <1>4, <1>5, <1>6 DEF Resettled, Settled, RulesOf, ValuedIsKept

(* marpa_v_step changes no setting but that its first call locks them all. *)
LEMMA StepKeepsSettings ==
    ASSUME ValuatorInv, NookInv, ValueStep
    PROVE  ValuatorInv' /\ ValuedIsKept
<1> DEFINE v == valuator
<1>1. v # NoValuator /\ valuator' = Stepped(v)
  BY DEF ValueStep, HasValuator
<1>2. /\ DOMAIN v = Fields /\ v.locked \subseteq Xsy /\ v.valued \subseteq Xsy
      /\ ~ v.nulling /\ v.next # "INITIAL" => Settled(v)
  BY <1>1 DEF ValuatorInv
<1>3. PICK w : w = Stepped(v)
  OBVIOUS
<1>4. Len(nooks) \in Nat
  BY DEF NookInv
<1>5. /\ ~ v.nulling /\ v.next = "INITIAL" =>
            /\ DOMAIN w = Fields /\ w.valued = v.valued /\ w.nulling = v.nulling /\ Settled(w)
      /\ v.nulling \/ v.next # "INITIAL" => SameSettings(w, v)
  BY <1>2, <1>3, <1>4, SteppedKeeps
<1>6. CASE ~ v.nulling /\ v.next = "INITIAL"
  BY <1>1, <1>2, <1>3, <1>5, <1>6 DEF ValuatorInv, ValuedIsKept, Settled
<1>7. CASE v.nulling
  BY <1>1, <1>2, <1>3, <1>5, <1>7 DEF ValuatorInv, ValuedIsKept, SameSettings
<1>8. CASE ~ v.nulling /\ v.next # "INITIAL"
  <2>1. SameSettings(w, v) /\ Settled(v)
    BY <1>2, <1>5, <1>8
  <2>2. Settled(w)
    BY <2>1 DEF Settled, SameSettings
  <2> QED BY <1>1, <1>2, <1>3, <2>1, <2>2 DEF ValuatorInv, ValuedIsKept, SameSettings, Settled,
                                            RulesOf
<1> QED BY <1>6, <1>7, <1>8

(* Every step keeps the valuator's invariant and what is settled. *)
LEMMA ValuatorStep ==
    ASSUME ForestInv, NookInv, ValuatorInv, [ValueNext]_valuatorVars
    PROVE  ValuatorInv' /\ [ValuedIsKept]_valuatorVars
<1>1. CASE valuator' = valuator /\ (valuator = NoValuator \/ UNCHANGED valuatorVars)
  BY <1>1 DEF ValuatorInv, ValuedIsKept
<1>2. CASE ForestCall
  BY <1>1, <1>2 DEF ForestCall, valueStepVars
<1>3. CASE ValuatorNew
  BY <1>3, NewValuatorIsOpen DEF ValuatorNew, ValuatorInv, ValuedIsKept
<1>4. CASE ValuatorFree
  BY <1>4 DEF ValuatorFree, ValuatorInv, ValuedIsKept
<1>5. CASE Setting
  BY <1>5, SettingResettles, ResettledKeeps
<1>6. CASE UNCHANGED valuatorVars
  BY <1>1, <1>6 DEF valuatorVars, valueStepVars
<1> QED BY <1>2, <1>3, <1>4, <1>5, <1>6, StepKeepsSettings DEF ValueNext

\* Each symbol is valued or not for good by its first use, and all of them and their
\* rules by the first step of the valuator: whatever the application sets afterwards,
\* in whatever order, the steps of one tree agree on which values there are (17496,
\* 17596, 17788).
THEOREM SettledStays == ValueSpec => ValuedIsSettled
<1>1. ValueInit => ValuatorInv
  BY DEF ValueInit, ValuatorInv
<1>2. ForestInv /\ NookInv /\ ValuatorInv /\ [ValueNext]_valuatorVars
        => ValuatorInv' /\ [ValuedIsKept]_valuatorVars
  BY ValuatorStep
<1> QED BY <1>1, <1>2, TreeBelow, PTL DEF ValueSpec, ValuedIsSettled

-----------------------------------------------------------------------------
(***************************************************************************)
(* The order of the nooks: a nook comes before those below it, and these   *)
(* before all that comes after; a cause with all below it comes before the *)
(* predecessor.                                                            *)
(***************************************************************************)
\* A nook after the first that is not below i, none is below i or between the two.
Nested(s) ==
    \A i \in DOMAIN s : \A j \in DOMAIN s : \A k \in DOMAIN s :
        i < j /\ j < k /\ s[j].parent < i => s[k].parent < i \/ s[k].parent >= j

\* The nook of a predecessor is pushed when the cause is done, after that of the cause.
CausesFirst(s) ==
    \A i \in DOMAIN s : \A p \in DOMAIN s : IsKid(s, p, i, "pred") =>
        /\ s[i].causeDone
        /\ \A c \in DOMAIN s : IsKid(s, c, i, "cause") => c < p

\* What comes after a nook with a side that is due is below it.
OpenLast(s) ==
    \A i \in DOMAIN s : \A side \in Sides : IsDue(s, i, side) =>
        \A j \in DOMAIN s : i < j => s[j].parent >= i

\* The order of the stack of nooks.
InOrder(s) == Nested(s) /\ CausesFirst(s) /\ OpenLast(s)

\* The worklist holds the numbers of nooks in their order.
Ascending(work) == \A a \in DOMAIN work : \A b \in DOMAIN work : a < b => work[a] < work[b]

\* The stack is in order whenever a tree exists, and done between two calls.
OrderInv ==
    ForestIsSound /\ ~ bocage.nulling /\ turn # "none" =>
        /\ InOrder(nooks)
        /\ turn = "expand" => Ascending(worklist)
        /\ turn = "idle" /\ parseCount > 0 /\ ~ exhausted => Finished(nooks)

\* New marks or a new choice of the last nook.
LEMMA MarkKeepsOrder ==
    ASSUME NEW s, InOrder(s), NooksAre(s), NEW t, DOMAIN t = DOMAIN s,
           \A i \in DOMAIN s : t[i].parent = s[i].parent /\ KidSide(t[i]) = KidSide(s[i]),
           \A i \in DOMAIN s : i = Len(s) \/ (s[i].causeDone => t[i].causeDone),
           \A i \in DOMAIN s : \A side \in Sides :
               i = Len(s) \/ (IsDue(t, i, side) => IsDue(s, i, side)),
           \A side \in Sides : \A j : ~ IsKid(s, j, Len(s), side)
    PROVE  InOrder(t)
<1>1. \A j : \A i : \A side : IsKid(t, j, i, side) <=> IsKid(s, j, i, side)
  BY DEF IsKid
<1>2. Nested(t)
  BY DEF InOrder, Nested
<1>3. CausesFirst(t)
  BY <1>1 DEF InOrder, CausesFirst, Sides
<1>4. OpenLast(t)
  <2> SUFFICES ASSUME NEW i \in DOMAIN t, NEW side \in Sides, IsDue(t, i, side),
                      NEW j \in DOMAIN t, i < j
               PROVE  t[j].parent >= i
    BY DEF OpenLast
  <2>1. i # Len(s)
    BY DEF NooksAre
  <2> QED BY <2>1 DEF InOrder, OpenLast
<1> QED BY <1>2, <1>3, <1>4 DEF InOrder

\* A nook is pushed for the cause, or else the predecessor, of w; every other nook with a
\* side that is due comes before.
LEMMA PushKeepsOrder ==
    ASSUME NEW s, Shaped(s), InOrder(s), NEW n, n = Len(s) + 1, NEW w \in DOMAIN s,
           NEW side \in Sides, IsDue(s, w, side),
           \A i \in DOMAIN s : \A sd \in Sides : IsDue(s, i, sd) => i <= w,
           NEW t, DOMAIN t = 1 .. n,
           \A i \in DOMAIN s : t[i].parent = s[i].parent /\ KidSide(t[i]) = KidSide(s[i]),
           \A i \in DOMAIN s : s[i].causeDone => t[i].causeDone,
           \A i \in DOMAIN s : \A sd \in Sides : IsDue(t, i, sd) => IsDue(s, i, sd),
           t[w].causeDone, t[n].parent = w, KidSide(t[n]) = side, ~ t[n].causeDone
    PROVE  InOrder(t)
<1>1. /\ n - 1 \in Nat /\ n \in Nat /\ DOMAIN s = 1 .. (n - 1) /\ DOMAIN t = DOMAIN s \cup {n}
      /\ w \in Nat /\ w < n
      /\ \A i \in DOMAIN s : s[i].parent \in Nat /\ i \in Nat /\ i < n
      /\ n \notin DOMAIN s
  <2>1. s \in Seq(NookSet)
    BY DEF Shaped, NooksAre
  <2>2. Len(s) \in Nat /\ DOMAIN s = 1 .. Len(s)
    BY <2>1
  <2>3. \A i \in DOMAIN s : s[i].parent \in Nat
    <3>1. \A nook \in NookSet : nook.parent \in Nat
      BY DEF NookSet
    <3> QED BY <2>1, <3>1
  <2> QED BY <2>2, <2>3
<1>2. \A j \in DOMAIN s : w < j => s[j].parent >= w
  BY DEF InOrder, OpenLast
<1>3. Nested(t)
  <2> SUFFICES ASSUME NEW i \in DOMAIN t, NEW j \in DOMAIN t, NEW k \in DOMAIN t,
                      i < j, j < k, t[j].parent < i
               PROVE  t[k].parent < i \/ t[k].parent >= j
    BY DEF Nested
  <2>1. i \in DOMAIN s /\ j \in DOMAIN s
    BY <1>1
  <2>2. CASE k \in DOMAIN s
    BY <2>1, <2>2 DEF InOrder, Nested
  <2>3. CASE k = n
    <3>1. s[j].parent < i /\ s[j].parent \in Nat
      BY <1>1, <2>1
    <3> QED BY <1>1, <1>2, <2>1, <2>3, <3>1
  <2> QED BY <1>1, <2>2, <2>3
<1>4. \A j \in DOMAIN s : \A i : \A sd : IsKid(t, j, i, sd) <=> IsKid(s, j, i, sd)
  BY <1>1 DEF IsKid
<1>5. \A i : \A sd : IsKid(t, n, i, sd) => i = w /\ sd = side
  BY DEF IsKid
<1>6. CausesFirst(t)
  <2> SUFFICES ASSUME NEW i \in DOMAIN t, NEW p \in DOMAIN t, IsKid(t, p, i, "pred")
               PROVE  /\ t[i].causeDone
                      /\ \A c \in DOMAIN t : IsKid(t, c, i, "cause") => c < p
    BY DEF CausesFirst
  <2>1. CASE p = n
    <3>1. i = w /\ side = "pred"
      BY <1>5, <2>1
    <3>2. \A c \in DOMAIN t : IsKid(t, c, i, "cause") => c \in DOMAIN s
      BY <1>1, <1>5, <3>1
    <3> QED BY <1>1, <2>1, <3>1, <3>2
  <2>2. CASE p \in DOMAIN s
    <3>1. IsKid(s, p, i, "pred")
      BY <1>4, <2>2
    <3>2. i \in DOMAIN s
      BY <1>1, <3>1, KidIs DEF Shaped
    <3>3. s[i].causeDone /\ \A c \in DOMAIN s : IsKid(s, c, i, "cause") => c < p
      BY <2>2, <3>1, <3>2 DEF InOrder, CausesFirst
    <3>4. ~ IsKid(t, n, i, "cause")
      <4> SUFFICES ASSUME IsKid(t, n, i, "cause") PROVE FALSE
        OBVIOUS
      <4>1. i = w /\ side = "cause"
        BY <1>5
      <4> QED BY <3>3, <4>1 DEF IsDue, SideDone
    <3> QED BY <1>1, <1>4, <3>2, <3>3, <3>4
  <2> QED BY <1>1, <2>1, <2>2
<1>7. OpenLast(t)
  <2> SUFFICES ASSUME NEW i \in DOMAIN t, NEW sd \in Sides, IsDue(t, i, sd),
                      NEW j \in DOMAIN t, i < j
               PROVE  t[j].parent >= i
    BY DEF OpenLast
  <2>1. i \in DOMAIN s /\ IsDue(s, i, sd)
    BY <1>1
  <2>2. CASE j = n
    BY <1>1, <2>1, <2>2
  <2>3. CASE j \in DOMAIN s
    BY <2>1, <2>3 DEF InOrder, OpenLast
  <2> QED BY <1>1, <2>2, <2>3
<1> QED BY <1>3, <1>6, <1>7 DEF InOrder

\* The last nook is taken off, so that its side of its parent is due again.
LEMMA PopKeepsOrder ==
    ASSUME NEW s, Shaped(s), InOrder(s), NEW n, n = Len(s), n \in DOMAIN s,
           NEW t, DOMAIN t = 1 .. (n - 1), \A i \in DOMAIN t : SamePlace(s[i], t[i]),
           \A i \in DOMAIN t : \A side \in Sides :
               SideDone(t[i], side) <=> SideDone(s[i], side) /\ ~ IsKid(s, n, i, side)
    PROVE  InOrder(t)
<1>1. /\ n \in Nat /\ DOMAIN s = 1 .. n /\ DOMAIN t \subseteq DOMAIN s
      /\ \A i \in DOMAIN s : s[i].parent \in Nat /\ i \in Nat
      /\ \A i \in DOMAIN t : i < n
  <2>1. s \in Seq(NookSet)
    BY DEF Shaped, NooksAre
  <2>2. Len(s) \in Nat /\ DOMAIN s = 1 .. Len(s)
    BY <2>1
  <2>3. \A i \in DOMAIN s : s[i].parent \in Nat
    <3>1. \A nook \in NookSet : nook.parent \in Nat
      BY DEF NookSet
    <3> QED BY <2>1, <3>1
  <2> QED BY <2>2, <2>3
<1>2. \A i \in DOMAIN t : t[i].parent = s[i].parent /\ KidSide(t[i]) = KidSide(s[i])
                          /\ Chosen(t, i) = Chosen(s, i)
  BY DEF SamePlace, KidSide, Chosen
<1>3. \A j \in DOMAIN t : \A i : \A sd : IsKid(t, j, i, sd) <=> IsKid(s, j, i, sd)
  BY <1>1, <1>2 DEF IsKid
<1>4. Nested(t)
  BY <1>1, <1>2 DEF InOrder, Nested
<1>5. CausesFirst(t)
  <2> SUFFICES ASSUME NEW i \in DOMAIN t, NEW p \in DOMAIN t, IsKid(t, p, i, "pred")
               PROVE  /\ t[i].causeDone
                      /\ \A c \in DOMAIN t : IsKid(t, c, i, "cause") => c < p
    BY DEF CausesFirst
  <2>1. IsKid(s, p, i, "pred") /\ p \in DOMAIN s /\ i \in DOMAIN s
    BY <1>1, <1>3
  <2>2. s[i].causeDone /\ \A c \in DOMAIN s : IsKid(s, c, i, "cause") => c < p
    BY <2>1 DEF InOrder, CausesFirst
  <2>3. ~ IsKid(s, n, i, "cause")
    BY <1>1, <2>2
  <2>4. t[i].causeDone
    BY <2>2, <2>3 DEF SideDone, Sides
  <2> QED BY <1>1, <1>3, <2>2, <2>4
<1>6. OpenLast(t)
  <2> SUFFICES ASSUME NEW i \in DOMAIN t, NEW sd \in Sides, IsDue(t, i, sd),
                      NEW j \in DOMAIN t, i < j
               PROVE  t[j].parent >= i
    BY DEF OpenLast
  <2>1. i \in DOMAIN s /\ j \in DOMAIN s /\ j < n /\ s[n].parent \in Nat
    BY <1>1
  <2>2. CASE IsDue(s, i, sd)
    BY <1>2, <2>1, <2>2 DEF InOrder, OpenLast
  <2>3. CASE IsKid(s, n, i, sd)
    <3>1. s[n].parent = i
      BY <2>3 DEF IsKid
    <3>2. ~ (s[j].parent < i)
      <4> SUFFICES ASSUME s[j].parent < i PROVE FALSE
        OBVIOUS
      <4>1. s[n].parent < i \/ s[n].parent >= j
        BY <2>1 DEF InOrder, Nested
      <4> QED BY <1>1, <2>1, <3>1, <4>1
    <3> QED BY <1>1, <1>2, <2>1, <3>2
  <2>4. IsDue(s, i, sd) \/ IsKid(s, n, i, sd)
    BY <1>2 DEF IsDue
  <2> QED BY <2>2, <2>3, <2>4
<1> QED BY <1>4, <1>5, <1>6 DEF InOrder

\* What is left to show of a step of the search.
LEMMA OrderKept ==
    ASSUME UNCHANGED <<bocage, order>>, NEW t, t = nooks', NEW work, work = worklist',
           InOrder(t), turn' = "expand" => Ascending(work),
           turn' = "idle" /\ parseCount' > 0 /\ ~ exhausted' => Finished(t)
    PROVE  OrderInv'
<1>1. \A i : \A side : IsDue(nooks, i, side)' <=> IsDue(t, i, side)
  BY DEF IsDue, Chosen, SideOf, SideDone
<1>2. InOrder(nooks)' <=> InOrder(t)
  <2>1. Nested(nooks)' <=> Nested(t)
    BY DEF Nested
  <2>2. CausesFirst(nooks)' <=> CausesFirst(t)
    BY DEF CausesFirst, IsKid, KidSide
  <2>3. OpenLast(nooks)' <=> OpenLast(t)
    BY <1>1 DEF OpenLast
  <2> QED BY <2>1, <2>2, <2>3 DEF InOrder
<1>3. Finished(nooks)' <=> Finished(t)
  BY <1>1 DEF Finished
<1>4. Ascending(worklist)' <=> Ascending(work)
  BY DEF Ascending
<1> QED BY <1>2, <1>3, <1>4 DEF OrderInv

\* The nooks are in order, and so is the worklist.
Ordering == Searching /\ OrderInv

\* A nook is marked as expanded.
MarkedMore(nook, mark) ==
    /\ SamePlace(nook, mark)
    /\ nook.causeDone => mark.causeDone
    /\ nook.predDone => mark.predDone

\* A mark on the last nook, or one that its kid has made, keeps the order.
LEMMA OrderMark ==
    ASSUME NEW s, Shaped(s), InOrder(s), NEW w \in DOMAIN s,
           NEW t, DOMAIN t = DOMAIN s, \A i \in DOMAIN s \ {w} : t[i] = s[i],
           MarkedMore(s[w], t[w])
    PROVE  InOrder(t)
<1>1. NooksAre(s) /\ KidsAre(s)
  BY DEF Shaped
<1>3. \A i \in DOMAIN s : /\ SamePlace(s[i], t[i])
                          /\ s[i].causeDone => t[i].causeDone
                          /\ s[i].predDone => t[i].predDone
  BY DEF SamePlace, MarkedMore
<1>4. \A i \in DOMAIN s : t[i].parent = s[i].parent /\ KidSide(t[i]) = KidSide(s[i])
                          /\ Chosen(t, i) = Chosen(s, i)
  BY <1>3 DEF SamePlace, KidSide, Chosen
<1>5. \A i \in DOMAIN s : \A side \in Sides : IsDue(t, i, side) => IsDue(s, i, side)
  BY <1>3, <1>4 DEF IsDue, SideDone
<1> QED BY <1>1, <1>3, <1>4, <1>5, LastHasNoKid, MarkKeepsOrder

\* The next choice of the last nook leaves the nooks before it alone.
LEMMA OrderNextChoice ==
    ASSUME Ordering, NookInv, NextChoice
    PROVE  OrderInv'
<1> PICK s : s = nooks
  OBVIOUS
<1> PICK t : t = nooks'
  OBVIOUS
<1> PICK n : n = Len(nooks)
  OBVIOUS
<1>1. Shaped(s) /\ NooksAre(s) /\ KidsAre(s) /\ InOrder(s)
  BY DEF Ordering, Searching, SearchInv, Shaped, OrderInv
<1>2. n \in DOMAIN s /\ n = Len(s) /\ DOMAIN s = 1 .. n
  BY <1>1 DEF NooksAre, NextChoice
<1>3. /\ t = [i \in DOMAIN s |-> t[i]]
      /\ \A i \in DOMAIN s \ {n} : t[i] = s[i]
      /\ NextNook(s[n], t[n])
  <2>1. PICK nook \in NookSet : nook = s[n]
    BY <1>1, <1>2 DEF NooksAre
  <2>2. PICK m : m = nook.choice + 1
    OBVIOUS
  <2>3. /\ t = [i \in DOMAIN s |-> t[i]]
        /\ \A i \in DOMAIN s \ {n} : t[i] = s[i]
        /\ t[n] = [nook EXCEPT !.choice = m, !.causeDone = FALSE, !.predDone = FALSE]
    BY <1>2, <2>1, <2>2 DEF NextChoice
  <2> QED BY <2>1, <2>2, <2>3, NextNookIs
<1>4. InOrder(t)
  <2>1. DOMAIN t = DOMAIN s
    BY <1>3
  <2>2. \A i \in DOMAIN s : t[i].parent = s[i].parent /\ KidSide(t[i]) = KidSide(s[i])
    BY <1>3 DEF NextNook, KidSide
  <2>3. \A i \in DOMAIN s : i # n => t[i] = s[i] /\ Chosen(t, i) = Chosen(s, i)
    BY <1>3 DEF Chosen
  <2>4. \A i \in DOMAIN s : i # n => \A side : IsDue(t, i, side) <=> IsDue(s, i, side)
    BY <2>3 DEF IsDue
  <2> QED BY <1>1, <1>2, <2>1, <2>2, <2>3, <2>4, LastHasNoKid, MarkKeepsOrder
<1> PICK work : work = worklist'
  OBVIOUS
<1>5. Ascending(work)
  <2>1. work = [i \in DOMAIN s |-> i]
    BY DEF NextChoice, AllNooks
  <2> QED BY <2>1 DEF Ascending
<1>6. turn' = "expand" /\ UNCHANGED <<bocage, order>>
  BY DEF NextChoice, ForestUnchanged, orderVars
<1> QED BY <1>4, <1>5, <1>6, OrderKept

\* The last nook is popped.
LEMMA OrderPopNook ==
    ASSUME Ordering, NookInv, PopNook
    PROVE  OrderInv'
<1> PICK s : s = nooks
  OBVIOUS
<1> PICK t : t = nooks'
  OBVIOUS
<1> PICK n : n = Len(nooks)
  OBVIOUS
<1>1. Shaped(s) /\ NooksAre(s) /\ RootIs(s) /\ KidsAre(s) /\ InOrder(s)
  BY DEF Ordering, Searching, SearchInv, Shaped, OrderInv
<1>2. n \in DOMAIN s /\ n = Len(s)
  BY <1>1 DEF NooksAre, PopNook
<1>3. t = Front(Unexpanded(s[n]))
  BY DEF PopNook, TopNook
<1>4. /\ DOMAIN t = 1 .. (n - 1)
      /\ \A i \in DOMAIN t : SamePlace(s[i], t[i])
      /\ \A i \in DOMAIN t : \A side \in Sides :
            SideDone(t[i], side) <=> SideDone(s[i], side) /\ ~ IsKid(s, n, i, side)
  BY <1>1, <1>2, <1>3, UnexpandedIs
<1>5. InOrder(t)
  BY <1>1, <1>2, <1>4, PopKeepsOrder
<1>6. turn' = "iterate" /\ UNCHANGED <<bocage, order>>
  BY DEF PopNook, ForestUnchanged, orderVars
<1> PICK work : work = worklist'
  OBVIOUS
<1> QED BY <1>5, <1>6, OrderKept

\* A nook that closes a cycle ends the expansion.
LEMMA OrderExpandCycle ==
    ASSUME Ordering, NookInv, ExpandCycle
    PROVE  OrderInv'
<1> PICK s : s = nooks
  OBVIOUS
<1> PICK t : t = nooks'
  OBVIOUS
<1> PICK w : w = worklist[Len(worklist)]
  OBVIOUS
<1>1. Shaped(s) /\ w \in DOMAIN s /\ s[w] \in NookSet /\ InOrder(s)
  BY WorkIs DEF ExpandCycle, Ordering, Searching, OrderInv
<1> PICK nook \in NookSet : nook = s[w]
  BY <1>1
<1> PICK mark : mark = [nook EXCEPT !.causeDone = @ \/ PredIsDue]
  OBVIOUS
<1>2. t = [s EXCEPT ![w] = mark]
  BY DEF ExpandCycle
<1>3. /\ DOMAIN t = DOMAIN s /\ \A i \in DOMAIN s \ {w} : t[i] = s[i]
      /\ MarkedMore(s[w], t[w])
  <2>1. MarkedMore(nook, mark)
    BY DEF NookSet, SamePlace, MarkedMore
  <2>2. DOMAIN t = DOMAIN s /\ t[w] = mark /\ \A i \in DOMAIN s \ {w} : t[i] = s[i]
    BY <1>1, <1>2
  <2> QED BY <2>1, <2>2
<1>4. InOrder(t)
  BY <1>1, <1>3, OrderMark
<1>5. turn' = "iterate" /\ UNCHANGED <<bocage, order>>
  BY DEF ExpandCycle, ForestUnchanged, orderVars
<1> PICK work : work = worklist'
  OBVIOUS
<1> QED BY <1>4, <1>5, OrderKept

\* A nook with both sides done leaves the worklist.
LEMMA OrderExpandDone ==
    ASSUME Ordering, NookInv, ExpandDone
    PROVE  OrderInv'
<1> PICK s : s = nooks
  OBVIOUS
<1> PICK t : t = nooks'
  OBVIOUS
<1> PICK w : w = worklist[Len(worklist)]
  OBVIOUS
<1>1. Shaped(s) /\ w \in DOMAIN s /\ s[w] \in NookSet /\ InOrder(s)
  BY WorkIs DEF ExpandDone, Ordering, Searching, OrderInv
<1> PICK nook \in NookSet : nook = s[w]
  BY <1>1
<1> PICK mark : mark = [nook EXCEPT !.causeDone = TRUE, !.predDone = TRUE]
  OBVIOUS
<1>2. t = [s EXCEPT ![w] = mark]
  BY DEF ExpandDone
<1>3. /\ DOMAIN t = DOMAIN s /\ \A i \in DOMAIN s \ {w} : t[i] = s[i]
      /\ MarkedMore(s[w], t[w])
  <2>1. MarkedMore(nook, mark)
    BY DEF NookSet, SamePlace, MarkedMore
  <2>2. DOMAIN t = DOMAIN s /\ t[w] = mark /\ \A i \in DOMAIN s \ {w} : t[i] = s[i]
    BY <1>1, <1>2
  <2> QED BY <2>1, <2>2
<1>4. InOrder(t)
  BY <1>1, <1>3, OrderMark
<1>5. turn = "expand" /\ turn' = "expand" /\ UNCHANGED <<bocage, order>>
  BY DEF ExpandDone, Expanding, ForestUnchanged, orderVars
<1> PICK work : work = worklist'
  OBVIOUS
<1>6. Ascending(work)
  <2>1. Ascending(worklist)
    BY <1>5 DEF Ordering, Searching, OrderInv
  <2>2. work = Front(worklist) /\ worklist \in Seq(Nat) /\ worklist # <<>>
    BY DEF ExpandDone, Expanding, NookInv
  <2>3. \A k \in DOMAIN work : k \in DOMAIN worklist /\ work[k] = worklist[k]
    BY <2>2 DEF Front
  <2> QED BY <2>1, <2>3 DEF Ascending
<1> QED BY <1>4, <1>5, <1>6, OrderKept

\* The nook of a child is pushed.
LEMMA OrderExpandChild ==
    ASSUME Ordering, NookInv, ExpandChild
    PROVE  OrderInv'
<1> PICK s : s = nooks
  OBVIOUS
<1> PICK t : t = nooks'
  OBVIOUS
<1> PICK w : w = worklist[Len(worklist)]
  OBVIOUS
<1> PICK n : n = Len(nooks) + 1
  OBVIOUS
<1>1. /\ Shaped(s) /\ NooksAre(s) /\ DueIn(s, worklist) /\ w \in DOMAIN s /\ s[w] \in NookSet
      /\ CauseIsDue <=> IsDue(s, w, "cause")
      /\ PredIsDue <=> ~ CauseIsDue /\ IsDue(s, w, "pred")
      /\ InOrder(s)
  BY WorkIs DEF ExpandChild, Ordering, Searching, OrderInv
<1>2. turn = "expand" /\ turn' = "expand" /\ UNCHANGED <<bocage, order>>
  BY DEF ExpandChild, Expanding, ForestUnchanged, orderVars
<1> DEFINE side == IF CauseIsDue THEN "cause" ELSE "pred"
<1>3. /\ side \in Sides /\ IsDue(s, w, side)
      /\ side = "cause" <=> CauseIsDue
  BY <1>1 DEF Sides, ExpandChild
<1> HIDE DEF side
<1>4. Ascending(worklist) /\ worklist \in Seq(Nat) /\ worklist # <<>>
  BY <1>2 DEF Ordering, Searching, OrderInv, NookInv, ExpandChild, Expanding
<1>5. \A i \in DOMAIN s : \A sd \in Sides : IsDue(s, i, sd) => i <= w
  <2> SUFFICES ASSUME NEW i \in DOMAIN s, NEW sd \in Sides, IsDue(s, i, sd) PROVE i <= w
    OBVIOUS
  <2>1. PICK k \in DOMAIN worklist : worklist[k] = i
    BY <1>1 DEF DueIn
  <2>2. Len(worklist) \in DOMAIN worklist /\ k <= Len(worklist) /\ w \in Nat
    BY <1>4
  <2> QED BY <1>4, <2>1, <2>2 DEF Ascending
<1>6. n = Len(s) + 1 /\ n \in Nat /\ DOMAIN s = 1 .. (n - 1) /\ s \in Seq(NookSet)
  BY <1>1 DEF NooksAre
<1> PICK nook : nook = s[w]
  OBVIOUS
<1> PICK mark : mark = [nook EXCEPT !.causeDone = TRUE, !.predDone = @ \/ PredIsDue]
  OBVIOUS
<1> PICK u : u = [s EXCEPT ![w] = mark]
  OBVIOUS
<1> PICK kid : kid = Nook(Child, w, CauseIsDue, PredIsDue)
  OBVIOUS
<1>7. t = Append(u, kid)
  BY DEF ExpandChild
<1>8. /\ SamePlace(nook, mark) /\ mark.causeDone /\ (nook.predDone => mark.predDone)
  BY <1>1 DEF NookSet, SamePlace
<1>9. DOMAIN u = 1 .. (n - 1) /\ Len(u) = n - 1
      /\ \A i \in DOMAIN s : u[i] = IF i = w THEN mark ELSE s[i]
  <2>1. u = [i \in 1 .. (n - 1) |-> IF i = w THEN mark ELSE s[i]]
    BY <1>1, <1>6
  <2> QED BY <1>6, <2>1
<1>10. /\ DOMAIN t = 1 .. n /\ t[n] = kid /\ \A i \in DOMAIN s : t[i] = u[i]
  BY <1>6, <1>7, <1>9
<1>11. kid.parent = w /\ KidSide(kid) = side /\ ~ kid.causeDone
  BY <1>3 DEF Nook, KidSide, side
<1>12. \A i \in DOMAIN s : /\ SamePlace(s[i], t[i])
                           /\ s[i].causeDone => t[i].causeDone
                           /\ s[i].predDone => t[i].predDone
  BY <1>8, <1>9, <1>10 DEF SamePlace
<1>13. \A i \in DOMAIN s : t[i].parent = s[i].parent /\ KidSide(t[i]) = KidSide(s[i])
                          /\ Chosen(t, i) = Chosen(s, i)
  BY <1>12 DEF SamePlace, KidSide, Chosen
<1>14. \A i \in DOMAIN s : \A sd \in Sides : IsDue(t, i, sd) => IsDue(s, i, sd)
  BY <1>12, <1>13 DEF IsDue, SideDone
<1>15. InOrder(t)
  <2>1. t[w].causeDone /\ t[n].parent = w /\ KidSide(t[n]) = side /\ ~ t[n].causeDone
    BY <1>1, <1>8, <1>9, <1>10, <1>11
  <2> QED BY <1>1, <1>3, <1>5, <1>6, <1>10, <1>12, <1>13, <1>14, <2>1, PushKeepsOrder
<1> PICK work : work = worklist'
  OBVIOUS
<1>16. Ascending(work)
  <2>1. work = Append(worklist, n)
    BY DEF ExpandChild
  <2>2. \A k \in DOMAIN worklist : worklist[k] < n
    <3>1. \A k \in DOMAIN worklist : worklist[k] \in DOMAIN s
      BY <1>2 DEF NookInv
    <3> QED BY <1>6, <3>1
  <2>3. \A k \in DOMAIN work : \/ k \in DOMAIN worklist /\ work[k] = worklist[k]
                               \/ k = Len(worklist) + 1 /\ work[k] = n
    BY <1>4, <1>6, <2>1
  <2>4. \A k \in DOMAIN worklist : k < Len(worklist) + 1
    BY <1>4
  <2>5. DOMAIN worklist \subseteq Nat /\ Len(worklist) \in Nat
    BY <1>4
  <2> QED BY <1>4, <2>2, <2>3, <2>4, <2>5 DEF Ascending
<1> QED BY <1>2, <1>15, <1>16, OrderKept

\* A tree is done when the worklist is empty.
LEMMA OrderFinished ==
    ASSUME Ordering, NookInv, TreeFinished
    PROVE  OrderInv'
<1> PICK t : t = nooks'
  OBVIOUS
<1> PICK work : work = worklist'
  OBVIOUS
<1>1. /\ turn = "expand" /\ turn' = "idle" /\ worklist = <<>> /\ t = nooks
      /\ UNCHANGED <<bocage, order>>
  BY DEF TreeFinished, ForestUnchanged, orderVars
<1>2. InOrder(t) /\ DueIn(t, worklist)
  BY <1>1 DEF Ordering, Searching, SearchInv, OrderInv
<1>3. Finished(t)
  <2>1. DOMAIN worklist = {}
    BY <1>1
  <2> QED BY <1>2, <2>1 DEF DueIn, Finished
<1> QED BY <1>1, <1>2, <1>3, OrderKept

\* A stack of at most one nook is in order.
LEMMA EmptyInOrder ==
    /\ InOrder(<<>>)
    /\ \A nook : nook = Nook(bocage.top, 0, FALSE, FALSE) => InOrder(<<nook>>)
<1>1. DOMAIN <<>> = {} /\ \A nook : DOMAIN <<nook>> = {1}
  OBVIOUS
<1>2. \A s : DOMAIN s = {} => InOrder(s)
  BY DEF InOrder, Nested, CausesFirst, OpenLast
<1>3. \A s : DOMAIN s = {1} => InOrder(s)
  BY DEF InOrder, Nested, CausesFirst, OpenLast, IsKid
<1> QED BY <1>1, <1>2, <1>3

\* The search begins with the top or-node, or goes on from the last tree.
LEMMA OrderBegin ==
    ASSUME Ordering, PauseInv, TreeNextBegin
    PROVE  OrderInv'
<1> PICK t : t = nooks'
  OBVIOUS
<1> PICK work : work = worklist'
  OBVIOUS
<1>1. UNCHANGED <<bocage, order>> /\ turn = "idle" /\ turn' # "idle"
  BY DEF TreeNextBegin, ForestUnchanged, orderVars
<1>2. CASE parseCount < 1
  <2>1. PICK nook : nook = Nook(bocage.top, 0, FALSE, FALSE)
    OBVIOUS
  <2>2. t = <<nook>> /\ work = <<1>>
    BY <1>2, <2>1 DEF TreeNextBegin
  <2>3. InOrder(t)
    BY <2>1, <2>2, EmptyInOrder
  <2>4. Ascending(work)
    BY <2>2 DEF Ascending
  <2> QED BY <1>1, <2>3, <2>4, OrderKept
<1>3. CASE ~ (parseCount < 1)
  <2>1. t = nooks /\ turn' = "iterate"
    BY <1>3 DEF TreeNextBegin
  <2>2. InOrder(t)
    BY <2>1 DEF Ordering, Searching, OrderInv
  <2> QED BY <1>1, <2>1, <2>2, OrderKept
<1> QED BY <1>2, <1>3

\* Without nooks there is nothing to keep in order.
LEMMA OrderNone ==
    ASSUME UNCHANGED <<bocage, order>>, nooks' = <<>>, turn' = "idle",
           exhausted' \/ parseCount' = 0
    PROVE  OrderInv'
<1> PICK t : t = nooks'
  OBVIOUS
<1> PICK work : work = worklist'
  OBVIOUS
<1>1. InOrder(t)
  BY EmptyInOrder
<1> QED BY <1>1, OrderKept

\* The other calls leave the stack alone.
LEMMA OrderQuiet ==
    ASSUME OrderInv, UNCHANGED <<bocage, order, turn, nooks, worklist, exhausted, parseCount>>
    PROVE  OrderInv'
<1>1. CASE turn # "none" /\ ForestIsSound /\ ~ bocage.nulling
  <2> PICK t : t = nooks'
    OBVIOUS
  <2> PICK work : work = worklist'
    OBVIOUS
  <2>1. /\ InOrder(t) /\ (turn' = "expand" => Ascending(work))
        /\ (turn' = "idle" /\ parseCount' > 0 /\ ~ exhausted' => Finished(t))
    BY <1>1 DEF OrderInv
  <2> QED BY <2>1, OrderKept
<1>2. CASE turn = "none" \/ ~ ForestIsSound \/ bocage.nulling
  <2>1. turn' = "none" \/ ~ ForestIsSound' \/ bocage'.nulling
    BY <1>2, SoundStays
  <2> QED BY <2>1 DEF OrderInv
<1> QED BY <1>1, <1>2

\* Each step keeps OrderInv.
LEMMA OrderStep ==
    ASSUME PauseInv, NookInv, SearchInv, OrderInv, [AllNext]_allVars
    PROVE  OrderInv'
<1>1. CASE turn = "none"
  <2>1. CASE TreeNew
    <3>1. UNCHANGED <<bocage, order>> /\ nooks' = <<>> /\ turn' = "idle" /\ parseCount' = 0
      BY <2>1 DEF TreeNew, ForestUnchanged
    <3> QED BY <3>1, OrderNone
  <2>2. CASE ~ TreeNew
    <3>1. turn' = "none"
      BY <1>1, <2>2 DEF AllNext, treeVars, TreeNext, TreeNextRefused, TreeNextNulling,
               TreeNextBegin,
         Turn, NextChoice, PopNook, NoMoreTrees, ExpandCycle, ExpandChild, ExpandDone, Expanding,
         TreeFinished, ValueNew, ValueFree, allVars
    <3> QED BY <3>1 DEF OrderInv
  <2> QED BY <2>1, <2>2
<1>2. CASE turn # "none"
  <2>0. frozen /\ order # NoOrder
    BY <1>2 DEF PauseInv
  <2>1. CASE Ordering
    <3>1. CASE NextChoice \/ PopNook \/ ExpandCycle \/ ExpandChild \/ ExpandDone
               \/ TreeFinished \/ TreeNextBegin
      BY <2>1, <3>1, OrderNextChoice, OrderPopNook, OrderExpandCycle,
         OrderExpandChild, OrderExpandDone, OrderFinished, OrderBegin
    <3>2. CASE NoMoreTrees
      <4>1. UNCHANGED <<bocage, order>> /\ nooks' = <<>> /\ turn' = "idle" /\ exhausted'
        BY <3>2 DEF NoMoreTrees, TreeExhaust, ForestUnchanged, orderVars
      <4> QED BY <4>1, OrderNone
    <3>3. CASE TreeNextRefused \/ ValueNew \/ ValueFree \/ UNCHANGED allVars
               \/ (OrderCall /\ UNCHANGED treeVars)
      <4>1. UNCHANGED <<bocage, order, turn, nooks, worklist, exhausted, parseCount>>
        BY <2>0, <3>3 DEF TreeNextRefused, ValueNew, ValueFree, ForestUnchanged, orderVars,
           treeVars, allVars, bocageVars, OrderCall, HighRankOnlySet, RankBocage,
           OrderAmbiguityMetric
      <4> QED BY <2>1, <4>1, OrderQuiet DEF Ordering
    <3>4. ~ TreeNew /\ ~ OrderNew /\ ~ TreeNextNulling
      BY <1>2, <2>0, <2>1 DEF TreeNew, OrderNew, TreeNextNulling, Ordering, Searching
    <3>5. CASE AllNext
      <4>1. \/ OrderCall /\ UNCHANGED treeVars
            \/ TreeNext \/ Turn \/ ValueNew \/ ValueFree
        BY <2>0, <3>4, <3>5 DEF AllNext
      <4>2. CASE TreeNext
        BY <3>1, <3>3, <3>4, <4>2 DEF TreeNext
      <4>3. CASE Turn
        BY <3>1, <3>2, <4>3 DEF Turn
      <4> QED BY <3>3, <4>1, <4>2, <4>3
    <3> QED BY <3>3, <3>5
  <2>2. CASE ~ Ordering
    <3>1. UNCHANGED <<bocage, order>>
      <4>1. CASE TreeNext \/ ValueNew \/ ValueFree \/ UNCHANGED allVars \/ OrderCall
        BY <2>0, <4>1 DEF TreeNext, TreeNextRefused, TreeNextNulling, TreeNextBegin,
           ValueNew, ValueFree, ForestUnchanged, orderVars,
           treeVars, allVars, bocageVars, OrderCall, HighRankOnlySet, RankBocage,
           OrderAmbiguityMetric
      <4>2. CASE Turn
        BY <4>2 DEF Turn, NextChoice, PopNook, NoMoreTrees, ExpandCycle, ExpandChild, ExpandDone,
           TreeFinished, ForestUnchanged, orderVars
      <4>3. ~ TreeNew /\ ~ OrderNew
        BY <1>2, <2>0 DEF TreeNew, OrderNew
      <4> QED BY <2>0, <4>1, <4>2, <4>3 DEF AllNext
    <3>2. ~ ForestIsSound \/ bocage.nulling
      BY <1>2, <2>2 DEF Ordering, Searching
    <3>3. ~ ForestIsSound' \/ bocage'.nulling
      BY <3>1, <3>2, SoundStays
    <3> QED BY <3>3 DEF OrderInv
  <2> QED BY <2>1, <2>2
<1> QED BY <1>1, <1>2

\* The only value of a set, as a sequence.
LEMMA FlattenOne ==
    /\ FlattenSeq(SetToSeq({})) = <<>>
    /\ \A x : FlattenSeq(SetToSeq({x})) = x
<1>1. FlattenSeq(SetToSeq({})) = <<>>
  <2>1. Cardinality({}) = 0
    BY FS_EmptySet
  <2>2. [1 .. 0 -> {}] = {<<>>}
    <3>1. ASSUME NEW f \in [1 .. 0 -> {}] PROVE f = <<>>
      <4>1. f \in Seq({}) /\ Len(f) = 0
        OBVIOUS
      <4> QED BY <4>1, EmptySeq
    <3>2. <<>> \in [1 .. 0 -> {}]
      OBVIOUS
    <3> QED BY <3>1, <3>2
  <2>3. IsInjective(<<>>)
    BY DEF IsInjective
  <2>4. SetToSeq({}) = <<>>
    BY <2>1, <2>2, <2>3 DEF SetToSeq
  <2> QED BY <2>4 DEF FlattenSeq
<1>2. ASSUME NEW x PROVE FlattenSeq(SetToSeq({x})) = x
  <2>1. Cardinality({x}) = 1
    BY FS_Singleton
  <2>2. [1 .. 1 -> {x}] = {<<x>>}
    OBVIOUS
  <2>3. IsInjective(<<x>>)
    BY DEF IsInjective
  <2>4. SetToSeq({x}) = <<x>>
    BY <2>1, <2>2, <2>3 DEF SetToSeq
  <2> DEFINE Flat(f) == f = [i \in 1 .. Len(<<x>>) |->
                               IF i = 1 THEN <<x>>[i] ELSE f[i - 1] \o <<x>>[i]]
             f == CHOOSE h : Flat(h)
  <2>5. FlattenSeq(<<x>>) = f[Len(<<x>>)]
    <3>1. Len(<<x>>) # 0
      OBVIOUS
    <3> QED BY <3>1, Zenon DEF FlattenSeq
  <2>6. \E h : Flat(h)
    <3>1. Flat([i \in 1 .. 1 |-> x])
      OBVIOUS
    <3> QED BY <3>1
  <2>7. f[Len(<<x>>)] = x
    <3>1. Flat(f)
      BY <2>6, Zenon
    <3> HIDE DEF f
    <3>2. f[1] = x
      BY <3>1
    <3> QED BY <3>2
  <2> QED BY <2>4, <2>5, <2>7
<1> QED BY <1>1, <1>2

\* What comes before in a concatenation is a prefix of it.
LEMMA ConcatPrefix ==
    ASSUME NEW S, NEW s \in Seq(S), NEW t \in Seq(S)
    PROVE  IsPrefix(s, s \o t)
<1>1. Len(s) <= Len(s \o t) /\ Len(s) \in Nat
  OBVIOUS
<1>2. SubSeq(s \o t, 1, Len(s)) = SubSeq(s, 1, Len(s))
  <2>1. CASE Len(s) = 0
    BY <2>1, SubSeqEmpty
  <2>2. CASE Len(s) # 0
    <3>1. 1 \in 1 .. Len(s) /\ Len(s) \in 1 .. Len(s)
      BY <1>1, <2>2
    <3> QED BY <3>1, SubSeqOfConcat1
  <2> QED BY <2>1, <2>2
<1> QED BY <1>1, <1>2 DEF IsPrefix

-----------------------------------------------------------------------------
(***************************************************************************)
(* What is below a nook stands together on the stack.                      *)
(***************************************************************************)
\* What is below the nook i is from i up to e.
IsEnd(s, i, e) ==
    /\ e \in (i + 1) .. (Len(s) + 1)
    /\ e <= Len(s) => s[e].parent < i
    /\ \A k \in (i + 1) .. (e - 1) : s[k].parent >= i

\* There is an end of what is below a nook.
LEMMA EndExists ==
    ASSUME NEW s, NooksAre(s), NEW i \in DOMAIN s
    PROVE  \E e : IsEnd(s, i, e)
<1>1. s \in Seq(NookSet) /\ Len(s) \in Nat /\ DOMAIN s = 1 .. Len(s) /\ i \in Nat
  BY DEF NooksAre
<1>2. \A k \in DOMAIN s : s[k].parent \in Nat
  <2>1. \A nook \in NookSet : nook.parent \in Nat
    BY DEF NookSet
  <2> QED BY <1>1, <2>1
<1> DEFINE E == {e \in (i + 1) .. (Len(s) + 1) : e <= Len(s) => s[e].parent < i}
<1>3. E \in SUBSET Nat /\ E # {}
  <2>1. Len(s) + 1 \in E
    BY <1>1
  <2> QED BY <1>1, <2>1
<1>4. PICK e \in E : \A m \in E : e <= m
  <2> HIDE DEF E
  <2> QED BY <1>3, LeastNumber
<1>5. ASSUME NEW k \in (i + 1) .. (e - 1)
      PROVE  s[k].parent >= i
  <2>1. k \notin E /\ k \in DOMAIN s
    BY <1>1, <1>4
  <2> QED BY <1>1, <1>2, <2>1
<1> QED BY <1>4, <1>5 DEF IsEnd

\* The order of the kids of a nook: the cause comes first, then the predecessor.
LEMMA KidsInOrder ==
    ASSUME NEW s, Shaped(s), InOrder(s), NEW i \in DOMAIN s, NEW e, IsEnd(s, i, e)
    PROVE  /\ (\A j : \A side : ~ IsKid(s, j, i, side)) => e = i + 1
           /\ \A j : \A side : \A other \in Sides :
                 IsKid(s, j, i, side) /\ other # side /\ (\A k : ~ IsKid(s, k, i, other)) =>
                     j = i + 1 /\ IsEnd(s, j, e)
           /\ \A c : \A p : IsKid(s, c, i, "cause") /\ IsKid(s, p, i, "pred") =>
                 c = i + 1 /\ IsEnd(s, c, p) /\ IsEnd(s, p, e)
<1>1. s \in Seq(NookSet) /\ Len(s) \in Nat /\ DOMAIN s = 1 .. Len(s) /\ i \in Nat
  BY DEF Shaped, NooksAre
<1>2. \A k \in DOMAIN s : s[k].parent \in Nat
  <2>1. \A nook \in NookSet : nook.parent \in Nat
    BY DEF NookSet
  <2> QED BY <1>1, <2>1
<1>3. /\ \A k \in DOMAIN s \ {1} : s[k].parent \in 1 .. (k - 1)
      /\ \A k : \A side : IsKid(s, k, i, side) => k \in DOMAIN s /\ s[k].parent = i /\ i < k
  BY <1>1 DEF Shaped, KidsAre, IsKid
<1>4. \A k \in DOMAIN s : i < k /\ s[k].parent = i =>
          \E side \in Sides : IsKid(s, k, i, side)
  BY <1>1 DEF IsKid, KidSide, Sides
<1>5. \A j : \A k : \A side : IsKid(s, j, i, side) /\ IsKid(s, k, i, side) => j = k
  BY DEF Shaped, KidsDiffer, IsKid
<1>6. /\ e \in Nat /\ i + 1 <= e /\ e <= Len(s) + 1
      /\ e <= Len(s) => s[e].parent < i
      /\ \A k \in DOMAIN s : i < k /\ k < e => s[k].parent >= i
  BY <1>1 DEF IsEnd
<1>7. \A j \in DOMAIN s : \A k \in DOMAIN s :
          i < j /\ j < k /\ s[j].parent < i => s[k].parent < i \/ s[k].parent >= j
  BY DEF InOrder, Nested
<1>8. ASSUME \E j : \E side : IsKid(s, j, i, side)
      PROVE  i + 1 \in DOMAIN s /\ s[i + 1].parent = i
  <2>1. PICK j, side : IsKid(s, j, i, side)
    BY <1>8
  <2>2. j \in DOMAIN s /\ s[j].parent = i /\ i < j /\ j \in Nat /\ j <= Len(s)
    BY <1>1, <1>3, <2>1
  <2>3. i + 1 \in DOMAIN s \ {1}
    BY <1>1, <2>2
  <2>4. s[i + 1].parent \in 1 .. i
    BY <1>1, <1>3, <2>3
  <2>5. ~ (s[i + 1].parent < i)
    BY <1>1, <1>7, <2>2, <2>3
  <2> QED BY <1>1, <2>3, <2>4, <2>5
<1>9. ASSUME \A j : \A side : ~ IsKid(s, j, i, side)
      PROVE  e = i + 1
  <2> SUFFICES ASSUME i + 1 < e PROVE FALSE
    BY <1>1, <1>6
  <2>1. i + 1 \in DOMAIN s \ {1} /\ i < i + 1
    BY <1>1, <1>6
  <2>2. s[i + 1].parent \in 1 .. i /\ s[i + 1].parent >= i
    BY <1>1, <1>3, <1>6, <2>1
  <2>3. s[i + 1].parent = i
    BY <1>1, <2>2
  <2> QED BY <1>4, <1>9, <2>1, <2>3
<1>10. ASSUME NEW j, NEW side, NEW other \in Sides, IsKid(s, j, i, side), other # side,
              \A k : ~ IsKid(s, k, i, other)
       PROVE  j = i + 1 /\ IsEnd(s, j, e)
  <2>1. i + 1 \in DOMAIN s /\ s[i + 1].parent = i /\ i < i + 1
    BY <1>1, <1>8, <1>10
  <2>2. \A k \in DOMAIN s : i < k /\ s[k].parent = i => k = j
    <3>1. side \in Sides
      BY <1>10 DEF IsKid, KidSide, Sides
    <3>2. \A sd \in Sides : sd = side \/ sd = other
      BY <1>10, <3>1 DEF Sides
    <3> QED BY <1>4, <1>5, <1>10, <3>2
  <2>3. j = i + 1
    BY <2>1, <2>2
  <2>4. e # j
    BY <1>1, <1>6, <2>1, <2>3
  <2>5. e \in (j + 1) .. (Len(s) + 1)
    BY <1>1, <1>6, <2>3, <2>4
  <2>6. e <= Len(s) => s[e].parent < j
    BY <1>1, <1>2, <1>6, <2>3
  <2>7. ASSUME NEW k \in (j + 1) .. (e - 1)
        PROVE  s[k].parent >= j
    <3>1. k \in DOMAIN s /\ i < k /\ k < e /\ k # j
      BY <1>1, <1>6, <2>3, <2>7
    <3>2. s[k].parent >= i /\ s[k].parent # i
      BY <1>6, <2>2, <3>1
    <3> QED BY <1>1, <1>2, <2>3, <3>1, <3>2
  <2> QED BY <2>3, <2>5, <2>6, <2>7 DEF IsEnd
<1>11. ASSUME NEW c, NEW p, IsKid(s, c, i, "cause"), IsKid(s, p, i, "pred")
       PROVE  c = i + 1 /\ IsEnd(s, c, p) /\ IsEnd(s, p, e)
  <2>1. /\ c \in DOMAIN s /\ s[c].parent = i /\ i < c
        /\ p \in DOMAIN s /\ s[p].parent = i /\ i < p
    BY <1>3, <1>11
  <2>2. c < p
    BY <1>11, <2>1 DEF InOrder, CausesFirst
  <2>3. i + 1 \in DOMAIN s /\ s[i + 1].parent = i /\ i < i + 1
    BY <1>1, <1>8, <1>11
  <2>4. \A k \in DOMAIN s : i < k /\ s[k].parent = i => k = c \/ k = p
    BY <1>4, <1>5, <1>11 DEF Sides
  <2>5. c = i + 1
    BY <1>1, <2>1, <2>2, <2>3, <2>4
  <2>6. IsEnd(s, c, p)
    <3>1. p \in (c + 1) .. (Len(s) + 1) /\ s[p].parent < c
      BY <1>1, <2>1, <2>2
    <3>2. ASSUME NEW k \in (c + 1) .. (p - 1)
          PROVE  s[k].parent >= c
      <4>1. k \in DOMAIN s /\ i < k /\ k # c /\ k # p /\ k < p
        BY <1>1, <2>1, <3>2
      <4>2. s[k].parent # i
        BY <2>4, <4>1
      <4>3. ~ (s[k].parent < i)
        BY <1>1, <1>7, <2>1, <4>1
      <4> QED BY <1>1, <1>2, <2>5, <4>1, <4>2, <4>3
    <3> QED BY <3>1, <3>2 DEF IsEnd
  <2>7. IsEnd(s, p, e)
    <3>1. ~ (e <= p)
      <4> SUFFICES ASSUME e <= p PROVE FALSE
        OBVIOUS
      <4>1. e \in DOMAIN s /\ s[e].parent < i /\ e # p /\ i < e /\ e < p
        BY <1>1, <1>6, <2>1
      <4>2. s[p].parent < i \/ s[p].parent >= e
        BY <1>7, <2>1, <4>1
      <4> QED BY <1>1, <1>6, <2>1, <4>1, <4>2
    <3>2. e \in (p + 1) .. (Len(s) + 1)
      BY <1>1, <1>6, <2>1, <3>1
    <3>3. e <= Len(s) => s[e].parent < p
      BY <1>1, <1>2, <1>6, <2>1
    <3>4. ASSUME NEW k \in (p + 1) .. (e - 1)
          PROVE  s[k].parent >= p
      <4>1. k \in DOMAIN s /\ i < k /\ k < e /\ k # c /\ k # p /\ p < k
        BY <1>1, <1>6, <2>1, <2>2, <3>4
      <4>2. s[k].parent >= c
        BY <1>1, <1>2, <1>6, <2>4, <2>5, <4>1
      <4>3. s[k].parent < c \/ s[k].parent >= p
        <5>1. c < p /\ p < k /\ s[p].parent < c
          BY <2>1, <2>2, <4>1
        <5> QED BY <2>1, <4>1, <5>1 DEF InOrder, Nested
      <4> QED BY <1>1, <1>2, <2>1, <4>1, <4>2, <4>3
    <3> QED BY <3>2, <3>3, <3>4 DEF IsEnd
  <2> QED BY <2>5, <2>6, <2>7
<1> QED BY <1>9, <1>10, <1>11

-----------------------------------------------------------------------------
(***************************************************************************)
(* The walk of the nooks, from the last to the first.                      *)
(***************************************************************************)
\* The steps that tell of a nook.
StepSet == {"TOKEN", "NULLING_SYMBOL", "RULE"} \X Nat

\* A nook has steps of its own, or none.
LEMMA OwnSteps ==
    ASSUME NEW v, NEW i \in Nat
    PROVE  Own(v, i) \in Seq(StepSet)
<1>1. <<>> \in Seq(StepSet)
  BY EmptySeq
<1>2. \A s : s \in StepSet => <<s>> \in Seq(StepSet)
  OBVIOUS
<1>3. TokenStep(i) \in StepSet /\ RuleStep(i) \in StepSet
  BY DEF TokenStep, RuleStep, StepSet
<1>4. <<TokenStep(i)>> \in Seq(StepSet) /\ <<RuleStep(i)>> \in Seq(StepSet)
  BY <1>2, <1>3
<1>5. OwnToken(v, i) \in Seq(StepSet) /\ OwnRule(v, i) \in Seq(StepSet)
  BY <1>1, <1>4, Zenon DEF OwnToken, OwnRule
<1> QED BY <1>5, ConcatProperties DEF Own

\* The steps of the last k nooks, from the last one backward.
Walks(walk, v) ==
    walk = [k \in 0 .. Len(nooks) |->
              IF k = 0 THEN <<>> ELSE walk[k - 1] \o Own(v, Len(nooks) - k + 1)]

\* There is a walk, defined by recursion over the nooks from the last one.
LEMMA WalkExists ==
    ASSUME NEW v, Len(nooks) \in Nat
    PROVE  \E walk : Walks(walk, v)
<1> DEFINE Next1(f, k) == f[k - 1] \o Own(v, Len(nooks) - k + 1)
           Of(f, n) == /\ DOMAIN f = 0 .. n
                       /\ \A k \in 0 .. n : f[k] = IF k = 0 THEN <<>> ELSE Next1(f, k)
           T == {n \in Nat : \E f : Of(f, n)}
<1>1. 0 \in T
  <2>1. Of([k \in 0 .. 0 |-> <<>>], 0)
    OBVIOUS
  <2> QED BY <2>1
<1>2. ASSUME NEW n \in Nat, n \in T PROVE n + 1 \in T
  <2>1. PICK f : Of(f, n)
    BY <1>2
  <2>2. PICK e : e = [k \in 0 .. n + 1 |-> IF k = n + 1 THEN Next1(f, k) ELSE f[k]]
    OBVIOUS
  <2>3. ASSUME NEW k \in 0 .. n + 1
        PROVE  e[k] = IF k = 0 THEN <<>> ELSE Next1(e, k)
    <3>1. CASE k = n + 1
      <4>1. e[k - 1] = f[k - 1] /\ k # 0
        BY <2>2, <3>1
      <4> QED BY <2>2, <3>1, <4>1
    <3>2. CASE k # n + 1
      <4>1. k \in 0 .. n /\ e[k] = f[k] /\ (k # 0 => e[k - 1] = f[k - 1])
        BY <2>2, <3>2
      <4>2. f[k] = IF k = 0 THEN <<>> ELSE Next1(f, k)
        BY <2>1, <4>1
      <4> QED BY <4>1, <4>2
    <3> QED BY <3>1, <3>2
  <2>4. DOMAIN e = 0 .. n + 1
    BY <2>2
  <2>5. Of(e, n + 1)
    BY <2>3, <2>4
  <2> HIDE DEF Of
  <2> QED BY <2>5
<1>3. Nat \subseteq T
  <2> HIDE DEF T
  <2> QED BY <1>1, <1>2, SetInduction
<1>4. PICK f : Of(f, Len(nooks))
  BY <1>3
<1>5. PICK walk : walk = [k \in 0 .. Len(nooks) |-> f[k]]
  OBVIOUS
<1>6. \A k \in 0 .. Len(nooks) : k # 0 => k - 1 \in 0 .. Len(nooks)
  OBVIOUS
<1>7. walk = [k \in 0 .. Len(nooks) |->
              IF k = 0 THEN <<>> ELSE walk[k - 1] \o Own(v, Len(nooks) - k + 1)]
  BY <1>4, <1>5, <1>6
<1> QED BY <1>7 DEF Walks

\* Concatenation of steps is associative.
LEMMA StepsAssociate ==
    \A a \in Seq(StepSet) : \A b \in Seq(StepSet) : \A c \in Seq(StepSet) :
        (a \o b) \o c = a \o (b \o c)
BY ConcatAssociative

\* Each part of a walk is a prefix of a longer one.
LEMMA WalkIs ==
    ASSUME NEW v, Len(nooks) \in Nat, NEW walk, Walks(walk, v)
    PROVE  /\ walk[0] = <<>>
           /\ \A k \in 1 .. Len(nooks) : walk[k] = walk[k - 1] \o Own(v, Len(nooks) - k + 1)
           /\ \A k \in 0 .. Len(nooks) : walk[k] \in Seq(StepSet)
           /\ \A k \in 0 .. Len(nooks) : \E t \in Seq(StepSet) : walk[Len(nooks)] = walk[k] \o t
<1>1. /\ walk[0] = <<>>
      /\ \A k \in 1 .. Len(nooks) : walk[k] = walk[k - 1] \o Own(v, Len(nooks) - k + 1)
  <2>1. \A k \in 0 .. Len(nooks) : walk[k] =
            IF k = 0 THEN <<>> ELSE walk[k - 1] \o Own(v, Len(nooks) - k + 1)
    BY Zenon DEF Walks
  <2>2. 0 \in 0 .. Len(nooks) /\ \A k \in 1 .. Len(nooks) : k \in 0 .. Len(nooks) /\ k # 0
    OBVIOUS
  <2> QED BY <2>1, <2>2, Zenon
<1>2. \A k \in 1 .. Len(nooks) : Own(v, Len(nooks) - k + 1) \in Seq(StepSet)
  BY OwnSteps
<1> DEFINE T == {k \in Nat : k \in 0 .. Len(nooks) => walk[k] \in Seq(StepSet)}
<1>3. 0 \in T
  BY <1>1, EmptySeq
<1>4. ASSUME NEW k \in Nat, k \in T PROVE k + 1 \in T
  <2> SUFFICES ASSUME k + 1 \in 0 .. Len(nooks) PROVE walk[k + 1] \in Seq(StepSet)
    OBVIOUS
  <2>1. PICK m \in 1 .. Len(nooks) : m = k + 1 /\ m - 1 = k
    OBVIOUS
  <2>2. walk[k] \in Seq(StepSet)
    BY <1>4
  <2>3. PICK own \in Seq(StepSet) : walk[m] = walk[m - 1] \o own
    BY <1>1, <1>2, Zenon
  <2>4. walk[k] \o own \in Seq(StepSet)
    BY <2>2, ConcatProperties
  <2> QED BY <2>1, <2>3, <2>4
<1>5. \A k \in 0 .. Len(nooks) : walk[k] \in Seq(StepSet)
  <2>1. Nat \subseteq T
    <3> HIDE DEF T
    <3> QED BY <1>3, <1>4, SetInduction
  <2> QED BY <2>1
<1> DEFINE After(k) == \E t \in Seq(StepSet) : walk[Len(nooks)] = walk[k] \o t
           P == {n \in Nat : n \in 0 .. Len(nooks) => After(Len(nooks) - n)}
<1>6. 0 \in P
  <2>1. walk[Len(nooks)] = walk[Len(nooks)] \o <<>> /\ <<>> \in Seq(StepSet)
    BY <1>5, ConcatEmptySeq, EmptySeq
  <2>2. Len(nooks) - 0 = Len(nooks)
    OBVIOUS
  <2>3. After(Len(nooks))
    BY <2>1
  <2> QED BY <2>2, <2>3
<1>7. ASSUME NEW n \in Nat, n \in P PROVE n + 1 \in P
  <2> SUFFICES ASSUME n + 1 \in 0 .. Len(nooks) PROVE After(Len(nooks) - (n + 1))
    OBVIOUS
  <2>1. PICK k : k = Len(nooks) - n /\ k \in 1 .. Len(nooks) /\ k - 1 = Len(nooks) - (n + 1)
                 /\ k - 1 \in 0 .. Len(nooks)
    OBVIOUS
  <2>2. PICK t \in Seq(StepSet) : walk[Len(nooks)] = walk[k] \o t
    BY <1>7, <2>1, SMTT(30)
  <2>3. PICK own \in Seq(StepSet) : walk[k] = walk[k - 1] \o own
    BY <1>1, <1>2, <2>1, Zenon
  <2>4. walk[k - 1] \in Seq(StepSet)
    BY <1>5, <2>1
  <2>5. own \o t \in Seq(StepSet)
    BY ConcatProperties
  <2>6. walk[Len(nooks)] = walk[k - 1] \o (own \o t)
    <3>1. walk[Len(nooks)] = (walk[k - 1] \o own) \o t
      BY <2>2, <2>3, Zenon
    <3>2. (walk[k - 1] \o own) \o t = walk[k - 1] \o (own \o t)
      BY <2>2, <2>3, <2>4, StepsAssociate, Zenon
    <3> QED BY <3>1, <3>2, Zenon
  <2>7. After(k - 1)
    BY <2>5, <2>6
  <2> QED BY <2>1, <2>7
<1>8. ASSUME NEW k \in 0 .. Len(nooks)
      PROVE  After(k)
  <2>1. Nat \subseteq P
    <3> HIDE DEF P
    <3> QED BY <1>6, <1>7, SetInduction
  <2>2. PICK n \in Nat : n = Len(nooks) - k /\ Len(nooks) - n = k /\ n \in 0 .. Len(nooks)
    <3>1. /\ Len(nooks) - k \in Nat /\ Len(nooks) - (Len(nooks) - k) = k
          /\ Len(nooks) - k \in 0 .. Len(nooks)
      OBVIOUS
    <3> QED BY <3>1, Zenon
  <2>3. n \in P
    BY <2>1
  <2>4. After(Len(nooks) - n)
    BY <2>2, <2>3
  <2> QED BY <2>2, <2>4
<1> QED BY <1>1, <1>5, <1>8

-----------------------------------------------------------------------------
(***************************************************************************)
(* The evaluation of the tree is what the walk of its nooks tells.         *)
(***************************************************************************)
\* The steps of one side of a nook, and of each nook by those of its sides.
SideSteps(g, i, isCause) == FlattenSeq(SetToSeq({g[j] : j \in NookOf(i, isCause)}))
StepsOf(g, v) ==
    g = [i \in DOMAIN nooks |-> SideSteps(g, i, FALSE) \o SideSteps(g, i, TRUE) \o Own(v, i)]

\* Four sequences of steps in a row, grouped in two ways.
Regroup(a, b, c, d) == ((a \o b) \o c) \o d = a \o ((b \o c) \o d)

\* The two are one.
LEMMA FourAssociate ==
    ASSUME NEW a \in Seq(StepSet), NEW b \in Seq(StepSet), NEW c \in Seq(StepSet),
           NEW d \in Seq(StepSet)
    PROVE  Regroup(a, b, c, d)
<1>1. PICK bc \in Seq(StepSet) : bc = b \o c
  BY ConcatProperties
<1>2. (a \o b) \o c = a \o bc
  BY <1>1, StepsAssociate, ZenonT(60)
<1>3. (a \o bc) \o d = a \o (bc \o d)
  BY StepsAssociate, ZenonT(60)
<1> QED BY <1>1, <1>2, <1>3, Zenon DEF Regroup

\* The nooks that Evaluation looks for are the kids of a nook, all after it.
LEMMA NookOfIs ==
    ASSUME NookInv, Shaped(nooks), NEW i \in DOMAIN nooks
    PROVE  /\ \A j : j \in NookOf(i, TRUE) <=> IsKid(nooks, j, i, "cause")
           /\ \A j : j \in NookOf(i, FALSE) <=> IsKid(nooks, j, i, "pred")
           /\ \A isCause : \A j \in NookOf(i, isCause) : j \in DOMAIN nooks /\ j > i
<1>1. nooks \in Seq(NookSet) /\ DOMAIN nooks = 1 .. Len(nooks) /\ Len(nooks) \in Nat
  BY DEF Shaped, NooksAre
<1>2. \A j \in DOMAIN nooks : nooks[j].isCause \in BOOLEAN
  <2>1. \A nook \in NookSet : nook.isCause \in BOOLEAN
    BY DEF NookSet
  <2> QED BY <1>1, <2>1
<1>3. \A j \in DOMAIN nooks : nooks[j].parent \in 0 .. (j - 1)
  BY DEF NookInv
<1>4. \A j \in DOMAIN nooks : nooks[j].parent = i => j > i /\ j # 1
  BY <1>1, <1>3
<1>5. \A isCause : \A j \in NookOf(i, isCause) : j \in DOMAIN nooks /\ j > i
  BY <1>4 DEF NookOf
<1>6. ASSUME NEW j
      PROVE  /\ j \in NookOf(i, TRUE) <=> IsKid(nooks, j, i, "cause")
             /\ j \in NookOf(i, FALSE) <=> IsKid(nooks, j, i, "pred")
  BY <1>2, <1>4 DEF NookOf, IsKid, KidSide
<1> QED BY <1>5, <1>6

\* There is such a function of the nooks, by recursion from the last one.
LEMMA StepsExist ==
    ASSUME NookInv, Shaped(nooks), NEW v
    PROVE  \E g : StepsOf(g, v)
<1> PICK L : L = Len(nooks)
  OBVIOUS
<1>1. L \in Nat /\ DOMAIN nooks = 1 .. L
  BY DEF Shaped, NooksAre
<1> DEFINE Body(g, i) == SideSteps(g, i, FALSE) \o SideSteps(g, i, TRUE) \o Own(v, i)
           Of(g, n) == DOMAIN g = (L - n + 1) .. L /\ \A i \in (L - n + 1) .. L : g[i] = Body(g, i)
           T == {n \in Nat : n <= L => \E g : Of(g, n)}
<1>2. ASSUME NEW g, NEW e, NEW i \in DOMAIN nooks,
             \A j \in DOMAIN nooks : j > i => e[j] = g[j]
      PROVE  Body(e, i) = Body(g, i)
  <2>1. \A isCause : {e[j] : j \in NookOf(i, isCause)} = {g[j] : j \in NookOf(i, isCause)}
    <3>1. \A isCause : \A j \in NookOf(i, isCause) : e[j] = g[j]
      BY <1>2, NookOfIs
    <3> QED BY <3>1
  <2> QED BY <2>1, Zenon DEF SideSteps
<1>3. 0 \in T
  <2>1. (L - 0 + 1) .. L = {}
    BY <1>1
  <2>2. PICK g : g = [i \in (L - 0 + 1) .. L |-> 0]
    OBVIOUS
  <2>3. Of(g, 0)
    <3> HIDE DEF Body
    <3> QED BY <2>1, <2>2
  <2> HIDE DEF Of
  <2> QED BY <2>3
<1>4. ASSUME NEW n \in Nat, n \in T PROVE n + 1 \in T
  <2>0. n + 1 \in Nat /\ (n + 1 <= L => n <= L)
    BY <1>1
  <2> SUFFICES ASSUME n + 1 <= L PROVE \E g : Of(g, n + 1)
    <3> HIDE DEF Of
    <3> QED BY <2>0
  <2>1. PICK g : Of(g, n)
    <3> HIDE DEF Of
    <3> QED BY <1>4, <2>0
  <2>2. PICK m : m = L - n /\ m \in DOMAIN nooks /\ (L - (n + 1) + 1) .. L = m .. L
                 /\ (L - n + 1) .. L = (m + 1) .. L /\ m \in Nat
    BY <1>1
  <2>3. PICK e : e = [i \in m .. L |-> IF i = m THEN Body(g, m) ELSE g[i]]
    OBVIOUS
  <2>4. ASSUME NEW i \in m .. L
        PROVE  e[i] = Body(e, i)
    <3>1. i \in DOMAIN nooks /\ i >= m
      BY <1>1, <2>2
    <3>2. \A j \in DOMAIN nooks : j > i => e[j] = g[j]
      <4> HIDE DEF Body
      <4> QED BY <1>1, <2>2, <2>3, <3>1
    <3>3. Body(e, i) = Body(g, i)
      BY <1>2, <3>1, <3>2
    <3>4. e[i] = Body(g, i)
      <4>1. CASE i = m
        <5> HIDE DEF Body
        <5> QED BY <2>3, <4>1
      <4>2. CASE i # m
        <5>1. i \in (m + 1) .. L /\ e[i] = g[i]
          <6> HIDE DEF Body
          <6> QED BY <1>1, <2>2, <2>3, <4>2
        <5> HIDE DEF Body
        <5> QED BY <2>1, <2>2, <5>1
      <4> QED BY <4>1, <4>2
    <3> QED BY <3>3, <3>4
  <2>5. DOMAIN e = m .. L
    BY <2>3
  <2>6. Of(e, n + 1)
    <3> HIDE DEF Body
    <3> QED BY <2>2, <2>4, <2>5
  <2> HIDE DEF Of
  <2> QED BY <2>6
<1>5. L \in T
  <2>1. Nat \subseteq T
    <3> HIDE DEF T
    <3> QED BY <1>3, <1>4, SetInduction
  <2> HIDE DEF T
  <2> QED BY <1>1, <2>1
<1>6. PICK g : Of(g, L)
  <2> HIDE DEF Of
  <2> QED BY <1>1, <1>5
<1>7. (L - L + 1) .. L = DOMAIN nooks
  BY <1>1
<1>8. PICK e : e = [i \in DOMAIN nooks |-> g[i]]
  OBVIOUS
<1>9. ASSUME NEW i \in DOMAIN nooks
      PROVE  e[i] = Body(e, i)
  <2>1. Body(e, i) = Body(g, i)
    BY <1>2, <1>8
  <2>2. e[i] = g[i] /\ g[i] = Body(g, i)
    <3> HIDE DEF Body
    <3> QED BY <1>6, <1>7, <1>8
  <2> QED BY <2>1, <2>2
<1>10. e = [i \in DOMAIN nooks |-> Body(e, i)]
  <2> HIDE DEF Body
  <2> QED BY <1>8, <1>9
<1> QED BY <1>10, Zenon DEF StepsOf

\* The evaluation of a tree is the walk of all its nooks, from the last one backward.
LEMMA EvaluationIs ==
    ASSUME NookInv, Shaped(nooks), InOrder(nooks), nooks # <<>>, NEW v,
           NEW walk, Walks(walk, v)
    PROVE  Evaluation(v) = walk[Len(nooks)]
<1> PICK L : L = Len(nooks)
  OBVIOUS
<1>1. L \in Nat /\ DOMAIN nooks = 1 .. L /\ 1 \in DOMAIN nooks /\ NooksAre(nooks)
  BY DEF Shaped, NooksAre
<1> DEFINE g == CHOOSE h : StepsOf(h, v)
<1>2. Evaluation(v) = g[1]
  BY Zenon DEF Evaluation, StepsOf, SideSteps
<1>3. StepsOf(g, v)
  BY StepsExist
<1> HIDE DEF g
<1>4. \A i \in DOMAIN nooks : g[i] = SideSteps(g, i, FALSE) \o SideSteps(g, i, TRUE) \o Own(v, i)
  BY <1>3, Zenon DEF StepsOf
<1>5. /\ walk[0] = <<>>
      /\ \A k \in 1 .. L : walk[k] = walk[k - 1] \o Own(v, L - k + 1)
      /\ \A k \in 0 .. L : walk[k] \in Seq(StepSet)
  BY <1>1, WalkIs
<1>6. \A i \in DOMAIN nooks : Own(v, i) \in Seq(StepSet)
  BY <1>1, OwnSteps
<1>7. ASSUME NEW i \in DOMAIN nooks, NEW isCause
      PROVE  /\ NookOf(i, isCause) = {} => SideSteps(g, i, isCause) = <<>>
             /\ \A j : NookOf(i, isCause) = {j} => SideSteps(g, i, isCause) = g[j]
  <2>1. ASSUME NookOf(i, isCause) = {} PROVE SideSteps(g, i, isCause) = <<>>
    <3>1. {g[j] : j \in NookOf(i, isCause)} = {}
      BY <2>1
    <3> QED BY <3>1, FlattenOne DEF SideSteps
  <2>2. ASSUME NEW j, NookOf(i, isCause) = {j} PROVE SideSteps(g, i, isCause) = g[j]
    <3>1. {g[k] : k \in NookOf(i, isCause)} = {g[j]}
      BY <2>2
    <3> QED BY <3>1, FlattenOne, Zenon DEF SideSteps
  <2> QED BY <2>1, <2>2
\* The walk of the nooks from i on gives the steps of i after those from e on.
<1> DEFINE Adds(i) ==
        /\ g[i] \in Seq(StepSet)
        /\ \A e : IsEnd(nooks, i, e) => walk[L - i + 1] = walk[L - e + 1] \o g[i]
           T == {n \in Nat : \A i \in DOMAIN nooks : i > L - n => Adds(i)}
<1>8. 0 \in T
  <2>1. \A i \in DOMAIN nooks : ~ (i > L - 0)
    BY <1>1
  <2> HIDE DEF Adds
  <2> QED BY <2>1
<1>9. ASSUME NEW n \in Nat, n \in T PROVE n + 1 \in T
  <2> SUFFICES ASSUME NEW i \in DOMAIN nooks, i > L - (n + 1) PROVE Adds(i)
    <3> HIDE DEF Adds
    <3> QED OBVIOUS
  <2>1. ASSUME NEW j \in DOMAIN nooks, j > i PROVE Adds(j)
    <3>1. j > L - n
      BY <1>1, <2>1
    <3> QED BY <1>9, <3>1
  <2>2. PICK e : IsEnd(nooks, i, e)
    BY <1>1, EndExists
  <2> PICK own \in Seq(StepSet) : own = Own(v, i)
    BY <1>6
  <2>3. g[i] = SideSteps(g, i, FALSE) \o SideSteps(g, i, TRUE) \o own
    BY <1>4
  <2>4. walk[L - i + 1] = walk[L - i] \o own
    <3>1. PICK k \in 1 .. L : k = L - i + 1 /\ k - 1 = L - i /\ L - k + 1 = i
      <4>1. L - i + 1 \in 1 .. L /\ L - i + 1 - 1 = L - i /\ L - (L - i + 1) + 1 = i
        BY <1>1
      <4> QED BY <4>1
    <3>2. walk[k] = walk[k - 1] \o Own(v, L - k + 1)
      BY <1>5
    <3> QED BY <3>1, <3>2
  <2>5. \A f : IsEnd(nooks, i, f) => /\ L - f + 1 \in 0 .. L
                                     /\ walk[L - f + 1] \in Seq(StepSet)
    BY <1>1, <1>5 DEF IsEnd
  <2>6. /\ \A j : j \in NookOf(i, TRUE) <=> IsKid(nooks, j, i, "cause")
        /\ \A j : j \in NookOf(i, FALSE) <=> IsKid(nooks, j, i, "pred")
        /\ \A isCause : \A j \in NookOf(i, isCause) : j \in DOMAIN nooks /\ j > i
    BY NookOfIs
  <2>7. \A side : \A j : \A k : IsKid(nooks, j, i, side) /\ IsKid(nooks, k, i, side) => j = k
    BY DEF Shaped, KidsDiffer, IsKid
  <2>8. \A j : \A side : IsKid(nooks, j, i, side) => side \in Sides
    BY DEF IsKid, KidSide, Sides
  <2>9. CASE \A j : \A side : ~ IsKid(nooks, j, i, side)
    <3>1. NookOf(i, TRUE) = {} /\ NookOf(i, FALSE) = {}
      BY <2>6, <2>9
    <3>2. g[i] = own
      <4>1. g[i] = <<>> \o <<>> \o own
        BY <1>7, <2>3, <3>1
      <4>2. <<>> \o <<>> = <<>> /\ <<>> \o own = own
        BY ConcatEmptySeq, EmptySeq
      <4> QED BY <4>1, <4>2
    <3>3. ASSUME NEW f, IsEnd(nooks, i, f)
          PROVE  walk[L - i + 1] = walk[L - f + 1] \o g[i]
      <4>1. f = i + 1
        BY <2>9, <3>3, KidsInOrder
      <4>2. L - f + 1 = L - i
        BY <1>1, <4>1
      <4> QED BY <2>4, <3>2, <4>2
    <3> QED BY <3>2, <3>3
  <2>10. ASSUME NEW j, NEW side, NEW other \in Sides, IsKid(nooks, j, i, side), other # side,
                \A k : ~ IsKid(nooks, k, i, other)
         PROVE  Adds(i)
    <3>1. j \in DOMAIN nooks /\ j > i
      BY <2>6, <2>8, <2>10 DEF Sides
    <3>2. Adds(j)
      BY <2>1, <3>1
    <3> PICK kid \in Seq(StepSet) : kid = g[j]
      BY <3>2
    <3>3. \/ NookOf(i, TRUE) = {} /\ NookOf(i, FALSE) = {j}
          \/ NookOf(i, FALSE) = {} /\ NookOf(i, TRUE) = {j}
      <4>1. CASE side = "cause"
        <5>1. other = "pred"
          BY <2>10, <4>1 DEF Sides
        <5> QED BY <2>6, <2>7, <2>10, <4>1, <5>1
      <4>2. CASE side = "pred"
        <5>1. other = "cause"
          BY <2>10, <4>2 DEF Sides
        <5> QED BY <2>6, <2>7, <2>10, <4>2, <5>1
      <4> QED BY <2>8, <2>10, <4>1, <4>2 DEF Sides
    <3>4. g[i] = kid \o own
      <4>1. g[i] = <<>> \o kid \o own \/ g[i] = kid \o <<>> \o own
        BY <1>7, <2>3, <3>3
      <4>2. <<>> \o kid = kid /\ kid \o <<>> = kid
        BY ConcatEmptySeq
      <4> QED BY <4>1, <4>2
    <3>5. g[i] \in Seq(StepSet)
      BY <3>4, ConcatProperties
    <3>6. ASSUME NEW f, IsEnd(nooks, i, f)
          PROVE  walk[L - i + 1] = walk[L - f + 1] \o g[i]
      <4>1. j = i + 1 /\ IsEnd(nooks, j, f)
        BY <2>10, <3>6, KidsInOrder
      <4>2. walk[L - j + 1] = walk[L - f + 1] \o kid
        BY <3>2, <4>1
      <4>3. L - j + 1 = L - i
        BY <1>1, <4>1
      <4> PICK before \in Seq(StepSet) : before = walk[L - f + 1]
        BY <2>5, <3>6
      <4>4. walk[L - i + 1] = (before \o kid) \o own
        BY <2>4, <4>2, <4>3
      <4>5. (before \o kid) \o own = before \o (kid \o own)
        BY StepsAssociate, ZenonT(60)
      <4> QED BY <3>4, <4>4, <4>5, Zenon
    <3> QED BY <3>5, <3>6
  <2>11. ASSUME NEW c, NEW p, IsKid(nooks, c, i, "cause"), IsKid(nooks, p, i, "pred")
         PROVE  Adds(i)
    <3>1. c \in DOMAIN nooks /\ c > i /\ p \in DOMAIN nooks /\ p > i
      BY <2>6, <2>11
    <3>2. Adds(c) /\ Adds(p)
      BY <2>1, <3>1
    <3> PICK cause \in Seq(StepSet) : cause = g[c]
      BY <3>2
    <3> PICK pred \in Seq(StepSet) : pred = g[p]
      BY <3>2
    <3>3. NookOf(i, TRUE) = {c} /\ NookOf(i, FALSE) = {p}
      BY <2>6, <2>7, <2>11
    <3>4. g[i] = (pred \o cause) \o own
      BY <1>7, <2>3, <3>3
    <3>5. pred \o cause \in Seq(StepSet)
      BY ConcatProperties
    <3>6. g[i] \in Seq(StepSet)
      BY <3>4, <3>5, ConcatProperties
    <3>7. ASSUME NEW f, IsEnd(nooks, i, f)
          PROVE  walk[L - i + 1] = walk[L - f + 1] \o g[i]
      <4>1. c = i + 1 /\ IsEnd(nooks, c, p) /\ IsEnd(nooks, p, f)
        BY <2>11, <3>7, KidsInOrder
      <4>2. walk[L - c + 1] = walk[L - p + 1] \o cause /\ walk[L - p + 1] = walk[L - f + 1] \o pred
        BY <3>2, <4>1
      <4>3. L - c + 1 = L - i
        BY <1>1, <4>1
      <4> PICK before \in Seq(StepSet) : before = walk[L - f + 1]
        BY <2>5, <3>7
      <4>4. walk[L - i + 1] = ((before \o pred) \o cause) \o own
        BY <2>4, <4>2, <4>3
      <4>5. ((before \o pred) \o cause) \o own = before \o ((pred \o cause) \o own)
        <5>1. Regroup(before, pred, cause, own)
          BY FourAssociate, Zenon
        <5> QED BY <5>1, Zenon DEF Regroup
      <4> QED BY <3>4, <4>4, <4>5, Zenon
    <3> QED BY <3>6, <3>7
  <2>12. CASE \E j : \E side : IsKid(nooks, j, i, side)
    <3>1. PICK j, side : IsKid(nooks, j, i, side)
      BY <2>12
    <3>2. PICK other \in Sides : other # side
      BY DEF Sides
    <3>3. CASE \A k : ~ IsKid(nooks, k, i, other)
      BY <2>10, <3>1, <3>2, <3>3
    <3>4. CASE \E k : IsKid(nooks, k, i, other)
      <4>1. PICK k : IsKid(nooks, k, i, other)
        BY <3>4
      <4>2. \/ side = "cause" /\ other = "pred"
            \/ side = "pred" /\ other = "cause"
        BY <2>8, <3>1, <3>2 DEF Sides
      <4> QED BY <2>11, <3>1, <4>1, <4>2
    <3> QED BY <3>3, <3>4
  <2> HIDE DEF Adds
  <2> QED BY <2>9, <2>12
<1>10. Adds(1)
  <2>1. Nat \subseteq T
    <3> HIDE DEF T
    <3> QED BY <1>8, <1>9, SetInduction
  <2> HIDE DEF Adds
  <2>2. L \in T /\ 1 > L - L
    BY <1>1, <2>1
  <2> QED BY <1>1, <2>2
<1>11. IsEnd(nooks, 1, L + 1)
  <2>1. L + 1 \in (1 + 1) .. (L + 1) /\ ~ (L + 1 <= L)
    BY <1>1
  <2>2. \A k \in (1 + 1) .. (L + 1 - 1) : nooks[k].parent >= 1
    BY <1>1 DEF Shaped, KidsAre
  <2> QED BY <2>1, <2>2 DEF IsEnd
<1>12. walk[L] = walk[0] \o g[1] /\ g[1] \in Seq(StepSet)
  <2>1. L - 1 + 1 = L /\ L - (L + 1) + 1 = 0
    BY <1>1
  <2>2. walk[L - 1 + 1] = walk[L - (L + 1) + 1] \o g[1]
    BY <1>10, <1>11
  <2> QED BY <1>10, <2>1, <2>2
<1> QED BY <1>2, <1>5, <1>12, ConcatEmptySeq
-----------------------------------------------------------------------------
(***************************************************************************)
(* What the valuator holds when it stands at a nook.                       *)
(***************************************************************************)
CauseTypes == {"or", "token", "nulling"}

\* A token is that of the nook i.
IsTokenOf(v, i) ==
    /\ CauseOf(i).type = "token" /\ v.xsy = G.sourceXsy[CauseOf(i).sym]
    /\ v.value = CauseOf(i).value /\ v.at = nooks[i].or.at
    /\ v.tokenStart = IF AndOf(nooks[i]).pred = NoOr THEN nooks[i].or.origin
                                                     ELSE AndOf(nooks[i]).pred.at

\* The valuator is to tell of the token and the rule of the nook i what there is to tell.
TellsToken(v, i) ==
    /\ v.nook = i
    /\ OwnToken(v, i) = IF v.token # "dummy" THEN <<TokenStep(i)>> ELSE <<>>
    /\ v.token # "dummy" =>
          TokenStep(i) = <<IF v.token = "nulling" THEN "NULLING_SYMBOL" ELSE "TOKEN", v.nook>>
    /\ v.token \notin {"dummy", "nulling"} => IsTokenOf(v, i)
TellsRule(v, i) == OwnRule(v, i) = IF v.rule # NoRule THEN <<RuleStep(i)>> ELSE <<>>
Tells(v, i) == TellsToken(v, i) /\ TellsRule(v, i)

\* What is noted of the token of a nook is what there is to tell of it.
LEMMA TokenVisitedTells ==
    ASSUME NEW u, DOMAIN u = Fields, NEW i, u.nook = i, u.at = nooks[i].or.at,
           CauseOf(i).type \in CauseTypes
    PROVE  /\ TellsToken(TokenVisited(u, nooks[i]), i)
           /\ TokenVisited(u, nooks[i]).rule = u.rule /\ TokenVisited(u, nooks[i]).next = u.next
<1> DEFINE o == nooks[i].or
           cause == AndOf(nooks[i]).cause
           pred == AndOf(nooks[i]).pred
           start == IF pred = NoOr THEN o.origin ELSE pred.at
           placed == [u EXCEPT !.argN = @ + 1, !.arg0 = u.argN + 1]
           valued == [placed EXCEPT !.token = "valued", !.xsy = G.sourceXsy[cause.sym],
                                    !.value = cause.value, !.tokenStart = start]
           nulling == [placed EXCEPT !.token = "nulling", !.xsy = XsyBefore(o),
                                     !.tokenStart = o.at]
           empty == [placed EXCEPT !.token = "dummy"]
           none == [u EXCEPT !.token = "dummy"]
           w == TokenVisited(u, nooks[i])
<1>1. w = IF cause.type = "token" /\ G.sourceXsy[cause.sym] \in ValuedInBocage THEN valued
          ELSE IF cause.type = "nulling" /\ XsyBefore(o) \in u.valued THEN nulling
          ELSE IF cause.type = "nulling" THEN empty
          ELSE none
  BY Zenon DEF TokenVisited
<1>2. /\ valued.nook = i /\ valued.at = o.at /\ valued.rule = u.rule /\ valued.next = u.next
      /\ valued.token = "valued" /\ valued.xsy = G.sourceXsy[cause.sym]
      /\ valued.value = cause.value /\ valued.tokenStart = start /\ valued.valued = u.valued
  BY DEF Fields
<1>3. /\ nulling.nook = i /\ nulling.rule = u.rule /\ nulling.next = u.next
      /\ nulling.token = "nulling" /\ nulling.valued = u.valued
  BY DEF Fields
<1>4. /\ empty.nook = i /\ empty.rule = u.rule /\ empty.next = u.next
      /\ empty.token = "dummy" /\ empty.valued = u.valued
  BY DEF Fields
<1>5. /\ none.nook = i /\ none.rule = u.rule /\ none.next = u.next
      /\ none.token = "dummy" /\ none.valued = u.valued
  BY DEF Fields
<1> HIDE DEF valued, nulling, empty, none
<1>6. CASE cause.type = "token" /\ G.sourceXsy[cause.sym] \in ValuedInBocage
  <2>1. w = valued
    BY <1>1, <1>6
  <2>2. OwnToken(valued, i) = <<TokenStep(i)>>
    BY <1>6 DEF OwnToken, IsPlaced, IsUnvaluedToken, TokenXsy, CauseOf
  <2>3. TokenStep(i) = <<"TOKEN", i>>
    BY <1>6 DEF TokenStep, CauseOf
  <2>4. IsTokenOf(valued, i)
    BY <1>2, <1>6 DEF IsTokenOf, CauseOf
  <2> QED BY <1>2, <2>1, <2>2, <2>3, <2>4 DEF TellsToken
<1>7. CASE cause.type = "nulling" /\ XsyBefore(o) \in u.valued
  <2>1. w = nulling
    BY <1>1, <1>7
  <2>2. OwnToken(nulling, i) = <<TokenStep(i)>>
    BY <1>3, <1>7 DEF OwnToken, IsPlaced, IsUnvaluedToken, TokenXsy, CauseOf
  <2>3. TokenStep(i) = <<"NULLING_SYMBOL", i>>
    BY <1>7 DEF TokenStep, CauseOf
  <2> QED BY <1>3, <2>1, <2>2, <2>3 DEF TellsToken
<1>8. CASE cause.type = "nulling" /\ XsyBefore(o) \notin u.valued
  <2>1. w = empty
    BY <1>1, <1>8
  <2>2. OwnToken(empty, i) = <<>>
    BY <1>4, <1>8 DEF OwnToken, IsPlaced, IsUnvaluedToken, TokenXsy, CauseOf
  <2> QED BY <1>4, <2>1, <2>2 DEF TellsToken
<1>9. CASE /\ cause.type # "nulling"
           /\ ~ (cause.type = "token" /\ G.sourceXsy[cause.sym] \in ValuedInBocage)
  <2>1. w = none
    BY <1>1, <1>9
  <2>2. cause.type \in {"or", "token"}
    BY <1>9 DEF CauseOf, CauseTypes
  <2>3. OwnToken(none, i) = <<>>
    BY <1>9, <2>2 DEF OwnToken, IsPlaced, IsUnvaluedToken, TokenXsy, CauseOf
  <2> QED BY <1>5, <2>1, <2>3 DEF TellsToken
<1> QED BY <1>6, <1>7, <1>8, <1>9

\* So is what is noted of its rule, which leaves the token alone.
LEMMA RuleVisitedTells ==
    ASSUME NEW u, DOMAIN u = Fields, NEW i, TellsToken(u, i), u.rule = NoRule,
           NoRule \notin u.xrlValued
    PROVE  /\ Tells(RuleVisited(u, nooks[i].or), i)
           /\ RuleVisited(u, nooks[i].or).next = u.next
<1> DEFINE o == nooks[i].or
           r == o.rule
           isValued == G.source[r] \in u.xrlValued
           Real(a, b, d) == [u EXCEPT !.virtual = a, !.arg0 = b, !.pop = TRUE,
                      !.rule = IF isValued THEN G.source[r] ELSE NoRule,
                      !.ruleStart = d]
           Virtual(a) == [u EXCEPT !.virtual = a]
           w == RuleVisited(u, o)
           Same(x) == /\ x.nook = u.nook /\ x.next = u.next /\ x.at = u.at /\ x.token = u.token
                      /\ x.xsy = u.xsy /\ x.value = u.value /\ x.tokenStart = u.tokenStart
                      /\ x.valued = u.valued /\ x.xrlValued = u.xrlValued
<1>1. \/ ~ IsWholeRule(o) /\ w = u
      \/ r \in G.virtualLhs /\ \E a : w = Virtual(a)
      \/ IsRealRule(o) /\ \E a, b, d : w = Real(a, b, d)
  <2> DEFINE below == IF r \in G.virtualRhs THEN Last(u.virtual) ELSE 0
             virtual == IF r \in G.virtualRhs THEN Front(u.virtual) ELSE u.virtual
             count == IF r \in G.virtualLhs \cup G.virtualRhs
                        THEN G.realCount[r] + below ELSE Len(G.rhsXsys[r])
  <2>1. w = IF ~ IsWholeRule(o) THEN u
            ELSE IF r \in G.virtualLhs THEN Virtual(Append(virtual, count))
            ELSE Real(virtual, u.argN - count + 1, IF isValued THEN o.origin ELSE u.ruleStart)
    BY Zenon DEF RuleVisited
  <2> HIDE DEF Virtual, Real, virtual, count, below, w
  <2> QED BY <2>1 DEF IsRealRule
<1>2. \A a : Same(Virtual(a)) /\ Virtual(a).rule = NoRule
  BY DEF Fields
<1>3. \A a, b, d : Same(Real(a, b, d))
                   /\ Real(a, b, d).rule = IF isValued THEN G.source[r] ELSE NoRule
  BY DEF Fields
<1>4. /\ Same(w)
      /\ w.rule # NoRule <=> IsRealRule(o) /\ isValued
  <2> HIDE DEF Virtual, Real, w
  <2>1. CASE ~ IsWholeRule(o) /\ w = u
    BY <2>1 DEF IsRealRule
  <2>2. CASE r \in G.virtualLhs /\ \E a : w = Virtual(a)
    BY <1>2, <2>2 DEF IsRealRule
  <2>3. CASE IsRealRule(o) /\ \E a, b, d : w = Real(a, b, d)
    <3>1. Same(w) /\ w.rule = IF isValued THEN G.source[r] ELSE NoRule
      BY <1>3, <2>3
    <3> QED BY <2>3, <3>1
  <2> QED BY <1>1, <2>1, <2>2, <2>3
<1> HIDE DEF w
<1>5. OwnToken(w, i) = OwnToken(u, i)
  BY <1>4 DEF OwnToken
<1>6. TellsToken(w, i)
  BY <1>4, <1>5 DEF TellsToken, IsTokenOf
<1>7. TellsRule(w, i)
  BY <1>4 DEF TellsRule, OwnRule
<1> QED BY <1>4, <1>6, <1>7 DEF Tells, w

-----------------------------------------------------------------------------
(***************************************************************************)
(* The loop of the valuator.                                               *)
(***************************************************************************)
\* The turn of the loop goes to the nook before, and is to tell of it.
LEMMA VisitedTells ==
    ASSUME NEW v, DOMAIN v = Fields, NoRule \notin v.xrlValued, v.nook \in Int,
           NEW i, i = v.nook - 1, i >= 1 => CauseOf(i).type \in CauseTypes
    PROVE  /\ i < 1 => Visited(v).next = "INACTIVE"
           /\ i >= 1 => Tells(Visited(v), i) /\ Visited(v).next = v.next
<1> DEFINE w == [v EXCEPT !.nook = @ - 1, !.value = -1, !.rule = NoRule]
           nook == nooks[w.nook]
           popped == Popped(w)
           at == [popped EXCEPT !.at = nook.or.at]
<1>1. w.nook = i /\ w.rule = NoRule /\ w.next = v.next /\ DOMAIN w = Fields
      /\ w.xrlValued = v.xrlValued
  BY DEF Fields
<1>2. Visited(v) = IF w.nook < 1 THEN [w EXCEPT !.next = "INACTIVE"]
                   ELSE RuleVisited(TokenVisited(at, nook), nook.or)
  BY Zenon DEF Visited
<1> HIDE DEF w
<1>3. CASE i < 1
  <2>1. [w EXCEPT !.next = "INACTIVE"].next = "INACTIVE"
    BY <1>1 DEF Fields
  <2> QED BY <1>1, <1>2, <1>3, <2>1
<1>4. CASE ~ (i < 1)
  <2>1. /\ popped.nook = i /\ popped.rule = NoRule /\ popped.next = v.next
        /\ popped.xrlValued = v.xrlValued /\ DOMAIN popped = Fields
    BY <1>1 DEF Popped, Fields
  <2> HIDE DEF popped
  <2>2. /\ at.nook = i /\ at.rule = NoRule /\ at.next = v.next /\ at.at = nook.or.at
        /\ at.xrlValued = v.xrlValued /\ DOMAIN at = Fields
    BY <2>1 DEF Fields
  <2> HIDE DEF at
  <2>3. nook = nooks[i] /\ CauseOf(i).type \in CauseTypes
    BY <1>1, <1>4
  <2> HIDE DEF nook
  <2>4. PICK u : u = TokenVisited(at, nooks[i])
    OBVIOUS
  <2>5. TellsToken(u, i) /\ u.rule = NoRule /\ u.next = v.next
    BY <2>2, <2>3, <2>4, TokenVisitedTells
  <2>6. DOMAIN u = Fields /\ NoRule \notin u.xrlValued
    BY <2>2, <2>4, TokenVisitedKeeps DEF SameSettings
  <2>7. Tells(RuleVisited(u, nooks[i].or), i) /\ RuleVisited(u, nooks[i].or).next = u.next
    BY <2>5, <2>6, RuleVisitedTells
  <2>8. Visited(v) = RuleVisited(u, nooks[i].or)
    BY <1>1, <1>2, <1>4, <2>3, <2>4
  <2> QED BY <1>4, <2>5, <2>7, <2>8
<1> QED BY <1>3, <1>4

\* What a nook adds to the walk does not change with what the valuator holds otherwise.
LEMMA OwnIsSettled ==
    ASSUME NEW u, NEW v, SameSettings(u, v), NEW i
    PROVE  Own(u, i) = Own(v, i)
<1>1. OwnToken(u, i) = OwnToken(v, i) /\ OwnRule(u, i) = OwnRule(v, i)
  BY DEF SameSettings, OwnToken, OwnRule
<1> QED BY <1>1 DEF Own

\* The cause of each nook is an or-node, a token or a nulling symbol.
CausesAreTyped == \A i \in DOMAIN nooks : CauseOf(i).type \in CauseTypes

\* The walk has come from base to the nook at which u stands, or to its end.
Comes(walk, base, u, v) ==
    \/ u.next = "INACTIVE" /\ walk[Len(nooks)] = base
    \/ /\ u.next = v.next /\ u.nook \in DOMAIN nooks /\ Tells(u, u.nook)
       /\ walk[Len(nooks) - u.nook] = base

\* The loop goes over the nooks with nothing to tell, which add nothing to the walk.
LEMMA FoundComes ==
    ASSUME Len(nooks) \in Nat, DOMAIN nooks = 1 .. Len(nooks), CausesAreTyped,
           NEW v, DOMAIN v = Fields, NoRule \notin v.xrlValued, IsActive(v),
           v.nook \in 0 .. Len(nooks), NEW walk, Walks(walk, v), NEW base,
           base = walk[IF v.nook < 1 THEN 0 ELSE Len(nooks) - v.nook + 1]
    PROVE  Comes(walk, base, Found(v), v)
<1> PICK L : L = Len(nooks)
  OBVIOUS
<1>1. L \in Nat /\ DOMAIN nooks = 1 .. L
  OBVIOUS
<1>2. PICK f, begun :
          /\ begun = [v EXCEPT !.pop = TRUE, !.nook = IF @ < 1 THEN L + 1 ELSE @]
          /\ Turns(f, begun, L)
          /\ Found(v) = f[L]
  BY FoundByTurns
<1>3. /\ SameSettings(begun, v) /\ begun.next = v.next
      /\ begun.nook \in 1 .. (L + 1) /\ walk[L - begun.nook + 1] = base
  <2>1. SameSettings(begun, v) /\ begun.next = v.next
        /\ begun.nook = IF v.nook < 1 THEN L + 1 ELSE v.nook
    BY <1>2 DEF SameSettings, Fields
  <2>2. L - (L + 1) + 1 = 0
    BY <1>1
  <2> QED BY <1>1, <2>1, <2>2
<1>4. ASSUME NEW u, SameSettings(u, v), u.next = v.next, u.nook \in 1 .. (L + 1),
             walk[L - u.nook + 1] = base
      PROVE  Comes(walk, base, Visited(u), v)
  <2>1. PICK i : i = u.nook - 1
    OBVIOUS
  <2>2. i \in 0 .. L /\ L - i = L - u.nook + 1 /\ (i >= 1 => i \in DOMAIN nooks)
    BY <1>1, <1>4, <2>1
  <2>3. DOMAIN u = Fields /\ NoRule \notin u.xrlValued /\ u.nook \in Int
    BY <1>1, <1>4 DEF SameSettings
  <2>4. i >= 1 => CauseOf(i).type \in CauseTypes
    BY <2>2 DEF CausesAreTyped
  <2>5. /\ i < 1 => Visited(u).next = "INACTIVE"
        /\ i >= 1 => Tells(Visited(u), i) /\ Visited(u).next = u.next
    BY <2>1, <2>3, <2>4, VisitedTells
  <2>6. CASE i < 1
    <3>0. i \in 0 .. L
      BY <2>2
    <3>1. i = 0 /\ L - i = L
      <4>1. \A l \in Nat : \A j \in 0 .. l : j < 1 => j = 0 /\ l - j = l
        OBVIOUS
      <4> QED BY <1>1, <2>6, <3>0, <4>1, Zenon
    <3> QED BY <1>4, <2>2, <2>5, <2>6, <3>1 DEF Comes
  <2>7. CASE i >= 1
    <3>1. Visited(u).nook = i
      BY <2>5, <2>7 DEF Tells, TellsToken
    <3> QED BY <1>4, <2>2, <2>5, <2>7, <3>1 DEF Comes
  <2> QED BY <2>2, <2>6, <2>7
<1> DEFINE T == {n \in Nat : n \in 0 .. L => SameSettings(f[n], v) /\ Comes(walk, base, f[n], v)}
<1>5. 0 \in T
  <2>1. f[0] = Visited(begun)
    <3>1. 0 \in 0 .. L
      BY <1>1
    <3> QED BY <1>2, <3>1 DEF Turns
  <2>2. SameSettings(Visited(begun), v)
    <3>1. SameSettings(Visited(begun), begun)
      BY <1>3, VisitedKeeps DEF SameSettings
    <3> QED BY <1>3, <3>1, SettingsAreTransitive
  <2> QED BY <1>3, <1>4, <2>1, <2>2
<1>6. ASSUME NEW n \in Nat, n \in T PROVE n + 1 \in T
  <2> SUFFICES ASSUME n + 1 \in 0 .. L
               PROVE  SameSettings(f[n + 1], v) /\ Comes(walk, base, f[n + 1], v)
    OBVIOUS
  <2>1. PICK u : u = f[n]
    OBVIOUS
  <2>2. SameSettings(u, v) /\ Comes(walk, base, u, v)
    BY <1>1, <1>6, <2>1
  <2>3. f[n + 1] = IF IsFound(u) THEN u ELSE Visited(u)
    BY <1>1, <1>2, <2>1 DEF Turns
  <2>4. CASE IsFound(u)
    BY <2>2, <2>3, <2>4
  <2>5. CASE ~ IsFound(u)
    <3>1. SameSettings(Visited(u), v)
      <4>1. SameSettings(Visited(u), u)
        BY <2>2, VisitedKeeps DEF SameSettings
      <4> QED BY <2>2, <4>1, SettingsAreTransitive
    <3>2. u.next # "INACTIVE" /\ u.rule = NoRule /\ u.token = "dummy"
      BY <2>5 DEF IsFound, IsActive
    <3>3. /\ u.next = v.next /\ u.nook \in 1 .. L /\ Tells(u, u.nook)
          /\ walk[L - u.nook] = base
      BY <1>1, <2>2, <3>2 DEF Comes
    <3>4. Own(u, u.nook) = <<>>
      <4>1. OwnToken(u, u.nook) = <<>> /\ OwnRule(u, u.nook) = <<>>
        BY <3>2, <3>3 DEF Tells, TellsToken, TellsRule
      <4>2. <<>> \o <<>> = <<>>
        BY ConcatEmptySeq, EmptySeq
      <4> QED BY <4>1, <4>2 DEF Own
    <3>5. walk[L - u.nook + 1] = base
      <4>1. PICK k \in 1 .. L : k = L - u.nook + 1 /\ k - 1 = L - u.nook /\ L - k + 1 = u.nook
        <5>1. L - u.nook + 1 \in 1 .. L /\ L - u.nook + 1 - 1 = L - u.nook
              /\ L - (L - u.nook + 1) + 1 = u.nook
          BY <1>1, <3>3
        <5> QED BY <5>1
      <4>2. walk[k] = walk[k - 1] \o Own(v, L - k + 1) /\ walk[k - 1] \in Seq(StepSet)
        <5>1. k \in 1 .. L /\ k - 1 \in 0 .. L
          BY <1>1
        <5> QED BY <1>1, <5>1, WalkIs
      <4>3. Own(v, L - k + 1) = <<>>
        BY <2>2, <3>4, <4>1, OwnIsSettled
      <4> QED BY <3>3, <4>1, <4>2, <4>3, ConcatEmptySeq
    <3>6. u.nook \in 1 .. (L + 1)
      BY <1>1, <3>3
    <3> QED BY <1>4, <2>2, <2>3, <2>5, <3>1, <3>3, <3>5, <3>6
  <2> QED BY <2>4, <2>5
<1>7. L \in T
  <2>1. Nat \subseteq T
    <3> HIDE DEF T
    <3> QED BY <1>5, <1>6, SetInduction
  <2> QED BY <1>1, <2>1
<1> QED BY <1>1, <1>2, <1>7

-----------------------------------------------------------------------------
(***************************************************************************)
(* The trail of the steps against the walk.                                *)
(***************************************************************************)
\* The trail after a step.
TrailAfter(t, v) == IF IsValueStep(v) THEN Append(t, <<v.step, v.nook>>) ELSE t

\* Between two calls the trail is the walk up to the nook of the valuator, but for the
\* rule of this nook if that is still to be told of.
Stands(walk, v, t) ==
    /\ v.next \in {"INITIAL", "GET_DATA", "RULE", "TRACE", "INACTIVE"} /\ t \in Seq(StepSet)
    /\ v.next = "INITIAL" => v.nook = 0 /\ t = <<>>
    /\ v.next = "INACTIVE" => t = walk[Len(nooks)]
    /\ v.next \notin {"INITIAL", "INACTIVE"} => v.nook \in DOMAIN nooks
    /\ v.next \in {"TRACE", "GET_DATA"} => t = walk[Len(nooks) - v.nook + 1]
    /\ v.next = "RULE" =>
          walk[Len(nooks) - v.nook + 1] = IF v.rule # NoRule THEN Append(t, RuleStep(v.nook)) ELSE t
    /\ v.step = "TOKEN" => v.nook \in DOMAIN nooks /\ IsTokenOf(v, v.nook)

\* A sequence and one or two elements after it.
LEMMA OneMore ==
    /\ \A s \in Seq(StepSet) : \A x \in StepSet : /\ s \o <<x>> = Append(s, x)
                                                  /\ Append(s, x) \in Seq(StepSet)
    /\ \A s \in Seq(StepSet) : s \o <<>> = s
    /\ \A s \in Seq(StepSet) : \A x \in StepSet : \A y \in StepSet :
          s \o (<<x>> \o <<y>>) = Append(Append(s, x), y)
BY ConcatEmptySeq

\* What a nook adds to the walk.
LEMMA WalkAt ==
    ASSUME Len(nooks) \in Nat, NEW v, NEW walk, Walks(walk, v), NEW i \in 1 .. Len(nooks)
    PROVE  /\ walk[Len(nooks) - i + 1] = walk[Len(nooks) - i] \o Own(v, i)
           /\ walk[Len(nooks) - i + 1] \in Seq(StepSet) /\ walk[Len(nooks) - i] \in Seq(StepSet)
<1> PICK L : L = Len(nooks)
  OBVIOUS
<1> PICK k : k = L - i + 1
  OBVIOUS
<1>1. L \in Nat /\ i \in 1 .. L
  OBVIOUS
<1>2. k \in 1 .. L /\ k \in 0 .. L /\ k - 1 \in 0 .. L /\ k - 1 = L - i /\ L - k + 1 = i
  BY <1>1
<1>3. walk[k] = walk[k - 1] \o Own(v, L - k + 1) /\ walk[k] \in Seq(StepSet)
      /\ walk[k - 1] \in Seq(StepSet)
  BY <1>2, WalkIs
<1> QED BY <1>2, <1>3

\* The rule is told of after the token of the same nook, or without one.
LEMMA RuleToldStands ==
    ASSUME DOMAIN nooks = 1 .. Len(nooks), NEW v, DOMAIN v = Fields, NEW walk,
           NEW t \in Seq(StepSet), v.nook \in DOMAIN nooks,
           walk[Len(nooks) - v.nook + 1] = Append(t, RuleStep(v.nook))
    PROVE  Stands(walk, RuleTold(v), TrailAfter(t, RuleTold(v)))
<1>1. /\ RuleTold(v).next = "TRACE" /\ RuleTold(v).step = "RULE" /\ RuleTold(v).nook = v.nook
  BY DEF RuleTold, Fields
<1>2. RuleStep(v.nook) \in StepSet
  BY DEF RuleStep, StepSet
<1>3. TrailAfter(t, RuleTold(v)) = Append(t, RuleStep(v.nook))
  BY <1>1 DEF TrailAfter, IsValueStep, RuleStep
<1> QED BY <1>1, <1>2, <1>3, OneMore DEF Stands

\* A nook is traced when all has been told of it.
LEMMA TraceToldStands ==
    ASSUME NEW v, DOMAIN v = Fields, NEW walk, NEW t \in Seq(StepSet), v.nook \in DOMAIN nooks,
           t = walk[Len(nooks) - v.nook + 1]
    PROVE  Stands(walk, TraceTold(v), TrailAfter(t, TraceTold(v)))
<1>1. /\ TraceTold(v).next = "GET_DATA" /\ TraceTold(v).step = "TRACE"
      /\ TraceTold(v).nook = v.nook
  BY DEF TraceTold, Fields
<1> QED BY <1>1 DEF Stands, TrailAfter, IsValueStep

\* At the end of the walk all has been told.
LEMMA InactiveStands ==
    ASSUME NEW v, DOMAIN v = Fields, NEW walk, walk[Len(nooks)] \in Seq(StepSet)
    PROVE  Stands(walk, Inactive(v), TrailAfter(walk[Len(nooks)], Inactive(v)))
<1>1. Inactive(v).next = "INACTIVE" /\ Inactive(v).step = "INACTIVE"
  BY DEF Inactive, Fields
<1> QED BY <1>1 DEF Stands, TrailAfter, IsValueStep

\* What the walk has come to is told.
LEMMA ToldStands ==
    ASSUME Len(nooks) \in Nat, DOMAIN nooks = 1 .. Len(nooks), NEW u, DOMAIN u = Fields,
           NEW walk, Walks(walk, u), NEW base \in Seq(StepSet),
           NEW v, v.next # "INACTIVE", Comes(walk, base, u, v)
    PROVE  Stands(walk, Told(u), TrailAfter(base, Told(u)))
<1> PICK L : L = Len(nooks)
  OBVIOUS
<1>1. CASE u.next = "INACTIVE"
  <2>1. walk[L] = base
    BY <1>1 DEF Comes
  <2>2. Told(u) = Inactive(u)
    BY <1>1 DEF Told, IsActive
  <2> QED BY <2>1, <2>2, InactiveStands
<1>2. CASE u.next # "INACTIVE"
  <2>1. u.nook \in 1 .. L /\ Tells(u, u.nook) /\ walk[L - u.nook] = base
    BY <1>2 DEF Comes
  <2> PICK i \in 1 .. L : i = u.nook
    BY <2>1
  <2>9. Tells(u, i) /\ walk[L - i] = base
    BY <2>1, Zenon
  <2>10. walk[L - i + 1] = walk[L - i] \o Own(u, i)
    BY WalkAt
  <2>2. walk[L - i + 1] = base \o (OwnToken(u, i) \o OwnRule(u, i)) /\ i \in Nat
    <3>1. walk[L - i + 1] = base \o (OwnToken(u, i) \o OwnRule(u, i))
      BY <2>9, <2>10, Zenon DEF Own
    <3> QED BY <3>1
  <2>3. TokenStep(i) \in StepSet /\ RuleStep(i) \in StepSet
    BY <2>2 DEF TokenStep, RuleStep, StepSet
  <2>4. /\ OwnToken(u, i) = IF u.token # "dummy" THEN <<TokenStep(i)>> ELSE <<>>
        /\ OwnRule(u, i) = IF u.rule # NoRule THEN <<RuleStep(i)>> ELSE <<>>
    BY <2>9, Zenon DEF Tells, TellsToken, TellsRule
  <2>5. <<>> \in Seq(StepSet) /\ <<>> \o <<>> = <<>>
        /\ \A x \in StepSet : /\ <<x>> \in Seq(StepSet)
                               /\ <<x>> \o <<>> = <<x>> /\ <<>> \o <<x>> = <<x>>
    BY ConcatEmptySeq, EmptySeq
  <2>6. CASE u.token # "dummy"
    <3>1. PICK w : w = [u EXCEPT !.next = "RULE", !.result = u.argN,
                     !.step = IF u.token = "nulling" THEN "NULLING_SYMBOL" ELSE "TOKEN"]
      OBVIOUS
    <3>2. Told(u) = w
      BY <1>2, <2>6, <3>1 DEF Told, IsActive
    <3>3. /\ w.next = "RULE" /\ w.nook = i /\ w.rule = u.rule
          /\ w.step = (IF u.token = "nulling" THEN "NULLING_SYMBOL" ELSE "TOKEN")
          /\ w.xsy = u.xsy /\ w.value = u.value /\ w.at = u.at /\ w.tokenStart = u.tokenStart
      BY <3>1 DEF Fields
    <3>4. TokenStep(i) = <<w.step, w.nook>>
      BY <2>1, <2>6, <3>3 DEF Tells, TellsToken
    <3>5. TrailAfter(base, w) = Append(base, TokenStep(i))
      BY <3>3, <3>4 DEF TrailAfter, IsValueStep
    <3>6. TrailAfter(base, w) \in Seq(StepSet)
      BY <2>3, <3>5, OneMore
    <3>7. walk[L - i + 1] = IF w.rule # NoRule THEN Append(TrailAfter(base, w), RuleStep(i))
                                               ELSE TrailAfter(base, w)
      <4>1. CASE u.rule = NoRule
        <5>1. walk[L - i + 1] = base \o <<TokenStep(i)>>
          BY <2>2, <2>3, <2>4, <2>5, <2>6, <4>1
        <5> QED BY <2>3, <3>3, <3>5, <4>1, <5>1, OneMore
      <4>2. CASE u.rule # NoRule
        <5>1. walk[L - i + 1] = base \o (<<TokenStep(i)>> \o <<RuleStep(i)>>)
          BY <2>2, <2>4, <2>6, <4>2
        <5>2. base \o (<<TokenStep(i)>> \o <<RuleStep(i)>>)
                = Append(Append(base, TokenStep(i)), RuleStep(i))
          BY <2>3, OneMore, Zenon
        <5> QED BY <3>3, <3>5, <4>2, <5>1, <5>2
      <4> QED BY <4>1, <4>2
    <3>8. w.step = "TOKEN" => IsTokenOf(w, i)
      <4>1. w.step = "TOKEN" => IsTokenOf(u, i)
        BY <2>1, <2>6, <3>3 DEF Tells, TellsToken
      <4> QED BY <3>3, <4>1 DEF IsTokenOf
    <3> QED BY <3>2, <3>3, <3>6, <3>7, <3>8 DEF Stands
  <2>7. CASE u.token = "dummy" /\ u.rule # NoRule
    <3>1. Told(u) = RuleTold(u)
      BY <1>2, <2>7 DEF Told, IsActive
    <3>2. walk[L - i + 1] = Append(base, RuleStep(i))
      BY <2>2, <2>3, <2>4, <2>5, <2>7, OneMore
    <3> QED BY <3>1, <3>2, RuleToldStands
  <2>8. CASE u.token = "dummy" /\ u.rule = NoRule
    <3>1. Told(u) = TraceTold(u)
      BY <1>2, <2>8 DEF Told, IsActive
    <3>2. walk[L - i + 1] = base
      BY <2>2, <2>4, <2>5, <2>8, OneMore
    <3> QED BY <3>1, <3>2, TraceToldStands
  <2> QED BY <2>6, <2>7, <2>8
<1> QED BY <1>1, <1>2

\* The walk depends on the settings only.
LEMMA WalkIsSettled ==
    ASSUME Len(nooks) \in Nat, NEW u, NEW v, SameSettings(u, v), NEW walk, Walks(walk, v)
    PROVE  Walks(walk, u)
<1>1. \A i : Own(u, i) = Own(v, i)
  BY OwnIsSettled
<1> QED BY <1>1, Zenon DEF Walks

\* What the loop finds is told in its place in the walk.
LEMMA FoundStands ==
    ASSUME Len(nooks) \in Nat, DOMAIN nooks = 1 .. Len(nooks), CausesAreTyped,
           NEW v, DOMAIN v = Fields, NoRule \notin v.xrlValued, v.next # "INACTIVE",
           v.nook \in 0 .. Len(nooks), NEW walk, Walks(walk, v), NEW t,
           t = walk[IF v.nook < 1 THEN 0 ELSE Len(nooks) - v.nook + 1]
    PROVE  Stands(walk, Told(Found(v)), TrailAfter(t, Told(Found(v))))
<1> PICK u : u = Found(v)
  OBVIOUS
<1>1. SameSettings(u, v) /\ DOMAIN u = Fields
  BY FoundKeeps DEF SameSettings
<1>2. Comes(walk, t, u, v)
  BY FoundComes DEF IsActive
<1>3. Walks(walk, u)
  BY <1>1, WalkIsSettled
<1>4. t \in Seq(StepSet)
  <2>1. PICK k \in 0 .. Len(nooks) : t = walk[k]
    <3>1. v.nook >= 1 => Len(nooks) - v.nook + 1 \in 0 .. Len(nooks)
      OBVIOUS
    <3>2. 0 \in 0 .. Len(nooks)
      OBVIOUS
    <3> QED BY <3>1, <3>2
  <2>2. \A m \in 0 .. Len(nooks) : walk[m] \in Seq(StepSet)
    BY WalkIs, Zenon
  <2> QED BY <2>1, <2>2
<1> QED BY <1>1, <1>2, <1>3, <1>4, ToldStands

\* A step of the valuator goes on with the walk.
LEMMA SteppedStands ==
    ASSUME Len(nooks) \in Nat, DOMAIN nooks = 1 .. Len(nooks), CausesAreTyped,
           NEW v, DOMAIN v = Fields, ~ v.nulling,
           v.next # "INITIAL" => v.xrlValued \subseteq G.xrl,
           NEW walk, Walks(walk, Stepped(v)), NEW t, Stands(walk, v, t)
    PROVE  Stands(walk, Stepped(v), TrailAfter(t, Stepped(v)))
<1> PICK L : L = Len(nooks)
  OBVIOUS
<1>1. /\ v.next # "INITIAL" => SameSettings(v, Stepped(v))
      /\ v.next = "INITIAL" => SameSettings(Begun(v), Stepped(v))
  <2>1. v.next # "INITIAL" => SameSettings(v, Stepped(v))
    BY SteppedKeeps DEF SameSettings
  <2>2. ASSUME v.next = "INITIAL" PROVE SameSettings(Begun(v), Stepped(v))
    <3> PICK u : u = Stepped(v)
      OBVIOUS
    <3>1. /\ DOMAIN u = Fields /\ u.valued = v.valued /\ u.nulling = v.nulling /\ Settled(u)
      BY <2>2, SteppedKeeps
    <3>2. /\ DOMAIN Begun(v) = Fields /\ Begun(v).valued = v.valued
          /\ Begun(v).nulling = v.nulling /\ Settled(Begun(v))
      BY DEF Begun, Settled, Fields, RulesOf
    <3> QED BY <3>1, <3>2 DEF SameSettings, Settled
  <2> QED BY <2>1, <2>2
<1>2. CASE v.next = "INITIAL"
  <2> PICK u : u = Begun(v)
    OBVIOUS
  <2>1. /\ DOMAIN u = Fields /\ u.next = "INITIAL" /\ u.nook = v.nook
        /\ u.xrlValued = RulesOf(v.valued)
    BY <1>2 DEF Begun, Fields, RulesOf
  <2>2. NoRule \notin u.xrlValued
    BY <2>1, ValueAssumption DEF RulesOf
  <2>3. Walks(walk, u)
    BY <1>1, <1>2, WalkIsSettled
  <2>4. v.nook = 0 /\ t = <<>>
    BY <1>2 DEF Stands
  <2>5. walk[0] = <<>>
    BY <2>3, WalkIs
  <2>6. Stepped(v) = Told(Found(u))
    BY <1>2 DEF Stepped, IsActive
  <2>7. u.nook \in 0 .. L /\ u.nook < 1
    BY <2>1, <2>4
  <2> QED BY <2>1, <2>2, <2>3, <2>4, <2>5, <2>6, <2>7, FoundStands
<1>3. CASE v.next = "INACTIVE"
  <2>1. Stepped(v) = Inactive(v)
    BY <1>3 DEF Stepped, IsActive
  <2>2. t = walk[L] /\ t \in Seq(StepSet)
    BY <1>3 DEF Stands
  <2> QED BY <2>1, <2>2, InactiveStands
<1>4. CASE v.next = "RULE" /\ v.rule # NoRule
  <2>1. Stepped(v) = RuleTold(v)
    BY <1>4 DEF Stepped, IsActive
  <2>2. /\ v.nook \in DOMAIN nooks /\ t \in Seq(StepSet)
        /\ walk[L - v.nook + 1] = Append(t, RuleStep(v.nook))
    BY <1>4 DEF Stands
  <2> QED BY <2>1, <2>2, RuleToldStands
<1>5. CASE v.next \in {"TRACE", "GET_DATA"} \/ (v.next = "RULE" /\ v.rule = NoRule)
  <2>1. v.nook \in 1 .. L /\ t \in Seq(StepSet) /\ t = walk[L - v.nook + 1]
    BY <1>5 DEF Stands
  <2>2. Stepped(v) = TraceTold(v) \/ Stepped(v) = Told(Found(v))
    BY <1>5 DEF Stepped, IsActive, AfterRule
  <2>3. CASE Stepped(v) = TraceTold(v)
    BY <2>1, <2>3, TraceToldStands
  <2>4. CASE Stepped(v) = Told(Found(v))
    <3>1. NoRule \notin v.xrlValued
      BY <1>5, ValueAssumption
    <3>2. v.nook \in 0 .. L /\ ~ (v.nook < 1)
      BY <2>1
    <3>3. Walks(walk, v)
      BY <1>1, <1>5, WalkIsSettled
    <3>4. v.next # "INACTIVE"
      BY <1>5
    <3> QED BY <2>1, <2>4, <3>1, <3>2, <3>3, <3>4, FoundStands
  <2> QED BY <2>2, <2>3, <2>4
<1> QED BY <1>2, <1>3, <1>4, <1>5 DEF Stands

-----------------------------------------------------------------------------
(***************************************************************************)
(* The tree that is walked.                                                *)
(***************************************************************************)
\* The and-node of a nook is one of the bocage that divides the or-node of the nook.
LEMMA NookAnds ==
    ASSUME BocageIsSound(bocage), OrderedAs(bocage, order), NooksAre(nooks),
           NEW i \in DOMAIN nooks
    PROVE  /\ AndOf(nooks[i]) \in bocage.ands /\ AndOf(nooks[i]).parent = nooks[i].or
           /\ CauseOf(i).type \in CauseTypes
<1> PICK o : o = nooks[i].or
  OBVIOUS
<1> PICK c : c = nooks[i].choice
  OBVIOUS
<1>1. o \in bocage.ors /\ c \in Nat \ {0} /\ c <= Len(order[o])
  <2>1. nooks[i] \in NookSet
    BY DEF NooksAre
  <2>2. \A nook \in NookSet : nook.or \in bocage.ors /\ nook.choice \in Nat \ {0}
    BY DEF NookSet
  <2> QED BY <2>1, <2>2 DEF NooksAre
<1>2. order[o] \in Seq(AndsOf(bocage, o))
  BY <1>1 DEF OrderedAs, OrdersSome
<1>3. c \in DOMAIN order[o]
  BY <1>1, <1>2
<1>4. PICK a : a = order[o][c]
  OBVIOUS
<1>5. a \in AndsOf(bocage, o)
  BY <1>2, <1>3, <1>4
<1>6. a \in bocage.ands /\ a.parent = o /\ a.cause \in Causes(bocage.ors)
  BY <1>1, <1>5, AndsOfAre DEF AndsOf, DividesAs
<1>7. a.cause.type \in CauseTypes
  <2>1. \A x \in bocage.ors : x.type = "or"
    BY DEF BocageIsSound, SoundOrs, OrSpace
  <2> QED BY <1>6, <2>1 DEF Causes, CauseTypes, NullingOr, TokenOr
<1> QED BY <1>4, <1>6, <1>7 DEF AndOf, CauseOf

\* The tree that is walked.
TreeIsThere ==
    /\ Len(nooks) \in Nat /\ DOMAIN nooks = 1 .. Len(nooks) /\ CausesAreTyped

\* A tree between two calls is one of a sound forest.
LEMMA WalkedTree ==
    ASSUME PauseInv, SearchInv, SoundForestInv, CausesExist, turn = "idle", ~ bocage.nulling
    PROVE  /\ ForestIsSound /\ Shaped(nooks) /\ TreeIsThere
           /\ BocageIsSound(bocage) /\ OrderedAs(bocage, order)
<1>1. ForestIsSound
  BY TreesAreSound
<1>2. Shaped(nooks)
  BY <1>1 DEF SearchInv
<1>3. BocageIsSound(bocage) /\ OrderedAs(bocage, order)
  BY DEF PauseInv, SoundForestInv
<1>4. Len(nooks) \in Nat /\ DOMAIN nooks = 1 .. Len(nooks)
  BY <1>2 DEF Shaped, NooksAre
<1>5. CausesAreTyped
  BY <1>2, <1>3, NookAnds DEF Shaped, CausesAreTyped
<1> QED BY <1>1, <1>2, <1>3, <1>4, <1>5 DEF TreeIsThere

\* A valuator of a tree that is not null walks it.
WalkInv ==
    valuator # NoValuator =>
        /\ turn = "idle" /\ valuator.nulling = bocage.nulling
        /\ parseCount > 0 /\ ~ exhausted
        /\ ~ bocage.nulling /\ CausesExist =>
              \E walk : Walks(walk, valuator) /\ Stands(walk, valuator, trail)

\* A new valuator is before the walk.
LEMMA NewStands ==
    ASSUME NEW walk
    PROVE  Stands(walk, NewValuator, <<>>)
<1>1. NewValuator.next = "INITIAL" /\ NewValuator.step = "INITIAL" /\ NewValuator.nook = 0
  BY DEF NewValuator
<1> QED BY <1>1, EmptySeq DEF Stands

\* What a setting leaves as it is.
Unmoved(w, v) ==
    /\ w.next = v.next /\ w.step = v.step /\ w.nook = v.nook /\ w.rule = v.rule
    /\ w.xsy = v.xsy /\ w.value = v.value /\ w.at = v.at /\ w.tokenStart = v.tokenStart

\* A setting leaves the place of the valuator in its walk alone.
LEMMA SettingUnmoved ==
    ASSUME Setting, ValuatorInv
    PROVE  /\ Unmoved(valuator', valuator) /\ trail' = trail /\ UNCHANGED allVars
<1> DEFINE v == valuator
           Set(a, b) == [v EXCEPT !.locked = a, !.valued = b]
<1>0. DOMAIN v = Fields /\ v # NoValuator
  BY SettingResettles DEF ValuatorInv
<1>1. trail' = trail /\ UNCHANGED allVars
  BY DEF Setting, SymbolIsValuedSet, RuleIsValuedSet, ValuedForce, TraceSet, SettingUnchanged,
         TreeUnchanged, ForestUnchanged, RecognizerUnchanged, allVars, bocageVars, vars, valueVars
<1>2. \A a, b : Unmoved(Set(a, b), v)
  BY <1>0 DEF Unmoved, Fields
<1>3. Unmoved(v, v)
  BY DEF Unmoved
<1>4. \A x, value : SymbolSet(x, value) => Unmoved(valuator', v)
  <2> TAKE x, value
  <2>1. SymbolSet(x, value) => valuator' = v \/ \E a, b : valuator' = Set(a, b)
    BY Zenon DEF SymbolSet
  <2> HIDE DEF Set
  <2> QED BY <1>2, <1>3, <2>1
<1>5. ValuedForce => Unmoved(valuator', v)
  <2>1. ValuedForce => \E a, b : valuator' = Set(a, b)
    BY Zenon DEF ValuedForce
  <2> HIDE DEF Set
  <2> QED BY <1>2, <2>1
<1>6. \A flag : TraceSet(flag) => Unmoved(valuator', v)
  BY <1>0 DEF TraceSet, Unmoved, Fields
<1>7. Unmoved(valuator', v)
  BY <1>4, <1>5, <1>6 DEF Setting, SymbolIsValuedSet, RuleIsValuedSet
<1> QED BY <1>1, <1>7

\* While the tree stays, so does what is said of a walk of it.
LEMMA WalksStay ==
    ASSUME UNCHANGED <<nooks, order, canBeValued>>, NEW v, v = valuator', NEW t, t = trail',
           NEW walk
    PROVE  /\ Walks(walk, valuator)' <=> Walks(walk, v)
           /\ Stands(walk, valuator, trail)' <=> Stands(walk, v, t)
<1>1. \A i : Own(valuator, i)' = Own(v, i)
  <2> TAKE i
  <2>1. CauseOf(i)' = CauseOf(i)
    BY DEF CauseOf, AndOf
  <2>2. XsyBefore(nooks[i].or)' = XsyBefore(nooks[i].or)
    OBVIOUS
  <2>3. IsRealRule(nooks[i].or)' <=> IsRealRule(nooks[i].or)
    OBVIOUS
  <2>4. TokenXsy(i)' = TokenXsy(i) /\ TokenStep(i)' = TokenStep(i)
    BY <2>1, <2>2 DEF TokenXsy, TokenStep
  <2>5. IsPlaced(i)' <=> IsPlaced(i)
    BY <2>1, <2>4 DEF IsPlaced, IsUnvaluedToken, ValuedInBocage
  <2>6. OwnToken(valuator, i)' = OwnToken(v, i)
    BY <2>1, <2>4, <2>5 DEF OwnToken
  <2>7. OwnRule(valuator, i)' = OwnRule(v, i)
    BY <2>3 DEF OwnRule, RuleStep
  <2> QED BY <2>6, <2>7 DEF Own
<1>2. Walks(walk, valuator)' <=> Walks(walk, v)
  BY <1>1 DEF Walks
<1>3. \A i : IsTokenOf(valuator, i)' <=> IsTokenOf(v, i)
  BY DEF IsTokenOf, CauseOf, AndOf
<1>4. Stands(walk, valuator, trail)' <=> Stands(walk, v, t)
  BY <1>3 DEF Stands, RuleStep
<1> QED BY <1>2, <1>4

\* A new valuator has a walk before it.
LEMMA WalkNew ==
    ASSUME NookInv, PauseInv, ValuatorNew
    PROVE  WalkInv'
<1>1. /\ turn' = "idle" /\ parseCount' = parseCount /\ exhausted' = exhausted /\ bocage' = bocage
      /\ UNCHANGED <<nooks, order, canBeValued>>
  BY DEF ValuatorNew, ValueNew, ForestUnchanged, RecognizerUnchanged, orderVars, valueVars
<1>2. parseCount > 0 /\ ~ exhausted
  <2>1. parseCount <= 0 \/ exhausted => pauses' = pauses
    BY DEF ValuatorNew, ValueNew
  <2> QED BY <2>1 DEF ValuatorNew, PauseInv
<1> PICK v : v = NewValuator
  OBVIOUS
<1>3. valuator' = v /\ trail' = <<>> /\ v.nulling = bocage.nulling
  BY DEF ValuatorNew, NewValuator
<1>4. Len(nooks) \in Nat
  BY DEF NookInv
<1>5. PICK walk : Walks(walk, v)
  BY <1>4, WalkExists
<1>6. Stands(walk, v, <<>>)
  BY NewStands
<1>7. Walks(walk, valuator)' /\ Stands(walk, valuator, trail)'
  BY <1>1, <1>3, <1>5, <1>6, WalksStay
<1>8. turn' = "idle" /\ valuator'.nulling = bocage'.nulling /\ parseCount' > 0 /\ ~ exhausted'
  BY <1>1, <1>2, <1>3
<1> QED BY <1>7, <1>8 DEF WalkInv

\* A step goes on with the walk of its valuator.
LEMMA WalkOn ==
    ASSUME NookInv, PauseInv, SearchInv, SoundForestInv, ValuatorInv, WalkInv, ValueStep
    PROVE  WalkInv'
<1> PICK v : v = valuator
  OBVIOUS
<1> PICK w : w = Stepped(v)
  OBVIOUS
<1>1. v # NoValuator /\ valuator' = w /\ DOMAIN v = Fields /\ trail' = TrailAfter(trail, w)
  BY DEF ValueStep, HasValuator, ValuatorInv, TrailAfter
<1>2. UNCHANGED allVars
  BY DEF ValueStep, TreeUnchanged, ForestUnchanged, RecognizerUnchanged, allVars, bocageVars, vars,
         valueVars
<1>3. UNCHANGED <<nooks, order, canBeValued, bocage, turn, parseCount, exhausted>>
  BY <1>2 DEF allVars, bocageVars, vars, valueVars, orderVars, treeVars
<1>4. Len(nooks) \in Nat
  BY DEF NookInv
<1>5. w.nulling = v.nulling
  BY <1>1, <1>4, SteppedKeeps DEF SameSettings
<1>6. ASSUME ~ bocage.nulling, CausesExist
      PROVE  \E walk : Walks(walk, valuator)' /\ Stands(walk, valuator, trail)'
  <2>1. TreeIsThere
    BY <1>1, <1>6, WalkedTree DEF WalkInv
  <2>2. PICK old : Walks(old, v) /\ Stands(old, v, trail)
    BY <1>1, <1>6 DEF WalkInv
  <2>3. PICK walk : Walks(walk, w) /\ Stands(walk, v, trail)
    <3>1. CASE v.next = "INITIAL"
      <4>1. PICK walk : Walks(walk, w)
        BY <1>4, WalkExists
      <4>2. Stands(walk, v, trail)
        BY <2>2, <3>1 DEF Stands
      <4> QED BY <4>1, <4>2
    <3>2. CASE v.next # "INITIAL"
      <4>1. SameSettings(w, v)
        BY <1>1, <1>4, <3>2, SteppedKeeps
      <4>2. Walks(old, w)
        BY <1>4, <2>2, <4>1, WalkIsSettled
      <4> QED BY <2>2, <4>2
    <3> QED BY <3>1, <3>2
  <2>4. ~ v.nulling
    BY <1>1, <1>6 DEF WalkInv
  <2>5. v.next # "INITIAL" => v.xrlValued \subseteq G.xrl
    BY <1>1, <2>4 DEF ValuatorInv, Settled, RulesOf
  <2>6. Stands(walk, w, TrailAfter(trail, w))
    BY <1>1, <1>6, <2>1, <2>3, <2>4, <2>5, SteppedStands DEF TreeIsThere, WalkInv
  <2>7. Walks(walk, valuator)' /\ Stands(walk, valuator, trail)'
    BY <1>1, <1>3, <2>3, <2>6, WalksStay
  <2> QED BY <2>7
<1>7. CausesExist' <=> CausesExist
  BY <1>3 DEF CausesExist
<1> QED BY <1>1, <1>3, <1>5, <1>6, <1>7 DEF WalkInv

\* A setting leaves the walk as it is, or it has not begun.
LEMMA WalkSet ==
    ASSUME NookInv, ValuatorInv, WalkInv, Setting
    PROVE  WalkInv'
<1> PICK v : v = valuator
  OBVIOUS
<1> PICK w : w = valuator'
  OBVIOUS
<1>1. /\ v # NoValuator /\ Resettled(v, w) /\ Unmoved(w, v) /\ trail' = trail
      /\ UNCHANGED allVars
  BY SettingResettles, SettingUnmoved
<1>2. UNCHANGED <<nooks, order, canBeValued, bocage, turn, parseCount, exhausted>>
  BY <1>1 DEF allVars, bocageVars, vars, valueVars, orderVars, treeVars
<1>3. Len(nooks) \in Nat
  BY DEF NookInv
<1>4. \A walk : Stands(walk, v, trail) => Stands(walk, w, trail)
  BY <1>1 DEF Unmoved, Stands, IsTokenOf
<1>5. ASSUME ~ bocage.nulling, CausesExist
      PROVE  \E walk : Walks(walk, valuator)' /\ Stands(walk, valuator, trail)'
  <2>1. PICK old : Walks(old, v) /\ Stands(old, v, trail)
    BY <1>1, <1>5 DEF WalkInv
  <2>2. PICK walk : Walks(walk, w) /\ Stands(walk, v, trail)
    <3>1. CASE v.next = "INITIAL"
      <4>1. PICK walk : Walks(walk, w)
        BY <1>3, WalkExists
      <4>2. Stands(walk, v, trail)
        BY <2>1, <3>1 DEF Stands
      <4> QED BY <4>1, <4>2
    <3>2. CASE v.next # "INITIAL"
      <4>1. Settled(v) /\ DOMAIN v = Fields /\ v.valued \subseteq Xsy
        BY <1>1, <1>5, <3>2 DEF WalkInv, ValuatorInv
      <4>2. SameSettings(w, v)
        BY <1>1, <4>1 DEF Resettled, Settled, SameSettings
      <4>3. Walks(old, w)
        BY <1>3, <2>1, <4>2, WalkIsSettled
      <4> QED BY <2>1, <4>3
    <3> QED BY <3>1, <3>2
  <2>3. Walks(walk, valuator)' /\ Stands(walk, valuator, trail)'
    BY <1>1, <1>2, <1>4, <2>2, WalksStay
  <2> QED BY <2>3
<1>6. CausesExist' <=> CausesExist
  BY <1>2 DEF CausesExist
<1>7. w.nulling = v.nulling
  BY <1>1 DEF Resettled
<1> QED BY <1>1, <1>2, <1>5, <1>6, <1>7 DEF WalkInv

\* Each step keeps WalkInv.
LEMMA WalkStep ==
    ASSUME NookInv, PauseInv, SearchInv, SoundForestInv, ValuatorInv, WalkInv,
           [ValueNext]_valuatorVars
    PROVE  WalkInv'
<1>1. CASE ForestCall
  BY <1>1 DEF ForestCall, valueStepVars, WalkInv
<1>2. CASE ValuatorFree
  BY <1>2 DEF ValuatorFree, WalkInv
<1>3. CASE UNCHANGED valuatorVars
  <2>1. UNCHANGED <<nooks, order, canBeValued, bocage, turn, parseCount, exhausted>>
        /\ valuator' = valuator /\ trail' = trail
    BY <1>3 DEF valuatorVars, valueStepVars, allVars, bocageVars, vars, valueVars, orderVars,
                treeVars
  <2>2. \A walk : Walks(walk, valuator) /\ Stands(walk, valuator, trail) =>
                     Walks(walk, valuator)' /\ Stands(walk, valuator, trail)'
    BY <2>1, WalksStay
  <2>3. CausesExist' <=> CausesExist
    BY <2>1 DEF CausesExist
  <2> QED BY <2>1, <2>2, <2>3 DEF WalkInv
<1> QED BY <1>1, <1>2, <1>3, WalkNew, WalkOn, WalkSet DEF ValueNext

\* So the steps of the valuator are those of the tree.
LEMMA WalkIsEvaluation ==
    ASSUME NookInv, PauseInv, SearchInv, SoundForestInv, OrderInv, WalkInv, CausesExist,
           valuator # NoValuator, ~ valuator.nulling, valuator.next # "INITIAL"
    PROVE  /\ IsPrefix(trail, Evaluation(valuator))
           /\ ~ IsActive(valuator) => trail = Evaluation(valuator)
<1> PICK v : v = valuator
  OBVIOUS
<1> PICK L : L = Len(nooks)
  OBVIOUS
<1>1. /\ turn = "idle" /\ ~ bocage.nulling /\ parseCount > 0 /\ ~ exhausted
      /\ \E walk : Walks(walk, v) /\ Stands(walk, v, trail)
  BY DEF WalkInv
<1>2. ForestIsSound /\ Shaped(nooks) /\ L \in Nat /\ DOMAIN nooks = 1 .. L
  BY <1>1, WalkedTree DEF TreeIsThere
<1>3. InOrder(nooks) /\ nooks # <<>>
  BY <1>1, <1>2 DEF OrderInv, Finished
<1>4. PICK walk : Walks(walk, v) /\ Stands(walk, v, trail)
  BY <1>1
<1>5. Evaluation(v) = walk[L]
  BY <1>2, <1>3, <1>4, EvaluationIs
<1>6. \A k \in 0 .. L : walk[k] \in Seq(StepSet) /\ \E t \in Seq(StepSet) : walk[L] = walk[k] \o t
  BY <1>2, <1>4, WalkIs
<1>7. ~ IsActive(v) => trail = walk[L]
  BY <1>4 DEF IsActive, Stands
<1>8. ASSUME NEW s \in Seq(StepSet), NEW k \in 0 .. L, NEW r \in Seq(StepSet), walk[k] = s \o r
      PROVE  IsPrefix(s, walk[L])
  <2>1. PICK t \in Seq(StepSet) : walk[L] = walk[k] \o t
    BY <1>6
  <2>2. (s \o r) \o t = s \o (r \o t)
    BY StepsAssociate, Zenon
  <2>3. r \o t \in Seq(StepSet)
    BY ConcatProperties
  <2>4. walk[L] = s \o (r \o t)
    BY <1>8, <2>1, <2>2, Zenon
  <2>5. IsPrefix(s, s \o (r \o t))
    BY <2>3, ConcatPrefix
  <2> QED BY <2>4, <2>5
<1>9. trail \in Seq(StepSet) /\ <<>> \in Seq(StepSet) /\ trail \o <<>> = trail
  BY <1>4, ConcatEmptySeq, EmptySeq DEF Stands
<1>10. CASE v.next = "INACTIVE"
  <2>1. trail = walk[L] /\ L \in 0 .. L
    BY <1>2, <1>4, <1>10 DEF Stands
  <2> QED BY <1>5, <1>7, <1>8, <1>9, <2>1
<1>11. CASE v.next # "INACTIVE"
  <2>1. v.nook \in 1 .. L
    BY <1>2, <1>4, <1>11 DEF Stands
  <2>2. PICK k : k = L - v.nook + 1
    OBVIOUS
  <2>3. k \in 0 .. L
    <3>1. \A l \in Nat : \A i \in 1 .. l : l - i + 1 \in 0 .. l
      OBVIOUS
    <3> QED BY <1>2, <2>1, <2>2, <3>1, Zenon
  <2>4. walk[k] = trail \/ walk[k] = Append(trail, RuleStep(v.nook))
    BY <1>4, <1>11, <2>2 DEF Stands
  <2>5. RuleStep(v.nook) \in StepSet
    BY <2>1 DEF RuleStep, StepSet
  <2>6. \E r \in Seq(StepSet) : walk[k] = trail \o r
    <3>1. CASE walk[k] = trail
      BY <1>9, <3>1
    <3>2. CASE walk[k] = Append(trail, RuleStep(v.nook))
      <4>1. trail \o <<RuleStep(v.nook)>> = Append(trail, RuleStep(v.nook))
        BY <1>9, <2>5, OneMore
      <4>2. <<RuleStep(v.nook)>> \in Seq(StepSet)
        BY <2>5
      <4> QED BY <3>2, <4>1, <4>2
    <3> QED BY <2>4, <3>1, <3>2
  <2>7. IsPrefix(trail, walk[L])
    BY <1>8, <1>9, <2>3, <2>6
  <2> QED BY <1>5, <1>7, <1>11, <2>7 DEF IsActive
<1> QED BY <1>10, <1>11
-----------------------------------------------------------------------------
(***************************************************************************)
(* The tokens of the tree are those that were read.                        *)
(***************************************************************************)
\* A symbol that is read is found again by way of its external symbol.
IsFoundAgain(sym) == G.nsyOf[G.sourceXsy[sym]] = sym

\* A token advances the item where it starts to where it ends.
TokenLinksInv ==
    /\ \A a \in alternatives : IsFoundAgain(a.sym)
    /\ \A k \in tokenLinks :
          /\ IsFoundAgain(k.token.sym)
          /\ k.token.start = k.pred.at /\ k.token.end = k.effect.at

\* The tokens that are accepted have symbols that are found again.
LEMMA AcceptedAreFound ==
    ASSUME TypeInv, TokenLinksInv, [Next]_vars, NEW a \in alternatives'
    PROVE  IsFoundAgain(a.sym)
<1>1. CASE a \in alternatives
  BY <1>1 DEF TokenLinksInv
<1>2. CASE alternatives' \subseteq alternatives
  BY <1>2 DEF TokenLinksInv
<1>3. ASSUME NEW x \in Xsy \cup {NoSymbol}, NEW value \in TokenValues, NEW length \in Lengths,
             InsertToken(x, value, length), a \notin alternatives
      PROVE  IsFoundAgain(a.sym)
  <2>1. x \in Xsy /\ length \in Nat /\ current \in Nat
    BY <1>3, TokenChecks DEF InsertToken
  <2>2. G.nsyOf[x] \in Symbol
    BY <1>3, <2>1, PassedChecks DEF InsertToken
  <2>3. a.sym = G.nsyOf[x]
    BY <1>3 DEF InsertToken, TokenOf
  <2>4. G.sourceXsy[G.nsyOf[x]] = x
    BY <2>1, <2>2, GrammarAssumption DEF Xsy, Symbol
  <2> QED BY <2>3, <2>4 DEF IsFoundAgain
<1>4. CASE SettingCall \/ StartInput \/ StartInputAgain \/ EarlemeComplete \/ UNCHANGED vars
  <2>1. alternatives' = alternatives
    BY <1>4 DEF SettingCall, UseLeoSet, Activate, Deactivate, ExpectedEventSet, StartInput,
         StartInputAgain, EarlemeComplete, CompleteRefused, CompletePastFurthest, CompleteGap,
         BeginEarleySet, vars, inputVars
  <2> QED BY <1>2, <2>1
<1>5. CASE InternalStep
  <2>1. alternatives' \subseteq alternatives
    BY <1>5 DEF InternalStep, ScanToken, EndScan, CompleteByLeo, CompleteByEarley,
         PredictAndPostdot, PopulateLim, EndEarleySet, inputVars
  <2> QED BY <1>2, <2>1
<1>6. CASE Alternative
  <2>1. PICK x \in Xsy \cup {NoSymbol}, value \in TokenValues, length \in Lengths :
          \/ RefuseToken(x, value, length)
          \/ RejectToken(x, value, length)
          \/ InsertToken(x, value, length)
    BY <1>6 DEF Alternative
  <2>2. CASE RefuseToken(x, value, length) \/ RejectToken(x, value, length)
    <3>1. alternatives' = alternatives
      BY <2>2 DEF RefuseToken, RejectToken, inputVars
    <3> QED BY <1>2, <3>1
  <2> QED BY <1>1, <1>3, <2>1, <2>2
<1> QED BY <1>4, <1>5, <1>6 DEF Next

\* Each step keeps TokenLinksInv: a token is scanned in the set where it ends.
LEMMA TokenLinksStep ==
    ASSUME SpanInv, TokenLinksInv, [Next]_vars
    PROVE  TokenLinksInv'
<1>0. TypeInv /\ InputInv
  BY DEF SpanInv, InputInv
<1>1. \A a \in alternatives' : IsFoundAgain(a.sym)
  BY <1>0, AcceptedAreFound
<1>2. ASSUME NEW a \in alternatives, ScanToken(a), NEW k \in tokenLinks', k \notin tokenLinks
      PROVE  /\ IsFoundAgain(k.token.sym)
             /\ k.token.start = k.pred.at /\ k.token.end = k.effect.at
  <2>1. PICK i \in Pims(a.start, a.sym) :
            k = [effect |-> Advance(i, current), pred |-> i, token |-> a]
    BY <1>2 DEF ScanToken
  <2>2. k.token = a /\ k.pred = i /\ k.effect = Advance(i, current)
    BY <2>1
  <2>3. i.at = a.start /\ Advance(i, current).at = current
    BY DEF Pims, Advance
  <2>4. a.end = current
    <3>1. pc = "scan" /\ a.end <= current /\ a.end >= current /\ a.end \in Nat /\ current \in Nat
      BY <1>0, <1>2, TokenTypes, CurrentType DEF ScanToken, InputInv, PendingTokens
    <3> QED BY <3>1
  <2> QED BY <2>2, <2>3, <2>4 DEF TokenLinksInv
<1>3. CASE tokenLinks' \subseteq tokenLinks
  BY <1>1, <1>3 DEF TokenLinksInv
<1>4. CASE StartInput \/ EarlemeStep \/ PredictAndPostdot
  <2>1. tokenLinks' = tokenLinks
    BY <1>4 DEF StartInput, EarlemeStep, CompletePastFurthest, CompleteGap, BeginEarleySet,
         PredictAndPostdot, linkVars
  <2> QED BY <1>3, <2>1
<1>5. ASSUME NEW cause \in stack, CompleteByLeo(cause) \/ CompleteByEarley(cause)
      PROVE  tokenLinks' = tokenLinks
  BY <1>5 DEF CompleteByLeo, CompleteByEarley
<1>6. ASSUME NEW n \in newLims, PopulateLim(n) PROVE tokenLinks' = tokenLinks
  BY <1>6 DEF PopulateLim, linkVars
<1>7. ASSUME NEW a \in alternatives, ScanToken(a) PROVE TokenLinksInv'
  <2> HIDE DEF IsFoundAgain
  <2> QED BY <1>1, <1>2, <1>7 DEF TokenLinksInv
<1>8. CASE UNCHANGED linkVars
  BY <1>3, <1>8 DEF linkVars
<1> QED BY <1>0, <1>3, <1>4, <1>5, <1>6, <1>7, <1>8, OtherSteps

\* The token that an and-node stands for.
TokenOfAnd(a) ==
    [sym |-> G.nsyOf[G.sourceXsy[a.cause.sym]],
     start |-> IF a.pred = NoOr THEN a.parent.origin ELSE a.pred.at,
     end |-> a.parent.at, value |-> a.cause.value]

\* The tokens of and-nodes are among those that the recognizer scanned.
TokensAreScanned(ands) ==
    \A a \in ands : a.cause # NoOr /\ a.cause.type = "token" => TokenOfAnd(a) \in ScannedTokens

\* An and-node with a token is made from the link of a token.
LEMMA TokenAndIs ==
    ASSUME ChartInv, TokenLinksInv, PredictionsSpan, NEW I, IsHeld(I), NEW a \in TokenAnds(I)
    PROVE  TokenOfAnd(a) \in ScannedTokens
<1>1. PICK k \in tokenLinks : k.effect \in I
                              /\ a = And(ProperOrOf(k.effect), OrOf(k.pred), TokenOr(k.token))
  BY DEF TokenAnds
<1> PICK p : p = k.pred
  OBVIOUS
<1> PICK o : o = ProperOrOf(k.effect)
  OBVIOUS
<1> PICK t : t = k.token
  OBVIOUS
<1>2. /\ a.parent = o /\ a.pred = OrOf(p)
      /\ a.cause.sym = t.sym /\ a.cause.value = t.value
  BY <1>1, AndIs DEF TokenOr
<1>3. k.pred \in Sources(I) /\ I \in SUBSET items
  BY <1>1, SourcesAre DEF LinkSource, IsHeld
<1>4. o.origin = k.effect.origin /\ o.at = k.effect.at
  BY <1>1, <1>3, EffectIs, ProperOrIs
<1>5. p \in items /\ k.effect.origin = p.origin
  <2>1. k.pred \in items /\ k.effect = Advance(k.pred, k.effect.at)
    BY DEF ChartInv, LinkageInv, SourcesAreThere
  <2> QED BY <2>1 DEF Advance
<1>6. t \in Token /\ t \in ScannedTokens
  BY DEF ChartInv, SpanInv, InputInv, TypeInv, TypeOK, ScannedTokens
<1>7. IsFoundAgain(t.sym) /\ t.start = p.at /\ t.end = k.effect.at
  BY DEF TokenLinksInv
<1>8. (IF OrOf(p) = NoOr THEN o.origin ELSE OrOf(p).at) = p.at
  <2>1. /\ RuleOf(p.ahm) \in Rule /\ p.ahm[2] \in Nat /\ NullCount[p.ahm] \in Nat
        /\ p.origin \in Nat /\ p.at \in Nat
    BY <1>5, ItemIs
  <2>2. CASE OrOf(p) # NoOr
    <3>1. PICK q : q = OrOf(p)
      OBVIOUS
    <3>2. q = OrNode(RuleOf(p.ahm), p.ahm[2], NullCount[p.ahm], p.origin, p.at) /\ q # NoOr
      BY <2>2, <3>1 DEF OrOf
    <3>3. q.at = p.at
      BY <2>1, <3>2, OrNodeHas
    <3> QED BY <2>2, <3>1, <3>3
  <2>3. CASE OrOf(p) = NoOr
    <3>1. p.ahm[2] = 0
      BY <2>1, <2>3, OrNodeIs DEF OrOf
    <3>2. p.origin = p.at
      BY <1>5, <3>1 DEF PredictionsSpan
    <3> QED BY <1>4, <1>5, <2>3, <3>2
  <2> QED BY <2>2, <2>3
<1>9. TokenOfAnd(a) = [sym |-> t.sym, start |-> p.at, end |-> t.end, value |-> t.value]
  BY <1>2, <1>4, <1>7, <1>8 DEF TokenOfAnd, IsFoundAgain
<1>10. t = [sym |-> t.sym, start |-> t.start, end |-> t.end, value |-> t.value]
  BY <1>6 DEF Token
<1> QED BY <1>6, <1>7, <1>9, <1>10

\* The and-nodes of a new bocage with tokens stand for tokens that were read.
LEMMA ForestOfTokens ==
    ASSUME ChartInv, TokenLinksInv, PredictionsSpan, NEW start \in items, NEW b, b = Forest(start)
    PROVE  TokensAreScanned(b.ands)
<1> DEFINE I == WithOr(Reached(start))
           ors == OrsOf(I)
<1>1. IsHeld(I)
  BY HeldIs
<1> HIDE DEF I
<1>2. b.ands = NullingAnds(I) \cup TokenAnds(I) \cup CompletionAnds(I) \cup LeoAnds(I, ors)
  BY DEF Forest, OrsOf, I
<1>3. I \in SUBSET items /\ SoundOrs(ors)
  BY <1>1, OrsAreSound DEF IsHeld
<1>4. \A o \in ors \cup {NoOr} : o = NoOr \/ o.type # "token"
  BY <1>3 DEF SoundOrs, OrSpace
<1>5. ASSUME NEW a \in NullingAnds(I) PROVE a.cause.type # "token"
  <2>1. a.cause = NullingOr
    BY AndIs DEF NullingAnds
  <2> QED BY <2>1 DEF NullingOr
<1>6. ASSUME NEW a \in CompletionAnds(I) PROVE a.cause \in ors \cup {NoOr}
  <2>1. PICK k \in completionLinks :
            k.effect \in I /\ a = And(ProperOrOf(k.effect), OrOf(k.pred), OrOf(k.cause))
    BY DEF CompletionAnds
  <2>2. a.cause = OrOf(k.cause)
    BY <2>1, AndIs
  <2>3. k.cause \in Sources(I)
    BY <2>1, SourcesAre DEF PairSource
  <2> QED BY <1>1, <2>2, <2>3, SourceOrIs
<1>7. ASSUME NEW a \in LeoAnds(I, ors) PROVE a.cause \in ors \cup {NoOr}
  <2>1. PICK k \in leoLinks : k.effect \in I /\ \E l \in Above[k.lim] : a \in StepAnds(k, l, ors)
    BY DEF LeoAnds
  <2>2. PICK l \in Above[k.lim] : a \in StepAnds(k, l, ors)
    BY <2>1
  <2>3. PICK c \in StepCauses(k, l, ors) : a = And(StepParent(k, l), OrOf(l.base), c)
    BY <2>2 DEF StepAnds, Distinct
  <2>4. a.cause = c
    BY <2>3, AndIs
  <2>5. k.cause \in Sources(I)
    BY <2>1, SourcesAre DEF LeoSource
  <2>6. OrOf(k.cause) \in ors \cup {NoOr}
    BY <1>1, <2>5, SourceOrIs
  <2> QED BY <2>4, <2>6, StepCausesAre
<1> HIDE DEF ors
<1>8. ASSUME NEW a \in b.ands, a.cause # NoOr, a.cause.type = "token" PROVE a \in TokenAnds(I)
  BY <1>2, <1>4, <1>5, <1>6, <1>7, <1>8
<1>9. \A a \in TokenAnds(I) : TokenOfAnd(a) \in ScannedTokens
  BY <1>1, TokenAndIs
<1> QED BY <1>8, <1>9 DEF TokensAreScanned

\* What the chart holds of tokens, and the bocage after it.
TokensInv ==
    /\ TokenLinksInv /\ PredictionsSpan
    /\ bocage # NoBocage => TokensAreScanned(bocage.ands)

\* A bocage that stays, over links that stay, stands for the same tokens.
LEMMA TokensStay ==
    ASSUME TokensInv, tokenLinks' = tokenLinks, bocage' = bocage, alternatives' = alternatives,
           items' = items
    PROVE  TokensInv'
<1>1. TokenLinksInv' /\ PredictionsSpan'
  BY DEF TokensInv, TokenLinksInv, PredictionsSpan, IsFoundAgain
<1>2. \A ands : TokensAreScanned(ands) => TokensAreScanned(ands)'
  BY DEF TokensAreScanned, ScannedTokens, TokenOfAnd
<1> QED BY <1>1, <1>2 DEF TokensInv

\* Each step keeps the tokens of the bocage those that were read.
LEMMA TokensBelowTree ==
    ASSUME ChartInv, TokensInv, [AllNext]_allVars
    PROVE  TokensInv'
<1>1. CASE UNCHANGED allVars
  BY <1>1, TokensStay DEF allVars, bocageVars, vars, linkVars, inputVars, chartVars
<1>2. CASE ForestUnchanged
  BY <1>2, TokensStay DEF ForestUnchanged, RecognizerUnchanged, linkVars, inputVars, chartVars
<1>3. CASE bocage = NoBocage /\ Next /\ UNCHANGED bocage
  BY <1>3, TokenLinksStep, PredictionsSpanStep DEF TokensInv, ChartInv
<1>4. ASSUME NEW ordinal \in Ordinals, BocageNew(ordinal) PROVE TokensInv'
  <2> PICK b : b = bocage'
    OBVIOUS
  <2>1. UNCHANGED <<tokenLinks, alternatives, items>>
    BY <1>4 DEF BocageNew, linkVars, inputVars, chartVars
  <2>2. TokenLinksInv' /\ PredictionsSpan'
    BY <2>1 DEF TokensInv, TokenLinksInv, PredictionsSpan, IsFoundAgain
  <2>3. \/ b = NoBocage
        \/ b = NullingBocage
        \/ \E e \in SetOf(ordinal) \ {0} : \E start \in CompletedStarts(e) : b = Forest(start)
    BY <1>4 DEF BocageNew
  <2>4. b # NoBocage => TokensAreScanned(b.ands)
    <3>1. CASE b = NullingBocage
      BY <3>1 DEF NullingBocage, TokensAreScanned
    <3>2. ASSUME NEW e, NEW start \in CompletedStarts(e), b = Forest(start)
          PROVE  TokensAreScanned(b.ands)
      <4>1. start \in items
        BY DEF CompletedStarts
      <4> QED BY <3>2, <4>1, ForestOfTokens DEF TokensInv
    <3> QED BY <2>3, <3>1, <3>2
  <2>5. TokensAreScanned(b.ands) => TokensAreScanned(bocage.ands)'
    BY <2>1 DEF TokensAreScanned, ScannedTokens, TokenOfAnd
  <2> QED BY <2>2, <2>4, <2>5 DEF TokensInv
<1> QED BY <1>1, <1>2, <1>3, <1>4, ForestSteps DEF BocageNext

-----------------------------------------------------------------------------
(***************************************************************************)
(* The steps of the valuator are those of the tree.                        *)
(***************************************************************************)
\* A token that the valuator tells of was read, with its value, where the valuator says.
LEMMA ToldTokenWasRead ==
    ASSUME NookInv, PauseInv, SearchInv, SoundForestInv, WalkInv, TokensInv, CausesExist,
           valuator # NoValuator, ~ valuator.nulling, valuator.step = "TOKEN"
    PROVE  [sym |-> G.nsyOf[valuator.xsy], start |-> valuator.tokenStart,
            end |-> valuator.at, value |-> valuator.value] \in ScannedTokens
<1> PICK v : v = valuator
  OBVIOUS
<1>1. /\ turn = "idle" /\ ~ bocage.nulling /\ parseCount > 0 /\ ~ exhausted
      /\ \E walk : Stands(walk, v, trail)
  BY DEF WalkInv
<1>2. Shaped(nooks) /\ bocage # NoBocage /\ BocageIsSound(bocage) /\ OrderedAs(bocage, order)
  BY <1>1, WalkedTree DEF TreeIsThere, PauseInv, SoundForestInv
<1>3. PICK i \in DOMAIN nooks : IsTokenOf(v, i)
  BY <1>1 DEF Stands
<1>4. PICK a \in bocage.ands : a = AndOf(nooks[i]) /\ a.parent = nooks[i].or
  BY <1>2, NookAnds DEF Shaped
<1>5. a.cause # NoOr /\ a.cause.type = "token"
  BY <1>2, <1>3, <1>4 DEF CausesExist, IsTokenOf, CauseOf
<1>6. TokenOfAnd(a) \in ScannedTokens
  BY <1>2, <1>5 DEF TokensInv, TokensAreScanned
<1>7. TokenOfAnd(a) = [sym |-> G.nsyOf[v.xsy], start |-> v.tokenStart, end |-> v.at,
                       value |-> v.value]
  BY <1>3, <1>4 DEF TokenOfAnd, IsTokenOf, CauseOf
<1> QED BY <1>6, <1>7

\* What holds of the tree and of the walk in every reachable state.
EvaluationInv ==
    /\ ForestInv /\ PauseInv /\ NookInv /\ ChartInv /\ SoundForestInv /\ SearchInv
    /\ OrderInv /\ TokensInv /\ ValuatorInv /\ WalkInv

\* At first there is no bocage, no tree and no valuator.
LEMMA EvaluationStart == ValueInit => EvaluationInv
<1> SUFFICES ASSUME ValueInit PROVE EvaluationInv
  OBVIOUS
<1>1. ForestInv /\ PauseInv /\ NookInv /\ ChartInv /\ SoundForestInv /\ SearchInv
  BY ForestInit, PauseInit, NookInit, SearchStart DEF ValueInit
<1>2. OrderInv /\ ValuatorInv /\ WalkInv
  BY DEF ValueInit, TreeInit, OrderInv, ValuatorInv, WalkInv
<1>3. TokensInv
  BY DEF ValueInit, TreeInit, OrderInit, BocageInit, Init, TokensInv, TokenLinksInv,
         PredictionsSpan
<1> QED BY <1>1, <1>2, <1>3 DEF EvaluationInv

\* Each step keeps it.
LEMMA EvaluationStep ==
    ASSUME EvaluationInv, [ValueNext]_valuatorVars
    PROVE  EvaluationInv'
<1>0. [AllNext]_allVars
  BY ValueStepsTheTree
<1>1. ForestInv' /\ PauseInv' /\ NookInv' /\ ChartInv' /\ SoundForestInv' /\ SearchInv'
  BY <1>0, ForestStep, PauseStep, NookStep, SoundForestStep, SearchStep DEF EvaluationInv
<1>2. OrderInv' /\ TokensInv'
  BY <1>0, OrderStep, TokensBelowTree DEF EvaluationInv
<1>3. ValuatorInv' /\ WalkInv'
  BY ValuatorStep, WalkStep DEF EvaluationInv
<1> QED BY <1>1, <1>2, <1>3 DEF EvaluationInv

\* The steps of marpa_v_step are those of the tree, each rule after its children and
\* these from left to right, with nothing left out before it becomes inactive, and each
\* token is one that was read, for every grammar, input, order and tree and whatever is
\* set between the steps, as long as each and-node has a cause (draft_and_node_new's
\* assertion, which does not hold of every grammar).
THEOREM StepsAreOfTheTree == ValueSpec => [](CausesExist => StepsValueTheTree)
<1>1. ValueInit => EvaluationInv
  BY EvaluationStart
<1>2. EvaluationInv /\ [ValueNext]_valuatorVars => EvaluationInv'
  BY EvaluationStep
<1>3. EvaluationInv => (CausesExist => StepsValueTheTree)
  BY WalkIsEvaluation, ToldTokenWasRead DEF EvaluationInv, StepsValueTheTree
<1> QED BY <1>1, <1>2, <1>3, PTL DEF ValueSpec

\* So they are, without a condition on the bocage, for a grammar without nulling symbols
\* at the end of a right recursive rule.
THEOREM StepsAreOfTheParse == NoNullsAfterRecursion => (ValueSpec => []StepsValueTheTree)
<1> SUFFICES ASSUME NoNullsAfterRecursion PROVE ValueSpec => []StepsValueTheTree
  OBVIOUS
<1>1. ValueInit => EvaluationInv /\ CausesExist
  BY EvaluationStart DEF ValueInit, TreeInit, OrderInit, BocageInit, CausesExist
<1>2. EvaluationInv /\ CausesExist /\ [ValueNext]_valuatorVars => EvaluationInv' /\ CausesExist'
  <2> SUFFICES ASSUME EvaluationInv, CausesExist, [ValueNext]_valuatorVars
               PROVE  EvaluationInv' /\ CausesExist'
    OBVIOUS
  <2>1. EvaluationInv' /\ [AllNext]_allVars
    BY EvaluationStep, ValueStepsTheTree
  <2>2. bocage' = bocage \/ BocageNext
    BY <2>1, ForestSteps DEF allVars, orderVars, bocageVars, ForestUnchanged
  <2>3. CASE bocage' = bocage
    <3>1. CausesExist'
      BY <2>3 DEF CausesExist
    <3> QED BY <2>1, <3>1
  <2>4. CASE BocageNext
    <3>1. ChartInv
      BY DEF EvaluationInv
    <3>2. CausesExist'
      BY <2>4, <3>1, CausesKept
    <3> QED BY <2>1, <3>2
  <2> QED BY <2>1, <2>2, <2>3, <2>4
<1>3. ValueSpec => [](CausesExist => StepsValueTheTree)
  BY StepsAreOfTheTree
<1> QED BY <1>1, <1>2, <1>3, PTL DEF ValueSpec

-----------------------------------------------------------------------------
(***************************************************************************)
(* The positions of or-nodes in the right sides of their rules.            *)
(***************************************************************************)
\* The nulling symbols before each dot of a rule.
Before(r) == NullsBefore[r]

\* They are those before the dot before it, and those at that dot.
LEMMA NullsBeforeIs ==
    ASSUME NEW r \in Rule
    PROVE  /\ \A d \in 0 .. Len(Rhs(r)) : Before(r)[d] \in Nat /\ NullCount[<<r, d>>] \in Nat
           /\ Before(r)[0] = 0
           /\ \A d \in 1 .. Len(Rhs(r)) :
                 Before(r)[d] = Before(r)[d - 1] + NullCount[<<r, d - 1>>]
<1> PICK L : L = Len(Rhs(r))
  OBVIOUS
<1>1. L \in Nat
  BY RuleTypes
<1>2. \A d \in 0 .. L : NullCount[<<r, d>>] \in Nat
  BY <1>1, AhmMade, BocageAssumption
<1> DEFINE Sum(f) == f = [d \in 0 .. L |-> IF d = 0 THEN 0 ELSE f[d - 1] + NullCount[<<r, d - 1>>]]
           Of(f, n) == /\ DOMAIN f = 0 .. n
                       /\ \A d \in 0 .. n :
                             f[d] = IF d = 0 THEN 0 ELSE f[d - 1] + NullCount[<<r, d - 1>>]
           T == {n \in Nat : \E f : Of(f, n)}
<1>3. 0 \in T
  <2>1. Of([d \in 0 .. 0 |-> 0], 0)
    OBVIOUS
  <2> QED BY <2>1
<1>4. ASSUME NEW n \in Nat, n \in T PROVE n + 1 \in T
  <2>1. PICK f : Of(f, n)
    BY <1>4
  <2>2. PICK e : e = [d \in 0 .. n + 1 |->
                        IF d = n + 1 THEN f[n] + NullCount[<<r, n>>] ELSE f[d]]
    OBVIOUS
  <2>3. ASSUME NEW d \in 0 .. n + 1
        PROVE  e[d] = IF d = 0 THEN 0 ELSE e[d - 1] + NullCount[<<r, d - 1>>]
    <3>1. CASE d = n + 1
      <4>1. e[d - 1] = f[n] /\ d # 0 /\ d - 1 = n
        BY <2>2, <3>1
      <4> QED BY <2>2, <3>1, <4>1
    <3>2. CASE d # n + 1
      <4>1. d \in 0 .. n /\ e[d] = f[d] /\ (d # 0 => e[d - 1] = f[d - 1])
        BY <2>2, <3>2
      <4>2. f[d] = IF d = 0 THEN 0 ELSE f[d - 1] + NullCount[<<r, d - 1>>]
        BY <2>1, <4>1
      <4> QED BY <4>1, <4>2
    <3> QED BY <3>1, <3>2
  <2>4. DOMAIN e = 0 .. n + 1
    BY <2>2
  <2>5. Of(e, n + 1)
    BY <2>3, <2>4
  <2> HIDE DEF Of
  <2> QED BY <2>5
<1>5. Nat \subseteq T
  <2> HIDE DEF T
  <2> QED BY <1>3, <1>4, SetInduction
<1>6. \E f : Sum(f)
  <2>1. PICK f : Of(f, L)
    BY <1>1, <1>5
  <2>2. PICK e : e = [d \in 0 .. L |-> f[d]]
    OBVIOUS
  <2>3. \A d \in 0 .. L : d # 0 => d - 1 \in 0 .. L
    BY <1>1
  <2>4. Sum(e)
    BY <2>1, <2>2, <2>3
  <2> HIDE DEF Sum
  <2> QED BY <2>4
<1> DEFINE g == CHOOSE f : Sum(f)
<1>7. Before(r) = g
  BY Zenon DEF Before, NullsBefore
<1>8. Sum(g)
  BY <1>6, Zenon
<1> HIDE DEF g
<1>9. g[0] = 0 /\ \A d \in 1 .. L : g[d] = g[d - 1] + NullCount[<<r, d - 1>>]
  BY <1>1, <1>8
<1>10. \A d \in 0 .. L : g[d] \in Nat
  <2> DEFINE N == {d \in Nat : d <= L => g[d] \in Nat}
  <2>1. 0 \in N
    BY <1>9
  <2>2. ASSUME NEW d \in Nat, d \in N PROVE d + 1 \in N
    <3>1. ASSUME d + 1 <= L PROVE g[d + 1] \in Nat
      <4>1. d \in 0 .. L /\ d + 1 \in 1 .. L /\ d + 1 - 1 = d /\ g[d] \in Nat
        BY <1>1, <2>2, <3>1
      <4>2. g[d + 1] = g[d] + NullCount[<<r, d>>]
        BY <1>9, <4>1
      <4> QED BY <1>2, <4>1, <4>2
    <3> QED BY <3>1
  <2>3. Nat \subseteq N
    <3> HIDE DEF N
    <3> QED BY <2>1, <2>2, SetInduction
  <2> QED BY <1>1, <2>3
<1> QED BY <1>2, <1>7, <1>9, <1>10

\* An or-node stands for a place in a rule, at or after the first symbol.
HasPlace(o) ==
    /\ o \in OrSpace /\ o.rule \in Rule /\ o.dot \in 0 .. Len(Rhs(o.rule))
    /\ o.nulls \in 0 .. NullCount[<<o.rule, o.dot>>]
    /\ o.dot # 0 \/ o.nulls # 0

\* Some symbol before that place is virtual.
PastVirtual(o) == \E d \in 1 .. o.dot : IsVirtual(Rhs(o.rule)[d])

\* The place of an or-node is a position in its rule, the last one only after the last
\* non-nulling symbol; its symbols have a virtual one only if those of its rule have one.
LEMMA PlaceIs ==
    ASSUME NEW o, HasPlace(o)
    PROVE  /\ PositionOf(o) \in 1 .. Len(G.rhsXsys[o.rule]) /\ Len(G.rhsXsys[o.rule]) \in Nat
           /\ IsWholeRule(o) => o.dot = Len(Rhs(o.rule))
           /\ PastVirtual(o) => o.rule \in G.virtualRhs
           /\ IsWholeRule(o) => (PastVirtual(o) <=> o.rule \in G.virtualRhs)
<1> PICK r : r = o.rule
  OBVIOUS
<1> PICK L : L = Len(Rhs(r))
  OBVIOUS
<1> PICK Nulls : Nulls = [d \in 0 .. L |-> NullCount[<<r, d>>]]
  OBVIOUS
<1> PICK B : B = Before(r)
  OBVIOUS
<1>1. r \in Rule /\ L \in Nat
  BY RuleTypes DEF HasPlace
<1>2. /\ \A d \in 0 .. L : B[d] \in Nat /\ Nulls[d] \in Nat
      /\ \A d \in 1 .. L : B[d] = B[d - 1] + Nulls[d - 1]
  <2>1. \A d \in 1 .. L : d - 1 \in 0 .. L
    BY <1>1
  <2> QED BY <1>1, <2>1, NullsBeforeIs
<1>3. /\ o.dot \in 0 .. L /\ o.nulls \in 0 .. Nulls[o.dot] /\ (o.dot # 0 \/ o.nulls # 0)
      /\ PositionOf(o) = o.dot + o.nulls + B[o.dot]
  BY DEF HasPlace, PositionOf, Position, Before
<1>4. L \in 0 .. L /\ Len(G.rhsXsys[r]) = L + Nulls[L] + B[L]
  <2>1. Len(G.rhsXsys[r]) = Position(r, L, NullCount[<<r, L>>])
    BY <1>1, PositionAssumption
  <2> QED BY <1>1, <2>1 DEF Position, Before
<1> DEFINE Bound(d, m) == d + Nulls[d] + B[d] + m <= L + Nulls[L] + B[L]
           T == {n \in Nat : \A d \in 0 .. L : L - d = n => Bound(d, n)}
<1>5. 0 \in T
  <2>1. \A d \in 0 .. L : L - d = 0 => d = L
    BY <1>1
  <2>2. \A d \in 0 .. L : L - d = 0 => d + Nulls[d] + B[d] + 0 <= L + Nulls[L] + B[L]
    BY <1>1, <1>2, <1>4, <2>1
  <2> QED BY <2>2
<1>6. ASSUME NEW n \in Nat, n \in T PROVE n + 1 \in T
  <2>1. ASSUME NEW d \in 0 .. L, L - d = n + 1
        PROVE  Bound(d, n + 1)
    <3>1. d + 1 \in 0 .. L /\ d + 1 \in 1 .. L /\ L - (d + 1) = n /\ d + 1 - 1 = d
      BY <1>1, <2>1
    <3>2. d + 1 + Nulls[d + 1] + B[d + 1] + n <= L + Nulls[L] + B[L]
      BY <1>6, <3>1
    <3>3. B[d + 1] = B[d] + Nulls[d]
      <4>1. B[d + 1] = B[d + 1 - 1] + Nulls[d + 1 - 1]
        BY <1>2, <3>1
      <4> QED BY <3>1, <4>1
    <3>4. Nulls[d + 1] \in Nat /\ B[d] \in Nat /\ Nulls[d] \in Nat /\ Nulls[L] \in Nat /\ B[L] \in Nat
      BY <1>2, <1>4, <3>1
    <3>5. \A x \in Nat : \A b \in Nat : \A y \in Nat : \A whole \in Nat : \A e \in Nat :
            e + 1 + y + (b + x) + n <= whole => e + x + b + (n + 1) <= whole
      OBVIOUS
    <3>6. L + Nulls[L] + B[L] \in Nat /\ d \in Nat
      BY <1>1, <3>4
    <3> QED BY <3>2, <3>3, <3>4, <3>5, <3>6
  <2> HIDE DEF Bound
  <2> QED BY <2>1
<1>7. \A d \in 0 .. L : d + Nulls[d] + B[d] + (L - d) <= L + Nulls[L] + B[L]
  <2>1. Nat \subseteq T
    <3> HIDE DEF T
    <3> QED BY <1>5, <1>6, SetInduction
  <2>2. \A d \in 0 .. L : L - d \in Nat
    BY <1>1
  <2> QED BY <2>1, <2>2
<1> HIDE DEF T
<1>8. PositionOf(o) \in 1 .. Len(G.rhsXsys[r]) /\ Len(G.rhsXsys[r]) \in Nat
      /\ (IsWholeRule(o) => o.dot = L)
  <2>1. PICK d : d = o.dot
    OBVIOUS
  <2>2. PICK n : n = o.nulls
    OBVIOUS
  <2>3. PICK b : b = B[d]
    OBVIOUS
  <2>4. PICK m : m = Nulls[d]
    OBVIOUS
  <2>5. PICK whole : whole = L + Nulls[L] + B[L]
    OBVIOUS
  <2>6. d \in 0 .. L /\ n \in 0 .. m /\ (d # 0 \/ n # 0) /\ PositionOf(o) = d + n + b
    BY <1>3, <2>1, <2>2, <2>3, <2>4
  <2>7. b \in Nat /\ m \in Nat /\ L \in Nat
    BY <1>1, <1>2, <2>3, <2>4, <2>6
  <2>8. whole \in Nat /\ Len(G.rhsXsys[r]) = whole
    <3>1. Nulls[L] \in Nat /\ B[L] \in Nat
      BY <1>2, <1>4
    <3> QED BY <1>1, <1>4, <2>5, <3>1
  <2>9. d + m + b + (L - d) <= whole
    BY <1>7, <2>3, <2>4, <2>5, <2>6
  <2> HIDE DEF Bound
  <2>10. d + n + b \in 1 .. whole /\ (d + n + b = whole => d = L)
    <3>1. d \in Nat /\ n \in Nat /\ d <= L /\ n <= m
      BY <2>6, <2>7
    <3>2. d + m + b + (L - d) = L + m + b
      BY <2>7, <3>1
    <3>3. L + m + b <= whole
      BY <2>9, <3>2
    <3>4. d + n + b \in Nat /\ d + n + b >= 1
      BY <2>6, <2>7, <3>1
    <3>5. d + n + b <= whole
      BY <2>7, <2>8, <3>1, <3>3
    <3>6. d + n + b = whole => d = L
      BY <2>7, <2>8, <3>1, <3>3
    <3> QED BY <2>8, <3>4, <3>5, <3>6
  <2>11. IsWholeRule(o) => PositionOf(o) = whole
    BY <2>8 DEF IsWholeRule
  <2> QED BY <2>1, <2>6, <2>8, <2>10, <2>11
<1>9. IF r \in G.virtualRhs THEN \E d \in 1 .. L : VirtualDots(r) = {d} ELSE VirtualDots(r) = {}
  BY <1>1, PositionAssumption
<1>10. PastVirtual(o) => VirtualDots(r) # {}
  BY <1>1, <1>3 DEF PastVirtual, VirtualDots
<1>11. o.dot = L => (PastVirtual(o) <=> VirtualDots(r) # {})
  BY <1>1 DEF PastVirtual, VirtualDots
<1> QED BY <1>8, <1>9, <1>10, <1>11

\* The virtual symbols of the part of a rule before an and-node's cause.
BeforeVirtual(p) == p # NoOr /\ PastVirtual(p)

\* An and-node goes on from its predecessor by one position, and with a virtual symbol
\* if its cause is a virtual rule.
FollowsOn(o, p, c) ==
    /\ p = NoOr => PositionOf(o) = 1
    /\ p # NoOr => p.rule = o.rule /\ PositionOf(p) = PositionOf(o) - 1
    /\ c.type = "or" => IsWholeRule(c)
    /\ IF c.type = "or" /\ c.rule \in G.virtualLhs
         THEN PastVirtual(o) /\ ~ BeforeVirtual(p)
         ELSE PastVirtual(o) <=> BeforeVirtual(p)

\* A nulling symbol goes on by one position.
LEMMA NullFollows ==
    ASSUME NEW o, HasPlace(o), o.nulls > 0, NEW p,
           p = OrNode(o.rule, o.dot, o.nulls - 1, o.origin, o.at)
    PROVE  FollowsOn(o, p, NullingOr)
<1>1. /\ o.rule \in Rule /\ o.dot \in Nat /\ o.nulls \in Nat /\ o.nulls - 1 \in Nat
      /\ o.origin \in Nat /\ o.at \in Nat
  BY DEF HasPlace, OrSpace
<1>2. NullingOr.type # "or"
  BY DEF NullingOr
<1>3. CASE p = NoOr
  <2>1. o.dot = 0 /\ o.nulls - 1 = 0
    BY <1>1, <1>3, OrNodeIsNot, Zenon
  <2>2. PositionOf(o) = 1
    <3>1. Before(o.rule)[0] = 0
      BY <1>1, NullsBeforeIs
    <3> QED BY <1>1, <2>1, <3>1 DEF PositionOf, Position, Before
  <2>3. ~ PastVirtual(o)
    BY <2>1 DEF PastVirtual
  <2> QED BY <1>2, <1>3, <2>2, <2>3 DEF FollowsOn, BeforeVirtual
<1>4. CASE p # NoOr
  <2>1. p.rule = o.rule /\ p.dot = o.dot /\ p.nulls = o.nulls - 1
    <3> PICK n : n = o.nulls - 1
      OBVIOUS
    <3> QED BY <1>1, <1>4, OrNodeHas, SMTT(60)
  <2>2. PositionOf(p) = PositionOf(o) - 1
    <3>1. Before(o.rule)[o.dot] \in Nat
      BY <1>1, NullsBeforeIs DEF HasPlace
    <3> QED BY <1>1, <2>1, <3>1 DEF PositionOf, Position, Before
  <2>3. PastVirtual(p) <=> PastVirtual(o)
    BY <2>1 DEF PastVirtual
  <2> QED BY <1>2, <1>4, <2>1, <2>2, <2>3 DEF FollowsOn, BeforeVirtual
<1> QED BY <1>3, <1>4

\* What an or-node is made from can be read from it.
LEMMA OrNodeReads ==
    ASSUME NEW r \in Rule, NEW d \in Nat, NEW n \in Nat, NEW f \in Nat, NEW e \in Nat
    PROVE  IF OrNode(r, d, n, f, e) = NoOr THEN d = 0 /\ n = 0
           ELSE /\ OrNode(r, d, n, f, e).rule = r /\ OrNode(r, d, n, f, e).dot = d
                /\ OrNode(r, d, n, f, e).nulls = n /\ OrNode(r, d, n, f, e).type = "or"
<1> PICK q : q = OrNode(r, d, n, f, e)
  OBVIOUS
<1>1. q = NoOr => d = 0 /\ n = 0
  BY OrNodeIsNot, Zenon
<1>2. q # NoOr => q.rule = r /\ q.dot = d /\ q.nulls = n /\ q.type = "or"
  BY OrNodeHas DEF OrSpace
<1> QED BY <1>1, <1>2

\* So can the item of an or-node.
LEMMA OrOfReads ==
    ASSUME NEW i \in Item
    PROVE  IF OrOf(i) = NoOr THEN i.ahm[2] = 0 /\ NullCount[i.ahm] = 0
           ELSE /\ OrOf(i).rule = RuleOf(i.ahm) /\ OrOf(i).dot = i.ahm[2]
                /\ OrOf(i).nulls = NullCount[i.ahm] /\ OrOf(i).type = "or"
<1>1. /\ RuleOf(i.ahm) \in Rule /\ i.ahm[2] \in Nat /\ NullCount[i.ahm] \in Nat
      /\ i.origin \in Nat /\ i.at \in Nat
  BY ItemTypes, AhmTypes, BocageAssumption
<1>2. PICK r \in Rule, d \in Nat, n \in Nat, f \in Nat, e \in Nat :
          /\ r = RuleOf(i.ahm) /\ d = i.ahm[2] /\ n = NullCount[i.ahm]
          /\ f = i.origin /\ e = i.at
  BY <1>1
<1>3. OrOf(i) = OrNode(r, d, n, f, e)
  BY <1>2 DEF OrOf
<1>4. IF OrNode(r, d, n, f, e) = NoOr THEN d = 0 /\ n = 0
      ELSE /\ OrNode(r, d, n, f, e).rule = r /\ OrNode(r, d, n, f, e).dot = d
           /\ OrNode(r, d, n, f, e).nulls = n /\ OrNode(r, d, n, f, e).type = "or"
  BY OrNodeReads
<1> QED BY <1>2, <1>3, <1>4

\* So does a symbol that is not nulling; a rule has one virtual symbol at most.
LEMMA MoveFollows ==
    ASSUME NEW o, HasPlace(o), o.nulls = 0, NEW i \in Item, i.ahm = <<o.rule, o.dot - 1>>,
           NEW p, p = OrOf(i)
    PROVE  /\ p = NoOr => PositionOf(o) = 1
           /\ p # NoOr => p.rule = o.rule /\ PositionOf(p) = PositionOf(o) - 1
           /\ IF IsVirtual(Rhs(o.rule)[o.dot]) THEN PastVirtual(o) /\ ~ BeforeVirtual(p)
                                              ELSE PastVirtual(o) <=> BeforeVirtual(p)
<1>1. PICK r \in Rule, d \in Nat, n \in Nat :
          /\ r = o.rule /\ d + 1 = o.dot /\ n = NullCount[<<r, d>>] /\ i.ahm = <<r, d>>
          /\ d \in 0 .. Len(Rhs(r)) /\ o.dot \in 1 .. Len(Rhs(r)) /\ Len(Rhs(r)) \in Nat
  <2>1. o.rule \in Rule /\ Len(Rhs(o.rule)) \in Nat /\ o.dot \in 1 .. Len(Rhs(o.rule))
    BY RuleTypes DEF HasPlace
  <2>2. o.dot - 1 \in Nat /\ o.dot - 1 \in 0 .. Len(Rhs(o.rule)) /\ o.dot - 1 + 1 = o.dot
    BY <2>1
  <2>3. NullCount[<<o.rule, o.dot - 1>>] \in Nat
    BY <2>1, <2>2, NullsBeforeIs
  <2> QED BY <2>1, <2>2, <2>3
<1>2. PICK before \in Nat : before = Before(r)[d] /\ Before(r)[o.dot] = before + n
  <2>1. Before(r)[d] \in Nat
    BY <1>1, NullsBeforeIs
  <2>2. o.dot - 1 = d
    BY <1>1
  <2>3. Before(r)[o.dot] = Before(r)[d] + n
    BY <1>1, <2>2, NullsBeforeIs
  <2> QED BY <2>1, <2>3
<1>3. PositionOf(o) = o.dot + before + n
  BY <1>1, <1>2 DEF PositionOf, Position, Before
<1>7. IF p = NoOr THEN d = 0 /\ n = 0 ELSE p.rule = r /\ p.dot = d /\ p.nulls = n
  <2>1. RuleOf(i.ahm) = r /\ i.ahm[2] = d /\ NullCount[i.ahm] = n
    BY <1>1 DEF RuleOf
  <2> QED BY <2>1, OrOfReads
<1>8. p = NoOr => PositionOf(o) = 1
  <2>1. ASSUME p = NoOr PROVE PositionOf(o) = 1
    <3>1. d = 0 /\ n = 0
      BY <1>7, <2>1
    <3>2. before = 0
      BY <1>2, <3>1, NullsBeforeIs
    <3> QED BY <1>1, <1>3, <3>1, <3>2
  <2> QED BY <2>1
<1>9. p # NoOr => p.rule = o.rule /\ PositionOf(p) = PositionOf(o) - 1
  <2>1. ASSUME p # NoOr PROVE PositionOf(p) = PositionOf(o) - 1
    <3>1. PositionOf(p) = d + n + before
      BY <1>2, <1>7, <2>1 DEF PositionOf, Position, Before
    <3>2. PositionOf(o) = d + 1 + before + n
      BY <1>1, <1>3
    <3> QED BY <3>1, <3>2
  <2> QED BY <1>1, <1>7, <2>1
<1>10. BeforeVirtual(p) <=> \E k \in 1 .. d : IsVirtual(Rhs(r)[k])
  <2>1. CASE p = NoOr
    BY <1>7, <2>1 DEF BeforeVirtual
  <2>2. CASE p # NoOr
    BY <1>7, <2>2 DEF BeforeVirtual, PastVirtual
  <2> QED BY <2>1, <2>2
<1>11. PastVirtual(o) <=> BeforeVirtual(p) \/ IsVirtual(Rhs(r)[o.dot])
  <2>1. \A k : k \in 1 .. o.dot <=> k \in 1 .. d \/ k = o.dot
    BY <1>1
  <2> QED BY <1>1, <1>10, <2>1 DEF PastVirtual
<1>12. ASSUME IsVirtual(Rhs(r)[o.dot]), NEW k \in 1 .. d, IsVirtual(Rhs(r)[k]) PROVE FALSE
  <2>1. k \in VirtualDots(r) /\ o.dot \in VirtualDots(r) /\ k # o.dot
    BY <1>1, <1>12 DEF VirtualDots
  <2>2. VirtualDots(r) = {} \/ \E m \in 1 .. Len(Rhs(r)) : VirtualDots(r) = {m}
    BY <1>1, PositionAssumption
  <2> QED BY <2>1, <2>2
<1> QED BY <1>1, <1>8, <1>9, <1>10, <1>11, <1>12

\* The or-node of a completion is a whole rule.
LEMMA CompletionIsWhole ==
    ASSUME NEW c \in Item, IsCompletion(c.ahm)
    PROVE  /\ OrOf(c).type = "or" /\ IsWholeRule(OrOf(c))
           /\ OrOf(c).rule \in G.virtualLhs <=> IsVirtual(LhsOf(c.ahm))
<1>1. /\ RuleOf(c.ahm) \in Rule /\ c.ahm = <<RuleOf(c.ahm), Len(Rhs(RuleOf(c.ahm)))>>
      /\ c.ahm[2] = Len(Rhs(RuleOf(c.ahm))) /\ c.ahm[2] # 0
  BY ItemTypes, AhmTypes, RuleTypes DEF IsCompletion
<1>2. /\ OrOf(c).rule = RuleOf(c.ahm) /\ OrOf(c).dot = c.ahm[2] /\ OrOf(c).nulls = NullCount[c.ahm]
      /\ OrOf(c).type = "or"
  BY <1>1, OrOfReads
<1>3. Len(G.rhsXsys[RuleOf(c.ahm)])
        = Position(RuleOf(c.ahm), Len(Rhs(RuleOf(c.ahm))),
                   NullCount[<<RuleOf(c.ahm), Len(Rhs(RuleOf(c.ahm)))>>])
  BY <1>1, PositionAssumption
<1>4. IsWholeRule(OrOf(c))
  BY <1>1, <1>2, <1>3 DEF IsWholeRule, PositionOf
<1>5. RuleOf(c.ahm) \in G.virtualLhs <=> IsVirtual(Lhs(RuleOf(c.ahm)))
  BY <1>1, PositionAssumption
<1> QED BY <1>2, <1>4, <1>5 DEF LhsOf

\* A division of the or-node of an item goes on by its last symbol.
LEMMA DivisionFollows ==
    ASSUME ChartInv, TokenLinksInv, NEW top, NEW o, HasPlace(o), o.nulls = 0,
           NEW a \in Divisions(ChartTo(top), o.rule, o.dot, o.origin, o.at)
    PROVE  FollowsOn(o, a.pred, a.cause)
<1>0. PICK C : C = ChartTo(top)
  OBVIOUS
<1>1. C \in SUBSET Item
  BY <1>0, ChartToIs
<1> DEFINE sym == Rhs(o.rule)[o.dot]
           Precedes(i) == i \in C /\ i.ahm = <<o.rule, o.dot - 1>>
<1>2. \/ \E t \in ScannedTokens : \E i \in C :
            t.sym = sym /\ Precedes(i) /\ a.pred = OrOf(i) /\ a.cause = TokenOr(t)
      \/ \E c \in C : \E i \in C : /\ IsCompletion(c.ahm) /\ LhsOf(c.ahm) = sym
                                   /\ Precedes(i) /\ a.pred = OrOf(i) /\ a.cause = OrOf(c)
  BY <1>0, AndIs DEF Divisions
<1>3. ASSUME NEW i, Precedes(i)
      PROVE  /\ OrOf(i) = NoOr => PositionOf(o) = 1
             /\ OrOf(i) # NoOr => OrOf(i).rule = o.rule /\ PositionOf(OrOf(i)) = PositionOf(o) - 1
             /\ IF IsVirtual(sym) THEN PastVirtual(o) /\ ~ BeforeVirtual(OrOf(i))
                                  ELSE PastVirtual(o) <=> BeforeVirtual(OrOf(i))
  BY <1>1, <1>3, MoveFollows
<1>4. ASSUME NEW t \in ScannedTokens, NEW i \in C, t.sym = sym, Precedes(i), a.pred = OrOf(i),
             a.cause = TokenOr(t)
      PROVE  FollowsOn(o, a.pred, a.cause)
  <2>1. IsFoundAgain(t.sym)
    BY DEF TokenLinksInv, ScannedTokens
  <2>2. ~ IsVirtual(sym)
    BY <1>4, <2>1 DEF IsFoundAgain, IsVirtual
  <2>3. TokenOr(t).type # "or"
    BY DEF TokenOr
  <2> QED BY <1>3, <1>4, <2>2, <2>3 DEF FollowsOn
<1>5. ASSUME NEW c \in C, NEW i \in C, IsCompletion(c.ahm), LhsOf(c.ahm) = sym, Precedes(i),
             a.pred = OrOf(i), a.cause = OrOf(c)
      PROVE  FollowsOn(o, a.pred, a.cause)
  <2>1. /\ OrOf(c).type = "or" /\ IsWholeRule(OrOf(c))
        /\ OrOf(c).rule \in G.virtualLhs <=> IsVirtual(sym)
    BY <1>1, <1>5, CompletionIsWhole
  <2> QED BY <1>3, <1>5, <2>1 DEF FollowsOn
<1> HIDE DEF Precedes, sym
<1> QED BY <1>2, <1>4, <1>5

\* The or-nodes that marpa_b_new makes have their places.
LEMMA OrsHavePlaces ==
    ASSUME ChartInv, NEW I \in SUBSET items, NEW o \in OrsOf(I)
    PROVE  HasPlace(o)
<1>1. SoundOrs(OrsOf(I))
  BY OrsAreSound
<1>2. o \in OrSpace /\ o # NoOr
  BY <1>1 DEF SoundOrs
<1>3. CASE o \in ItemOrs(I)
  <2>1. PICK i \in I : \E n \in 0 .. NullCount[i.ahm] :
            o = OrNode(RuleOf(i.ahm), i.ahm[2], n, i.origin, i.at)
    BY <1>3 DEF ItemOrs
  <2>2. PICK n \in 0 .. NullCount[i.ahm] : o = OrNode(RuleOf(i.ahm), i.ahm[2], n, i.origin, i.at)
    BY <2>1
  <2>3. /\ n \in Nat /\ i \in Item /\ RuleOf(i.ahm) \in Rule /\ i.ahm[2] \in Nat
        /\ i.ahm[2] \in 0 .. Len(Rhs(RuleOf(i.ahm))) /\ i.ahm = <<RuleOf(i.ahm), i.ahm[2]>>
        /\ i.origin \in Nat /\ i.at \in Nat
    <3>1. n \in Nat /\ i \in Item
      BY ItemIs DEF ChartInv, SpanInv, InputInv, TypeInv, TypeOK
    <3> QED BY <3>1, ItemTypes, AhmTypes, RuleTypes
  <2>4. o.rule = RuleOf(i.ahm) /\ o.dot = i.ahm[2] /\ o.nulls = n /\ (i.ahm[2] # 0 \/ n # 0)
    <3>1. o = [type |-> "or", rule |-> RuleOf(i.ahm), dot |-> i.ahm[2], nulls |-> n,
               origin |-> i.origin, at |-> i.at] /\ (i.ahm[2] # 0 \/ n # 0)
      BY <1>2, <2>2 DEF OrNode
    <3> QED BY <3>1
  <2> QED BY <1>2, <2>3, <2>4 DEF HasPlace
<1>4. CASE o \in PathOrs(I)
  <2>1. PICK k \in leoLinks : \E l \in Above[k.lim] : o = ProperOrOf(PathItem(l, k.effect.at))
    BY <1>4 DEF PathOrs
  <2>2. PICK l \in Above[k.lim] : o = ProperOrOf(PathItem(l, k.effect.at))
    BY <2>1
  <2>3. PICK x : x = PathItem(l, k.effect.at)
    OBVIOUS
  <2>4. x \in Item /\ IsCompletion(x.ahm)
    BY <2>3, PathItemIs
  <2>5. /\ x.ahm[2] > 0 /\ x.ahm[2] \in 0 .. Len(Rhs(RuleOf(x.ahm))) /\ RuleOf(x.ahm) \in Rule
        /\ x.ahm = <<RuleOf(x.ahm), x.ahm[2]>> /\ x.ahm[2] \in Nat /\ NullCount[x.ahm] \in Nat
    BY <2>4, ItemTypes, AhmTypes, RuleTypes, BocageAssumption DEF IsCompletion
  <2>6. o.rule = RuleOf(x.ahm) /\ o.dot = x.ahm[2] /\ o.nulls = 0
    BY <2>2, <2>3, <2>4, <2>5, ProperOrNames
  <2> QED BY <1>2, <2>5, <2>6 DEF HasPlace
<1> QED BY <1>3, <1>4 DEF OrsOf

\* An or-node of a bocage has its place, and an and-node goes on from its predecessor.
BocageFollows(b) ==
    /\ \A o \in b.ors : HasPlace(o)
    /\ \A a \in b.ands : FollowsOn(a.parent, a.pred, a.cause)

\* So it is with the bocage that marpa_b_new makes.
LEMMA ForestFollows ==
    ASSUME DerivationInv, TokenLinksInv, NoNullsAfterRecursion, pc = "idle", phase # "before",
           NEW start \in items, RuleOf(start.ahm) = G.startRule, ~ IsPredicted(start),
           NEW b, b = Forest(start)
    PROVE  BocageFollows(b)
<1>0. ChartInv
  BY DEF DerivationInv
<1>1. PICK I : I = WithOr(Reached(start))
  OBVIOUS
<1>2. FromStart(I, start) /\ I \in SUBSET items
  BY <1>0, <1>1, HeldIs, HeldFromStart DEF FromStart, IsHeld
<1>3. BocageIsSound(b)
  <2>1. \A a \in b.ands : a.cause # NoOr
    BY <1>0, ForestHasCauses
  <2> QED BY <1>0, <2>1, ForestOfChart
<1>4. Made(b, I, start)
  BY <1>1, <1>2, <1>3 DEF Made, Forest, OrsOf
<1>5. \A o \in b.ors : HasPlace(o)
  BY <1>0, <1>2, <1>4, OrsHavePlaces DEF Made
<1>6. ASSUME NEW a \in b.ands PROVE FollowsOn(a.parent, a.pred, a.cause)
  <2>1. PICK o \in b.ors : o = a.parent /\ a \in AndsOf(b, o)
    BY <1>3 DEF BocageIsSound, AndsOf
  <2>2. a \in ReferenceAnds(ChartTo(start.at), o)
    BY <1>4, <2>1, AndsAreDivisions
  <2>3. CASE o.nulls > 0
    <3>1. a = And(o, OrNode(o.rule, o.dot, o.nulls - 1, o.origin, o.at), NullingOr)
      BY <2>2, <2>3 DEF ReferenceAnds
    <3>2. /\ a.pred = OrNode(o.rule, o.dot, o.nulls - 1, o.origin, o.at)
          /\ a.cause = NullingOr
      BY <3>1, AndIs
    <3> QED BY <1>5, <2>1, <2>3, <3>2, NullFollows
  <2>4. CASE ~ (o.nulls > 0)
    <3>1. HasPlace(o) /\ o.nulls = 0
      BY <1>5, <2>4 DEF HasPlace, OrSpace
    <3>2. a \in Divisions(ChartTo(start.at), o.rule, o.dot, o.origin, o.at)
      BY <2>2, <2>4 DEF ReferenceAnds
    <3> QED BY <1>0, <2>1, <3>1, <3>2, DivisionFollows
  <2> QED BY <2>3, <2>4
<1> QED BY <1>5, <1>6 DEF BocageFollows

\* The bocage of a sound chart is one in which and-nodes go on from their predecessors.
FollowsInv == DerivationInv /\ (bocage # NoBocage => BocageFollows(bocage))

\* Each step keeps it so.
LEMMA FollowsStep ==
    ASSUME NoNullsAfterRecursion, TokenLinksInv, FollowsInv, [AllNext]_allVars
    PROVE  FollowsInv'
<1>1. CASE UNCHANGED allVars
  <2>1. UNCHANGED vars /\ bocage' = bocage
    BY <1>1 DEF allVars, bocageVars
  <2>2. DerivationInv'
    BY <2>1, DerivationStep DEF FollowsInv
  <2> QED BY <2>1, <2>2 DEF FollowsInv
<1>2. CASE ForestUnchanged
  <2>1. DerivationInv'
    BY <1>2, DerivationUnchanged DEF FollowsInv, ForestUnchanged
  <2>2. bocage' = bocage
    BY <1>2 DEF ForestUnchanged
  <2> QED BY <2>1, <2>2 DEF FollowsInv
<1>3. CASE bocage = NoBocage /\ Next /\ UNCHANGED bocage
  <2>1. DerivationInv'
    BY <1>3, DerivationStep DEF FollowsInv
  <2> QED BY <1>3, <2>1 DEF FollowsInv
<1>4. ASSUME NEW ordinal \in Ordinals, BocageNew(ordinal) PROVE FollowsInv'
  <2> PICK b : b = bocage'
    OBVIOUS
  <2>1. DerivationInv'
    <3>1. RecognizerUnchanged
      BY <1>4 DEF BocageNew, RecognizerUnchanged
    <3> QED BY <3>1, DerivationUnchanged DEF FollowsInv
  <2>2. pc = "idle" /\ DerivationInv
    BY <1>4 DEF BocageNew, FollowsInv
  <2>3. \/ b = NoBocage
        \/ b = NullingBocage
        \/ /\ BocageError(ordinal) = "NONE"
           /\ \E e \in SetOf(ordinal) \ {0} : \E start \in CompletedStarts(e) : b = Forest(start)
    BY <1>4 DEF BocageNew
  <2>4. b # NoBocage => BocageFollows(b)
    <3>1. CASE b = NullingBocage
      BY <3>1 DEF NullingBocage, BocageFollows
    <3>2. ASSUME BocageError(ordinal) = "NONE", NEW e, NEW start \in CompletedStarts(e), b = Forest(start)
          PROVE  BocageFollows(b)
      <4>1. phase # "before"
        BY <3>2 DEF BocageError
      <4>2. start \in items /\ RuleOf(start.ahm) = G.startRule /\ ~ IsPredicted(start)
        BY DEF CompletedStarts
      <4> QED BY <2>2, <3>2, <4>1, <4>2, ForestFollows
    <3> QED BY <2>3, <3>1, <3>2
  <2> QED BY <2>1, <2>4 DEF FollowsInv
<1> QED BY <1>1, <1>2, <1>3, <1>4, ForestSteps DEF BocageNext

-----------------------------------------------------------------------------
(***************************************************************************)
(* Where the kids of a nook are.                                           *)
(***************************************************************************)
\* What is below a nook ends in one place.
EndOf(i) == CHOOSE e : IsEnd(nooks, i, e)

\* There is such a place, and no other.
LEMMA EndOfIs ==
    ASSUME Shaped(nooks), NEW i \in DOMAIN nooks
    PROVE  IsEnd(nooks, i, EndOf(i)) /\ \A e : IsEnd(nooks, i, e) => e = EndOf(i)
<1>1. NooksAre(nooks) /\ nooks \in Seq(NookSet) /\ Len(nooks) \in Nat /\ DOMAIN nooks = 1 .. Len(nooks)
  BY DEF Shaped, NooksAre
<1>2. IsEnd(nooks, i, EndOf(i))
  BY <1>1, EndExists DEF EndOf
<1>3. \A k \in DOMAIN nooks : nooks[k].parent \in Nat
  <2>1. \A nook \in NookSet : nook.parent \in Nat
    BY DEF NookSet
  <2> QED BY <1>1, <2>1
<1>4. ASSUME NEW d, NEW e, IsEnd(nooks, i, d), IsEnd(nooks, i, e), d < e
      PROVE  FALSE
  <2>1. d \in (i + 1) .. (e - 1) /\ d <= Len(nooks) /\ d \in DOMAIN nooks
    BY <1>1, <1>4 DEF IsEnd
  <2>2. nooks[d].parent < i /\ nooks[d].parent >= i
    BY <1>4, <2>1 DEF IsEnd
  <2> QED BY <1>1, <1>3, <2>1, <2>2
<1>5. \A e : IsEnd(nooks, i, e) => e \in Nat
  BY <1>1 DEF IsEnd
<1>6. ASSUME NEW e, IsEnd(nooks, i, e) PROVE e = EndOf(i)
  <2>1. ~ (e < EndOf(i)) /\ ~ (EndOf(i) < e)
    BY <1>2, <1>4, <1>6
  <2>2. e \in Nat /\ EndOf(i) \in Nat
    BY <1>2, <1>5, <1>6
  <2> QED BY <2>1, <2>2
<1> QED BY <1>2, <1>6

\* A whole tree of a sound forest, whose and-nodes go on from their predecessors.
TreeFollows ==
    /\ NookInv /\ Shaped(nooks) /\ InOrder(nooks) /\ Finished(nooks)
    /\ BocageIsSound(bocage) /\ OrderedAs(bocage, order) /\ BocageFollows(bocage)

PredOf(i) == AndOf(nooks[i]).pred

\* The nook of the predecessor of the nook i is at m, that of its cause before it.
KidsFit(i, m) ==
    /\ m \in (i + 1) .. (Len(nooks) + 1) /\ EndOf(i) \in (i + 1) .. (Len(nooks) + 1)
    /\ PredOf(i) = NoOr => m = EndOf(i) /\ NookOf(i, FALSE) = {}
    /\ PredOf(i) # NoOr => /\ m \in DOMAIN nooks /\ nooks[m].or = PredOf(i)
                           /\ NookOf(i, FALSE) = {m} /\ EndOf(m) = EndOf(i)
    /\ CauseOf(i).type # "or" => m = i + 1 /\ NookOf(i, TRUE) = {}
    /\ CauseOf(i).type = "or" => /\ i + 1 \in DOMAIN nooks /\ nooks[i + 1].or = CauseOf(i)
                                 /\ NookOf(i, TRUE) = {i + 1} /\ EndOf(i + 1) = m

\* A whole tree has the nooks of the and-nodes chosen in it.
LEMMA KidsAt ==
    ASSUME TreeFollows, NEW i \in DOMAIN nooks
    PROVE  \E m : KidsFit(i, m)
<1> PICK a : a = AndOf(nooks[i])
  OBVIOUS
<1>1. /\ NookInv /\ Shaped(nooks) /\ InOrder(nooks) /\ Finished(nooks)
      /\ BocageIsSound(bocage) /\ OrderedAs(bocage, order)
      /\ nooks \in Seq(NookSet) /\ Len(nooks) \in Nat /\ DOMAIN nooks = 1 .. Len(nooks)
  BY DEF TreeFollows, Shaped, NooksAre
<1>2. a \in bocage.ands /\ a = Chosen(nooks, i) /\ CauseOf(i) = a.cause /\ PredOf(i) = a.pred
  BY <1>1, NookAnds DEF AndOf, Chosen, CauseOf, PredOf, Shaped
<1>3. a.cause.type = "or" <=> a.cause \in bocage.ors
  <2>1. a.cause \in Causes(bocage.ors)
    BY <1>1, <1>2 DEF BocageIsSound, DividesAs
  <2>2. \A o \in bocage.ors : o.type = "or"
    BY <1>1 DEF BocageIsSound, SoundOrs, OrSpace
  <2> QED BY <2>1, <2>2 DEF Causes, NullingOr, TokenOr
<1>4. a.pred # NoOr <=> a.pred \in bocage.ors
  BY <1>1, <1>2 DEF BocageIsSound, SoundOrs, DividesAs
<1>5. \A j : \A side : IsKid(nooks, j, i, side) =>
          /\ nooks[j].or = SideOf(a, side) /\ SideOf(a, side) \in bocage.ors /\ side \in Sides
  <2>1. \A nook \in NookSet : nook.or \in bocage.ors
    BY DEF NookSet
  <2> QED BY <1>1, <1>2, <2>1 DEF IsKid, KidSide, Sides, Shaped, KidsAre
<1>6. \A side \in Sides : SideOf(a, side) \in bocage.ors => \E j : IsKid(nooks, j, i, side)
  BY <1>1, <1>2 DEF Finished, IsDue, Shaped, SidesAre
<1>7. \A side : \A j : \A k : IsKid(nooks, j, i, side) /\ IsKid(nooks, k, i, side) => j = k
  BY <1>1 DEF Shaped, KidsDiffer, IsKid
<1>8. /\ \A j : j \in NookOf(i, TRUE) <=> IsKid(nooks, j, i, "cause")
      /\ \A j : j \in NookOf(i, FALSE) <=> IsKid(nooks, j, i, "pred")
      /\ \A isCause : \A j \in NookOf(i, isCause) : j \in DOMAIN nooks /\ j > i
  BY <1>1, NookOfIs
<1>9. IsEnd(nooks, i, EndOf(i)) /\ \A j \in DOMAIN nooks : \A e : IsEnd(nooks, j, e) => e = EndOf(j)
  BY <1>1, EndOfIs
<1>10. EndOf(i) \in (i + 1) .. (Len(nooks) + 1)
  BY <1>9 DEF IsEnd
<1>11. SideOf(a, "cause") = a.cause /\ SideOf(a, "pred") = a.pred /\ "cause" \in Sides /\ "pred" \in Sides
       /\ Sides = {"cause", "pred"} /\ "cause" # "pred"
  BY DEF SideOf, Sides
<1>12. CASE a.cause \in bocage.ors /\ a.pred \in bocage.ors
  <2>1. PICK c, p : IsKid(nooks, c, i, "cause") /\ IsKid(nooks, p, i, "pred")
    BY <1>6, <1>11, <1>12
  <2>2. c = i + 1 /\ IsEnd(nooks, c, p) /\ IsEnd(nooks, p, EndOf(i))
    BY <1>1, <1>9, <2>1, KidsInOrder
  <2>3. NookOf(i, TRUE) = {c} /\ NookOf(i, FALSE) = {p}
    BY <1>7, <1>8, <2>1
  <2>4. c \in DOMAIN nooks /\ p \in DOMAIN nooks /\ p > i
    BY <1>8, <2>3
  <2>5. EndOf(c) = p /\ EndOf(p) = EndOf(i)
    BY <1>9, <2>2, <2>4
  <2>6. nooks[c].or = a.cause /\ nooks[p].or = a.pred
    BY <1>5, <1>11, <2>1
  <2>7. p \in (i + 1) .. (Len(nooks) + 1)
    BY <1>1, <2>4
  <2>8. KidsFit(i, p)
    BY <1>2, <1>3, <1>4, <1>10, <1>12, <2>2, <2>3, <2>4, <2>5, <2>6, <2>7 DEF KidsFit
  <2> QED BY <2>8
<1>13. CASE a.cause \in bocage.ors /\ a.pred \notin bocage.ors
  <2>1. PICK c : IsKid(nooks, c, i, "cause")
    BY <1>6, <1>11, <1>13
  <2>0. \A k : ~ IsKid(nooks, k, i, "pred")
    BY <1>5, <1>11, <1>13
  <2>2. c = i + 1 /\ IsEnd(nooks, c, EndOf(i))
    BY <1>1, <1>9, <1>11, <2>0, <2>1, KidsInOrder
  <2>3. NookOf(i, TRUE) = {c} /\ NookOf(i, FALSE) = {}
    BY <1>7, <1>8, <2>0, <2>1
  <2>4. c \in DOMAIN nooks
    BY <1>8, <2>3
  <2>5. EndOf(c) = EndOf(i)
    BY <1>9, <2>2, <2>4
  <2>6. nooks[c].or = a.cause
    BY <1>5, <1>11, <2>1
  <2>8. KidsFit(i, EndOf(i))
    BY <1>2, <1>3, <1>4, <1>10, <1>13, <2>2, <2>3, <2>4, <2>5, <2>6 DEF KidsFit
  <2> QED BY <2>8
<1>14. CASE a.cause \notin bocage.ors /\ a.pred \in bocage.ors
  <2>1. PICK p : IsKid(nooks, p, i, "pred")
    BY <1>6, <1>11, <1>14
  <2>0. \A k : ~ IsKid(nooks, k, i, "cause")
    BY <1>5, <1>11, <1>14
  <2>2. p = i + 1 /\ IsEnd(nooks, p, EndOf(i))
    BY <1>1, <1>9, <1>11, <2>0, <2>1, KidsInOrder
  <2>3. NookOf(i, TRUE) = {} /\ NookOf(i, FALSE) = {p}
    BY <1>7, <1>8, <2>0, <2>1
  <2>4. p \in DOMAIN nooks
    BY <1>8, <2>3
  <2>5. EndOf(p) = EndOf(i)
    BY <1>9, <2>2, <2>4
  <2>6. nooks[p].or = a.pred
    BY <1>5, <1>11, <2>1
  <2>7. p \in (i + 1) .. (Len(nooks) + 1)
    BY <1>1, <2>2, <2>4
  <2>8. KidsFit(i, p)
    BY <1>2, <1>3, <1>4, <1>10, <1>14, <2>2, <2>3, <2>4, <2>5, <2>6, <2>7 DEF KidsFit
  <2> QED BY <2>8
<1>15. CASE a.cause \notin bocage.ors /\ a.pred \notin bocage.ors
  <2>1. \A j : \A side : ~ IsKid(nooks, j, i, side)
    BY <1>5, <1>11, <1>15
  <2>2. EndOf(i) = i + 1
    BY <1>1, <1>9, <2>1, KidsInOrder
  <2>3. NookOf(i, TRUE) = {} /\ NookOf(i, FALSE) = {}
    BY <1>8, <2>1
  <2>8. KidsFit(i, i + 1)
    BY <1>2, <1>3, <1>4, <1>10, <1>15, <2>2, <2>3 DEF KidsFit
  <2> QED BY <2>8
<1> QED BY <1>12, <1>13, <1>14, <1>15

-----------------------------------------------------------------------------
(***************************************************************************)
(* The children of the rules.                                              *)
(***************************************************************************)
\* What holds of a number if it holds of the greater ones holds of all of them.
LEMMA Downward ==
    ASSUME NEW L \in Nat, NEW S,
           \A i \in 1 .. L : (\A j \in 1 .. L : j > i => j \in S) => i \in S
    PROVE  \A i \in 1 .. L : i \in S
<1> DEFINE T == {n \in Nat : \A i \in 1 .. L : i > L - n => i \in S}
<1>1. 0 \in T
  OBVIOUS
<1>2. ASSUME NEW n \in Nat, n \in T PROVE n + 1 \in T
  <2> SUFFICES ASSUME NEW i \in 1 .. L, i > L - (n + 1) PROVE i \in S
    OBVIOUS
  <2>1. \A j \in 1 .. L : j > i => j > L - n
    OBVIOUS
  <2>2. \A j \in 1 .. L : j > i => j \in S
    BY <1>2, <2>1
  <2> QED BY <2>2
<1>3. L \in T
  <2> HIDE DEF T
  <2> QED BY <1>1, <1>2, SetInduction
<1> QED BY <1>3

\* The steps before the last child of a nook, and those of its last child.
Befores(A, i) == FlattenSeq(SetToSeq(UNION {{A[j]} : j \in NookOf(i, FALSE)}))
Lasts(A, i) ==
    FlattenSeq(SetToSeq(
        IF NookOf(i, TRUE) = {} THEN {<<TokenStep(i)>>}
        ELSE {IF IsRealRule(nooks[j].or) THEN <<RuleStep(j)>> ELSE A[j] : j \in NookOf(i, TRUE)}))
ArgumentsOf(A) == A = [i \in DOMAIN nooks |-> Befores(A, i) \o Lasts(A, i)]

\* There is such a function of the nooks, by recursion from the last one.
LEMMA ArgumentsExist ==
    ASSUME NookInv, Shaped(nooks)
    PROVE  ArgumentsOf(Arguments)
<1> PICK L : L = Len(nooks)
  OBVIOUS
<1>1. L \in Nat /\ DOMAIN nooks = 1 .. L
  BY DEF Shaped, NooksAre
<1> DEFINE Body(g, i) == Befores(g, i) \o Lasts(g, i)
           Of(g, n) == DOMAIN g = (L - n + 1) .. L /\ \A i \in (L - n + 1) .. L : g[i] = Body(g, i)
           T == {n \in Nat : n <= L => \E g : Of(g, n)}
<1>2. ASSUME NEW g, NEW e, NEW i \in DOMAIN nooks,
             \A j \in DOMAIN nooks : j > i => e[j] = g[j]
      PROVE  Body(e, i) = Body(g, i)
  <2>1. \A isCause : \A j \in NookOf(i, isCause) : e[j] = g[j]
    BY <1>2, NookOfIs
  <2>2. UNION {{e[j]} : j \in NookOf(i, FALSE)} = UNION {{g[j]} : j \in NookOf(i, FALSE)}
    BY <2>1
  <2>3. {IF IsRealRule(nooks[j].or) THEN <<RuleStep(j)>> ELSE e[j] : j \in NookOf(i, TRUE)}
          = {IF IsRealRule(nooks[j].or) THEN <<RuleStep(j)>> ELSE g[j] : j \in NookOf(i, TRUE)}
    BY <2>1
  <2>4. Befores(e, i) = Befores(g, i)
    BY <2>2, Zenon DEF Befores
  <2>5. Lasts(e, i) = Lasts(g, i)
    BY <2>3, Zenon DEF Lasts
  <2> QED BY <2>4, <2>5
<1>3. 0 \in T
  <2>1. (L - 0 + 1) .. L = {}
    BY <1>1
  <2>2. PICK g : g = [i \in (L - 0 + 1) .. L |-> 0]
    OBVIOUS
  <2>3. Of(g, 0)
    <3> HIDE DEF Body
    <3> QED BY <2>1, <2>2
  <2> HIDE DEF Of
  <2> QED BY <2>3
<1>4. ASSUME NEW n \in Nat, n \in T PROVE n + 1 \in T
  <2>0. n + 1 \in Nat /\ (n + 1 <= L => n <= L)
    BY <1>1
  <2> SUFFICES ASSUME n + 1 <= L PROVE \E g : Of(g, n + 1)
    <3> HIDE DEF Of
    <3> QED BY <2>0
  <2>1. PICK g : Of(g, n)
    <3> HIDE DEF Of
    <3> QED BY <1>4, <2>0
  <2>2. PICK m : m = L - n /\ m \in DOMAIN nooks /\ (L - (n + 1) + 1) .. L = m .. L
                 /\ (L - n + 1) .. L = (m + 1) .. L /\ m \in Nat
    BY <1>1
  <2>3. PICK e : e = [i \in m .. L |-> IF i = m THEN Body(g, m) ELSE g[i]]
    OBVIOUS
  <2>4. ASSUME NEW i \in m .. L
        PROVE  e[i] = Body(e, i)
    <3>1. i \in DOMAIN nooks /\ i >= m
      BY <1>1, <2>2
    <3>2. \A j \in DOMAIN nooks : j > i => e[j] = g[j]
      <4> HIDE DEF Body
      <4> QED BY <1>1, <2>2, <2>3, <3>1
    <3>3. Body(e, i) = Body(g, i)
      BY <1>2, <3>1, <3>2
    <3>4. e[i] = Body(g, i)
      <4>1. CASE i = m
        <5> HIDE DEF Body
        <5> QED BY <2>3, <4>1
      <4>2. CASE i # m
        <5>1. i \in (m + 1) .. L /\ e[i] = g[i]
          <6> HIDE DEF Body
          <6> QED BY <1>1, <2>2, <2>3, <4>2
        <5> HIDE DEF Body
        <5> QED BY <2>1, <2>2, <5>1
      <4> QED BY <4>1, <4>2
    <3> QED BY <3>3, <3>4
  <2>5. DOMAIN e = m .. L
    BY <2>3
  <2>6. Of(e, n + 1)
    <3> HIDE DEF Body
    <3> QED BY <2>2, <2>4, <2>5
  <2> HIDE DEF Of
  <2> QED BY <2>6
<1>5. L \in T
  <2>1. Nat \subseteq T
    <3> HIDE DEF T
    <3> QED BY <1>3, <1>4, SetInduction
  <2> HIDE DEF T
  <2> QED BY <1>1, <2>1
<1>6. PICK g : Of(g, L)
  <2> HIDE DEF Of
  <2> QED BY <1>1, <1>5
<1>7. (L - L + 1) .. L = DOMAIN nooks
  BY <1>1
<1>8. PICK e : e = [i \in DOMAIN nooks |-> g[i]]
  OBVIOUS
<1>9. ASSUME NEW i \in DOMAIN nooks
      PROVE  e[i] = Body(e, i)
  <2>1. Body(e, i) = Body(g, i)
    BY <1>2, <1>8
  <2>2. e[i] = g[i] /\ g[i] = Body(g, i)
    <3> HIDE DEF Body
    <3> QED BY <1>6, <1>7, <1>8
  <2> QED BY <2>1, <2>2
<1>10. e = [i \in DOMAIN nooks |-> Body(e, i)]
  <2> HIDE DEF Body
  <2> QED BY <1>8, <1>9
<1>11. ArgumentsOf(e)
  BY <1>10, Zenon DEF ArgumentsOf
<1> DEFINE f == CHOOSE h : ArgumentsOf(h)
<1>12. Arguments = f
  BY Zenon DEF Arguments, ArgumentsOf, Befores, Lasts
<1>13. ArgumentsOf(f)
  BY <1>11
<1> HIDE DEF f
<1> QED BY <1>12, <1>13

\* The steps of the last child of a nook.
LastOf(i) ==
    IF CauseOf(i).type # "or" THEN <<TokenStep(i)>>
    ELSE IF IsRealRule(nooks[i + 1].or) THEN <<RuleStep(i + 1)>>
    ELSE Arguments[i + 1]

\* The children of a nook are those of its predecessor and the last one.
LEMMA ArgumentsAt ==
    ASSUME TreeFollows, NEW i \in DOMAIN nooks, NEW m, KidsFit(i, m)
    PROVE  /\ PredOf(i) = NoOr => Arguments[i] = <<>> \o LastOf(i)
           /\ PredOf(i) # NoOr => Arguments[i] = Arguments[m] \o LastOf(i)
<1> PICK A : A = Arguments
  OBVIOUS
<1>1. A[i] = Befores(A, i) \o Lasts(A, i)
  BY ArgumentsExist, Zenon DEF ArgumentsOf, TreeFollows
<1>2. PredOf(i) = NoOr => Befores(A, i) = <<>>
  <2> SUFFICES ASSUME PredOf(i) = NoOr PROVE Befores(A, i) = <<>>
    OBVIOUS
  <2>1. UNION {{A[j]} : j \in NookOf(i, FALSE)} = {}
    BY DEF KidsFit
  <2> QED BY <2>1, FlattenOne DEF Befores
<1>3. PredOf(i) # NoOr => Befores(A, i) = A[m]
  <2> SUFFICES ASSUME PredOf(i) # NoOr PROVE Befores(A, i) = A[m]
    OBVIOUS
  <2>1. UNION {{A[j]} : j \in NookOf(i, FALSE)} = {A[m]}
    BY DEF KidsFit
  <2> QED BY <2>1, FlattenOne, Zenon DEF Befores
<1>4. Lasts(A, i) = LastOf(i)
  <2>1. CASE CauseOf(i).type # "or"
    <3>1. NookOf(i, TRUE) = {}
      BY <2>1 DEF KidsFit
    <3>2. Lasts(A, i) = FlattenSeq(SetToSeq({<<TokenStep(i)>>}))
      BY <3>1, Zenon DEF Lasts
    <3> QED BY <2>1, <3>2, FlattenOne DEF LastOf
  <2>2. CASE CauseOf(i).type = "or"
    <3>1. NookOf(i, TRUE) = {i + 1}
      BY <2>2 DEF KidsFit
    <3> DEFINE Step(j) == IF IsRealRule(nooks[j].or) THEN <<RuleStep(j)>> ELSE A[j]
    <3>2. Lasts(A, i) = FlattenSeq(SetToSeq({Step(j) : j \in {i + 1}}))
      <4>1. NookOf(i, TRUE) # {}
        BY <3>1
      <4> QED BY <3>1, <4>1, Zenon DEF Lasts
    <3>3. Step(i + 1) = LastOf(i)
      BY <2>2 DEF LastOf
    <3> HIDE DEF Step
    <3>4. {Step(j) : j \in {i + 1}} = {Step(i + 1)}
      OBVIOUS
    <3> QED BY <3>2, <3>3, <3>4, FlattenOne, Zenon
  <2> QED BY <2>1, <2>2
<1> QED BY <1>1, <1>2, <1>3, <1>4

\* The and-node of a nook goes on from its predecessor.
LEMMA NookFollows ==
    ASSUME TreeFollows, NEW i \in DOMAIN nooks
    PROVE  /\ HasPlace(nooks[i].or) /\ FollowsOn(nooks[i].or, PredOf(i), CauseOf(i))
           /\ CauseOf(i).type \in CauseTypes /\ i \in Nat
<1>1. /\ AndOf(nooks[i]) \in bocage.ands /\ AndOf(nooks[i]).parent = nooks[i].or
      /\ CauseOf(i).type \in CauseTypes
  BY NookAnds DEF TreeFollows, Shaped
<1>2. nooks[i].or \in bocage.ors
  BY <1>1 DEF TreeFollows, BocageIsSound
<1>3. i \in Nat
  BY DEF TreeFollows, Shaped, NooksAre
<1> QED BY <1>1, <1>2, <1>3 DEF TreeFollows, BocageFollows, PredOf, CauseOf

\* Steps of the nooks from i on.
From(s, i) == s \in Seq(StepSet) /\ \A k \in DOMAIN s : s[k][2] >= i

\* Two such sequences in a row.
LEMMA FromBoth ==
    ASSUME NEW i \in Nat, NEW s, From(s, i), NEW t, From(t, i)
    PROVE  From(s \o t, i) /\ Len(s \o t) = Len(s) + Len(t)
<1>1. s \in Seq(StepSet) /\ t \in Seq(StepSet)
  BY DEF From
<1>2. /\ s \o t \in Seq(StepSet) /\ Len(s \o t) = Len(s) + Len(t)
      /\ \A k \in 1 .. Len(s) + Len(t) : (s \o t)[k] = IF k <= Len(s) THEN s[k] ELSE t[k - Len(s)]
  BY <1>1, ConcatProperties
<1>3. DOMAIN (s \o t) = 1 .. Len(s) + Len(t) /\ DOMAIN s = 1 .. Len(s) /\ DOMAIN t = 1 .. Len(t)
      /\ Len(s) \in Nat /\ Len(t) \in Nat
  BY <1>1, <1>2
<1>4. ASSUME NEW k \in 1 .. Len(s) + Len(t) PROVE (s \o t)[k][2] >= i
  <2>1. CASE k <= Len(s)
    BY <1>2, <1>3, <2>1 DEF From
  <2>2. CASE ~ (k <= Len(s))
    <3>1. k - Len(s) \in 1 .. Len(t) /\ (s \o t)[k] = t[k - Len(s)]
      BY <1>2, <1>3, <2>2
    <3> QED BY <1>3, <3>1 DEF From
  <2> QED BY <2>1, <2>2
<1> QED BY <1>2, <1>3, <1>4 DEF From

\* Steps of nooks from j on are of nooks from i on.
LEMMA FromLater ==
    ASSUME NEW i \in Nat, NEW j \in Nat, i <= j, NEW s, From(s, j)
    PROVE  From(s, i)
<1>1. s \in Seq(StepSet) /\ DOMAIN s = 1 .. Len(s)
  BY DEF From
<1>2. \A k \in DOMAIN s : s[k][2] \in Nat /\ s[k][2] >= j
  BY <1>1 DEF From, StepSet
<1>3. \A k \in DOMAIN s : s[k][2] >= i
  BY <1>2
<1> QED BY <1>1, <1>3 DEF From

\* A step of one nook.
LEMMA FromOne ==
    ASSUME NEW i \in Nat
    PROVE  /\ From(<<TokenStep(i)>>, i) /\ From(<<RuleStep(i)>>, i) /\ From(<<>>, i)
           /\ TokenStep(i) # RuleStep(i)
           /\ TokenStep(i)[2] = i /\ RuleStep(i)[2] = i
           /\ TokenStep(i) \in StepSet /\ RuleStep(i) \in StepSet
<1>1. /\ TokenStep(i) \in StepSet /\ RuleStep(i) \in StepSet
      /\ TokenStep(i)[2] = i /\ RuleStep(i)[2] = i /\ TokenStep(i) # RuleStep(i)
  BY DEF TokenStep, RuleStep, StepSet
<1>2. \A x \in StepSet : <<x>> \in Seq(StepSet) /\ DOMAIN <<x>> = {1} /\ <<x>>[1] = x
  OBVIOUS
<1>3. <<>> \in Seq(StepSet) /\ DOMAIN <<>> = {}
  BY EmptySeq
<1>4. \A x \in StepSet : x[2] = i => From(<<x>>, i)
  BY <1>2 DEF From
<1> QED BY <1>1, <1>3, <1>4 DEF From

\* The last child of a nook is one step, unless it is a virtual rule.
LEMMA LastIs ==
    ASSUME TreeFollows, NEW i \in DOMAIN nooks, NEW m, KidsFit(i, m),
           CauseOf(i).type = "or" => From(Arguments[i + 1], i + 1)
    PROVE  /\ From(LastOf(i), i)
           /\ ~ (CauseOf(i).type = "or" /\ CauseOf(i).rule \in G.virtualLhs) => Len(LastOf(i)) = 1
<1>1. i \in Nat /\ i + 1 \in Nat /\ FollowsOn(nooks[i].or, PredOf(i), CauseOf(i))
  BY NookFollows
<1>2. \A x : Len(<<x>>) = 1
  OBVIOUS
<1>3. CASE CauseOf(i).type # "or"
  BY <1>1, <1>2, <1>3, FromOne DEF LastOf
<1>4. CASE CauseOf(i).type = "or"
  <2>1. nooks[i + 1].or = CauseOf(i) /\ IsWholeRule(CauseOf(i))
    BY <1>1, <1>4 DEF KidsFit, FollowsOn
  <2>2. CASE IsRealRule(nooks[i + 1].or)
    <3>1. LastOf(i) = <<RuleStep(i + 1)>>
      BY <1>4, <2>2 DEF LastOf
    <3>2. From(<<RuleStep(i + 1)>>, i + 1)
      BY <1>1, FromOne
    <3>3. From(<<RuleStep(i + 1)>>, i)
      BY <1>1, <3>2, FromLater
    <3> QED BY <1>2, <3>1, <3>3
  <2>3. CASE ~ IsRealRule(nooks[i + 1].or)
    <3>1. LastOf(i) = Arguments[i + 1]
      BY <1>4, <2>3 DEF LastOf
    <3>2. From(Arguments[i + 1], i)
      BY <1>1, <1>4, FromLater
    <3>3. CauseOf(i).rule \in G.virtualLhs
      BY <2>1, <2>3 DEF IsRealRule
    <3> QED BY <1>4, <3>1, <3>2, <3>3
  <2> QED BY <2>2, <2>3
<1> QED BY <1>3, <1>4

\* The children of a nook are steps of the nooks from it on, as many as its position if
\* no symbol before it is virtual.
ArgumentsFit(i) ==
    /\ From(Arguments[i], i)
    /\ ~ PastVirtual(nooks[i].or) => Len(Arguments[i]) = PositionOf(nooks[i].or)

\* So are those of every nook.
LEMMA AllArgumentsFit ==
    ASSUME TreeFollows
    PROVE  \A i \in DOMAIN nooks : ArgumentsFit(i)
<1> PICK L : L = Len(nooks)
  OBVIOUS
<1>1. L \in Nat /\ DOMAIN nooks = 1 .. L
  BY DEF TreeFollows, Shaped, NooksAre
<1>2. ASSUME NEW i \in 1 .. L, \A j \in 1 .. L : j > i => ArgumentsFit(j)
      PROVE  ArgumentsFit(i)
  <2>0. i \in DOMAIN nooks
    BY <1>1
  <2>1. PICK m : KidsFit(i, m)
    BY <2>0, KidsAt
  <2> PICK o : o = nooks[i].or
    OBVIOUS
  <2>2. /\ HasPlace(o) /\ FollowsOn(o, PredOf(i), CauseOf(i)) /\ i \in Nat
    BY <2>0, NookFollows
  <2>3. CauseOf(i).type = "or" => From(Arguments[i + 1], i + 1)
    BY <1>1, <1>2, <2>1 DEF KidsFit, ArgumentsFit
  <2>4. /\ From(LastOf(i), i)
        /\ ~ (CauseOf(i).type = "or" /\ CauseOf(i).rule \in G.virtualLhs) => Len(LastOf(i)) = 1
    BY <2>0, <2>1, <2>3, LastIs
  <2>5. ~ PastVirtual(o) => /\ ~ (CauseOf(i).type = "or" /\ CauseOf(i).rule \in G.virtualLhs)
                            /\ ~ BeforeVirtual(PredOf(i))
    BY <2>2 DEF FollowsOn
  <2>6. CASE PredOf(i) = NoOr
    <3>1. Arguments[i] = LastOf(i)
      <4>1. Arguments[i] = <<>> \o LastOf(i)
        BY <2>0, <2>1, <2>6, ArgumentsAt
      <4>2. LastOf(i) \in Seq(StepSet)
        BY <2>4 DEF From
      <4> QED BY <4>1, <4>2, ConcatEmptySeq
    <3>2. PositionOf(o) = 1
      BY <2>2, <2>6 DEF FollowsOn
    <3> QED BY <2>4, <2>5, <3>1, <3>2 DEF ArgumentsFit
  <2>7. CASE PredOf(i) # NoOr
    <3>1. Arguments[i] = Arguments[m] \o LastOf(i)
      BY <2>0, <2>1, <2>7, ArgumentsAt
    <3>2. m \in 1 .. L /\ m > i /\ nooks[m].or = PredOf(i) /\ m \in Nat /\ i <= m
      BY <1>1, <2>1, <2>7 DEF KidsFit
    <3>3. ArgumentsFit(m) /\ PositionOf(PredOf(i)) = PositionOf(o) - 1
      BY <1>2, <2>2, <2>7, <3>2 DEF FollowsOn
    <3>4. From(Arguments[m], i)
      BY <2>2, <3>2, <3>3, FromLater DEF ArgumentsFit
    <3>5. From(Arguments[i], i) /\ Len(Arguments[i]) = Len(Arguments[m]) + Len(LastOf(i))
      BY <2>2, <2>4, <3>1, <3>4, FromBoth
    <3>6. ASSUME ~ PastVirtual(o) PROVE Len(Arguments[i]) = PositionOf(o)
      <4>1. Len(Arguments[m]) = PositionOf(PredOf(i))
        BY <2>5, <2>7, <3>2, <3>3, <3>6 DEF ArgumentsFit, BeforeVirtual
      <4>2. Len(LastOf(i)) = 1 /\ PositionOf(o) \in Nat
        BY <2>2, <2>4, <2>5, <3>6, PlaceIs
      <4> QED BY <3>3, <3>5, <4>1, <4>2
    <3> QED BY <3>5, <3>6 DEF ArgumentsFit
  <2> QED BY <2>6, <2>7
<1> DEFINE S == {i \in 1 .. L : ArgumentsFit(i)}
<1>3. \A i \in 1 .. L : (\A j \in 1 .. L : j > i => j \in S) => i \in S
  BY <1>2
<1>4. \A i \in 1 .. L : i \in S
  <2> HIDE DEF S
  <2> QED BY <1>1, <1>3, Downward
<1> QED BY <1>1, <1>4

-----------------------------------------------------------------------------
(***************************************************************************)
(* What the stack of the application and that of the virtual rules hold.   *)
(***************************************************************************)
\* What is held from the last nook to the nook i is what is held after the end of what is
\* below i, and then what i itself holds.
IsPile(P, g) ==
    /\ DOMAIN P = 1 .. (Len(nooks) + 1) /\ P[Len(nooks) + 1] = <<>>
    /\ \A i \in DOMAIN nooks : P[i] = P[EndOf(i)] \o g[i]

\* There is such a function, by recursion from the last nook.
LEMMA PileExists ==
    ASSUME Shaped(nooks), NEW g
    PROVE  \E P : IsPile(P, g)
<1> PICK L : L = Len(nooks)
  OBVIOUS
<1>1. L \in Nat /\ DOMAIN nooks = 1 .. L
  BY DEF Shaped, NooksAre
<1>2. \A i \in 1 .. L : EndOf(i) \in (i + 1) .. (L + 1)
  BY <1>1, EndOfIs DEF IsEnd
<1> DEFINE Of(f, n) == /\ DOMAIN f = (L - n + 1) .. (L + 1) /\ f[L + 1] = <<>>
                       /\ \A i \in (L - n + 1) .. L : f[i] = f[EndOf(i)] \o g[i]
           T == {n \in Nat : n <= L => \E f : Of(f, n)}
<1>3. 0 \in T
  <2>1. (L - 0 + 1) .. L = {} /\ (L - 0 + 1) .. (L + 1) = {L + 1}
    BY <1>1
  <2>2. PICK f : f = [i \in {L + 1} |-> <<>>]
    OBVIOUS
  <2>3. Of(f, 0)
    BY <2>1, <2>2
  <2> HIDE DEF Of
  <2> QED BY <2>3
<1>4. ASSUME NEW n \in Nat, n \in T PROVE n + 1 \in T
  <2>0. n + 1 \in Nat /\ (n + 1 <= L => n <= L)
    BY <1>1
  <2> SUFFICES ASSUME n + 1 <= L PROVE \E f : Of(f, n + 1)
    <3> HIDE DEF Of
    <3> QED BY <2>0
  <2>1. PICK f : Of(f, n)
    <3> HIDE DEF Of
    <3> QED BY <1>4, <2>0
  <2>2. PICK m : m = L - n /\ m \in 1 .. L /\ m \in Nat /\ L - (n + 1) + 1 = m /\ L - n + 1 = m + 1
    BY <1>1
  <2>3. PICK e : e = [i \in m .. (L + 1) |-> IF i = m THEN f[EndOf(m)] \o g[m] ELSE f[i]]
    OBVIOUS
  <2>4. DOMAIN e = m .. (L + 1) /\ e[L + 1] = <<>>
    BY <1>1, <2>1, <2>2, <2>3
  <2>5. ASSUME NEW i \in m .. L
        PROVE  e[i] = e[EndOf(i)] \o g[i]
    <3>1. i \in 1 .. L /\ EndOf(i) \in (i + 1) .. (L + 1) /\ EndOf(i) # m /\ EndOf(i) \in m .. (L + 1)
      BY <1>1, <1>2, <2>2
    <3>2. e[EndOf(i)] = f[EndOf(i)]
      BY <2>3, <3>1
    <3>3. CASE i = m
      <4>1. m \in m .. (L + 1)
        BY <1>1, <2>2
      <4>2. e[m] = f[EndOf(m)] \o g[m]
        BY <2>3, <4>1, Zenon
      <4> QED BY <3>2, <3>3, <4>2, Zenon
    <3>4. CASE i # m
      <4>1. i \in (m + 1) .. L /\ e[i] = f[i]
        BY <2>2, <2>3, <3>4
      <4>2. f[i] = f[EndOf(i)] \o g[i]
        BY <2>1, <2>2, <4>1
      <4> QED BY <3>2, <4>1, <4>2, Zenon
    <3> QED BY <3>3, <3>4
  <2>6. Of(e, n + 1)
    BY <2>2, <2>4, <2>5
  <2> HIDE DEF Of
  <2> QED BY <2>6
<1>5. L \in T
  <2>1. Nat \subseteq T
    <3> HIDE DEF T
    <3> QED BY <1>3, <1>4, SetInduction
  <2> HIDE DEF T
  <2> QED BY <1>1, <2>1
<1>6. PICK f : Of(f, L)
  <2> HIDE DEF Of
  <2> QED BY <1>1, <1>5
<1>7. L - L + 1 = 1
  BY <1>1
<1>8. IsPile(f, g)
  BY <1>1, <1>6, <1>7 DEF IsPile
<1> QED BY <1>8

\* What the nook i holds on the stack: the value of its rule, or of its children yet.
Held(i) == IF IsRealRule(nooks[i].or) THEN <<RuleStep(i)>> ELSE Arguments[i]

\* The count of the symbols of the virtual rule in what is below the nook i.
Pending(i) ==
    IF PastVirtual(nooks[i].or) THEN <<Len(Arguments[i]) - PositionOf(nooks[i].or) + 1>> ELSE <<>>

\* What the nook i holds on the stack of the counts.
Counts(i) ==
    IF ~ IsWholeRule(nooks[i].or) THEN Pending(i)
    ELSE IF nooks[i].or.rule \in G.virtualLhs THEN <<Len(Arguments[i])>>
    ELSE <<>>

\* The value of the nook's own token, or of its nulling symbol.
Placed(i) == IF CauseOf(i).type # "or" THEN <<TokenStep(i)>> ELSE <<>>

\* What a virtual rule leaves on the stack of the counts, and what it counts.
CountsLeft(r, counts) == IF r \in G.virtualRhs THEN Front(counts) ELSE counts
Counted(r, counts) ==
    IF r \in G.virtualLhs \cup G.virtualRhs
      THEN G.realCount[r] + (IF r \in G.virtualRhs THEN Last(counts) ELSE 0)
      ELSE Len(G.rhsXsys[r])

\* A nook goes from what was held at the one after it to what is held at it; A are the
\* children of the nooks, P is what is held of their steps and V of the counts.
Full(P, i) == P[i + 1] \o Placed(i)
Layer(A, P, V, i) ==
    LET o == nooks[i].or
    IN /\ From(P[i], i) /\ From(P[i + 1], i + 1)
       /\ A[i] \in Seq(StepSet)
       /\ ~ IsWholeRule(o) => P[i] = Full(P, i) /\ V[i] = V[i + 1]
       /\ IsWholeRule(o) => Counted(o.rule, V[i + 1]) = Len(A[i])
       /\ IsWholeRule(o) /\ o.rule \in G.virtualLhs =>
             P[i] = Full(P, i) /\ V[i] = Append(CountsLeft(o.rule, V[i + 1]), Len(A[i]))
       /\ IsRealRule(o) =>
             /\ V[i] = CountsLeft(o.rule, V[i + 1])
             /\ \E q : /\ From(q, i) /\ Full(P, i) = q \o A[i]
                       /\ P[i] = q \o <<RuleStep(i)>>

Piles(A, P, V) ==
    /\ P[Len(nooks) + 1] = <<>> /\ V[Len(nooks) + 1] = <<>>
    /\ \A i \in DOMAIN nooks : Layer(A, P, V, i)

\* What each nook holds is steps of the nooks from it on.
LEMMA PileFrom ==
    ASSUME TreeFollows, NEW P, IsPile(P, [i \in DOMAIN nooks |-> Held(i)])
    PROVE  \A i \in 1 .. (Len(nooks) + 1) : From(P[i], i)
<1> PICK L : L = Len(nooks) + 1
  OBVIOUS
<1>1. L \in Nat /\ DOMAIN nooks = 1 .. (L - 1) /\ Len(nooks) \in Nat /\ Shaped(nooks)
  BY DEF TreeFollows, Shaped, NooksAre
<1> DEFINE S == {i \in 1 .. L : From(P[i], i)}
<1>2. ASSUME NEW i \in 1 .. L, \A j \in 1 .. L : j > i => j \in S
      PROVE  From(P[i], i)
  <2>1. CASE i = L
    BY <1>1, <2>1, FromOne DEF IsPile
  <2>2. CASE i # L
    <3>1. i \in DOMAIN nooks /\ i \in Nat
      BY <1>1, <2>2
    <3>2. P[i] = P[EndOf(i)] \o Held(i)
      BY <3>1 DEF IsPile
    <3>3. EndOf(i) \in (i + 1) .. L
      BY <1>1, <3>1, EndOfIs DEF IsEnd
    <3>4. EndOf(i) \in Nat /\ i <= EndOf(i) /\ EndOf(i) \in S
      BY <1>1, <1>2, <3>1, <3>3
    <3>5. From(P[EndOf(i)], i)
      BY <3>1, <3>4, FromLater
    <3>6. From(Held(i), i)
      <4>1. From(Arguments[i], i)
        BY <3>1, AllArgumentsFit DEF ArgumentsFit
      <4> QED BY <3>1, <4>1, FromOne DEF Held
    <3> QED BY <3>1, <3>2, <3>5, <3>6, FromBoth
  <2> QED BY <2>1, <2>2
<1>3. \A i \in 1 .. L : i \in S
  <2>1. \A i \in 1 .. L : (\A j \in 1 .. L : j > i => j \in S) => i \in S
    BY <1>2
  <2> HIDE DEF S
  <2> QED BY <1>1, <2>1, Downward
<1> QED BY <1>3

\* The counts are numbers.
LEMMA PileCounts ==
    ASSUME TreeFollows, NEW V, IsPile(V, [i \in DOMAIN nooks |-> Counts(i)])
    PROVE  \A i \in 1 .. (Len(nooks) + 1) : V[i] \in Seq(Int)
<1> PICK L : L = Len(nooks) + 1
  OBVIOUS
<1>1. L \in Nat /\ DOMAIN nooks = 1 .. (L - 1) /\ Len(nooks) \in Nat /\ Shaped(nooks)
  BY DEF TreeFollows, Shaped, NooksAre
<1> DEFINE S == {i \in 1 .. L : V[i] \in Seq(Int)}
<1>2. ASSUME NEW i \in 1 .. L, \A j \in 1 .. L : j > i => j \in S
      PROVE  V[i] \in Seq(Int)
  <2>1. CASE i = L
    BY <1>1, <2>1, EmptySeq DEF IsPile
  <2>2. CASE i # L
    <3>1. i \in DOMAIN nooks /\ i \in Nat
      BY <1>1, <2>2
    <3>2. V[i] = V[EndOf(i)] \o Counts(i)
      BY <3>1 DEF IsPile
    <3>3. EndOf(i) \in (i + 1) .. L
      BY <1>1, <3>1, EndOfIs DEF IsEnd
    <3>4. V[EndOf(i)] \in Seq(Int)
      BY <1>1, <1>2, <3>1, <3>3
    <3>6. Counts(i) \in Seq(Int)
      <4>1. Len(Arguments[i]) \in Int
        BY <3>1, AllArgumentsFit DEF ArgumentsFit, From
      <4>2. PositionOf(nooks[i].or) \in Int
        BY <3>1, NookFollows, PlaceIs
      <4>3. Len(Arguments[i]) - PositionOf(nooks[i].or) + 1 \in Int
        BY <4>1, <4>2
      <4>4. <<>> \in Seq(Int) /\ \A x \in Int : <<x>> \in Seq(Int)
        BY EmptySeq
      <4> QED BY <4>1, <4>3, <4>4 DEF Counts, Pending
    <3> QED BY <3>2, <3>4, <3>6, ConcatProperties
  <2> QED BY <2>1, <2>2
<1>3. \A i \in 1 .. L : i \in S
  <2>1. \A i \in 1 .. L : (\A j \in 1 .. L : j > i => j \in S) => i \in S
    BY <1>2
  <2> HIDE DEF S
  <2> QED BY <1>1, <2>1, Downward
<1> QED BY <1>3

\* The two stacks.
Stacks(P, V) ==
    /\ IsPile(P, [i \in DOMAIN nooks |-> Held(i)])
    /\ IsPile(V, [i \in DOMAIN nooks |-> Counts(i)])

\* The children before the last one of the nook i, the last of them at m.
Firsts(i, m) == IF PredOf(i) = NoOr THEN <<>> ELSE Arguments[m]

FirstCounts(i, m) ==
    IF BeforeVirtual(PredOf(i)) THEN <<Len(Firsts(i, m)) - PositionOf(nooks[i].or) + 2>> ELSE <<>>

\* They are held after what was held at the end of what is below the nook.
LEMMA FirstsHeld ==
    ASSUME TreeFollows, NEW P, NEW V, Stacks(P, V), NEW i \in DOMAIN nooks, NEW m, KidsFit(i, m)
    PROVE  /\ From(Firsts(i, m), i) /\ Arguments[i] = Firsts(i, m) \o LastOf(i)
           /\ P[m] = P[EndOf(i)] \o Firsts(i, m)
           /\ V[m] = V[EndOf(i)] \o FirstCounts(i, m)
           /\ ~ BeforeVirtual(PredOf(i)) => Len(Firsts(i, m)) = PositionOf(nooks[i].or) - 1
<1> DEFINE o == nooks[i].or
<1> DEFINE e == EndOf(i)
<1>1. /\ HasPlace(o) /\ FollowsOn(o, PredOf(i), CauseOf(i)) /\ i \in Nat
      /\ PositionOf(o) \in 1 .. Len(G.rhsXsys[o.rule]) /\ Len(G.rhsXsys[o.rule]) \in Nat
      /\ Len(nooks) \in Nat /\ DOMAIN nooks = 1 .. Len(nooks)
  BY NookFollows, PlaceIs DEF TreeFollows, Shaped, NooksAre
<1>2. e \in 1 .. (Len(nooks) + 1)
  BY <1>1 DEF KidsFit
<1>3. P[e] \in Seq(StepSet) /\ V[e] \in Seq(Int)
  BY <1>2, PileFrom, PileCounts DEF Stacks, From
<1>4. P[e] \o <<>> = P[e] /\ V[e] \o <<>> = V[e] /\ Len(<<>>) = 0
  BY <1>3, ConcatEmptySeq
<1>5. CASE PredOf(i) = NoOr
  <2>1. m = e /\ Firsts(i, m) = <<>> /\ PositionOf(o) = 1 /\ ~ BeforeVirtual(PredOf(i))
    BY <1>1, <1>5 DEF KidsFit, Firsts, FollowsOn, BeforeVirtual
  <2>2. From(<<>>, i) /\ Arguments[i] = <<>> \o LastOf(i)
    BY <1>1, <1>5, FromOne, ArgumentsAt
  <2>3. FirstCounts(i, m) = <<>>
    BY <2>1 DEF FirstCounts
  <2> QED BY <1>4, <2>1, <2>2, <2>3
<1>6. CASE PredOf(i) # NoOr
  <2>1. /\ m \in DOMAIN nooks /\ m \in Nat /\ i <= m /\ nooks[m].or = PredOf(i) /\ EndOf(m) = e
        /\ Firsts(i, m) = Arguments[m]
    BY <1>1, <1>6 DEF KidsFit, Firsts
  <2>2. PositionOf(nooks[m].or) = PositionOf(o) - 1 /\ ~ IsWholeRule(nooks[m].or)
        /\ (BeforeVirtual(PredOf(i)) <=> PastVirtual(nooks[m].or))
    BY <1>1, <1>6, <2>1 DEF FollowsOn, IsWholeRule, BeforeVirtual
  <2>3. Held(m) = Arguments[m] /\ Counts(m) = Pending(m)
    BY <2>2 DEF Held, Counts, IsRealRule
  <2>4. P[m] = P[e] \o Arguments[m] /\ V[m] = V[e] \o Pending(m)
    BY <2>1, <2>3 DEF Stacks, IsPile
  <2>5. ArgumentsFit(m)
    BY <2>1, AllArgumentsFit
  <2>6. From(Arguments[m], i) /\ Arguments[i] = Arguments[m] \o LastOf(i)
    BY <1>1, <1>6, <2>1, <2>5, FromLater, ArgumentsAt DEF ArgumentsFit
  <2>7. Len(Arguments[m]) \in Nat
    BY <2>6 DEF From
  <2>8. Len(Arguments[m]) - PositionOf(nooks[m].or) + 1 = Len(Arguments[m]) - PositionOf(o) + 2
    BY <1>1, <2>2, <2>7
  <2>9. ~ PastVirtual(nooks[m].or) => Len(Arguments[m]) = PositionOf(o) - 1
    BY <2>2, <2>5 DEF ArgumentsFit
  <2>10. Pending(m) = FirstCounts(i, m)
    BY <2>1, <2>2, <2>8 DEF Pending, FirstCounts
  <2>11. V[m] = V[e] \o FirstCounts(i, m)
    BY <2>4, <2>10, Zenon
  <2>12. ~ BeforeVirtual(PredOf(i)) => Len(Arguments[m]) = PositionOf(o) - 1
    BY <2>2, <2>9
  <2> QED BY <2>1, <2>4, <2>6, <2>11, <2>12, Zenon
<1> QED BY <1>5, <1>6

IsVirtualCause(i) == CauseOf(i).type = "or" /\ CauseOf(i).rule \in G.virtualLhs

\* The last child is held after them.
LEMMA LastHeld ==
    ASSUME TreeFollows, NEW P, NEW V, Stacks(P, V), NEW i \in DOMAIN nooks, NEW m, KidsFit(i, m)
    PROVE  /\ P[i + 1] \o Placed(i) = P[m] \o LastOf(i)
           /\ V[i + 1] = V[m] \o (IF IsVirtualCause(i) THEN <<Len(LastOf(i))>> ELSE <<>>)
           /\ From(LastOf(i), i) /\ (~ IsVirtualCause(i) => Len(LastOf(i)) = 1)
<1>1. /\ Len(nooks) \in Nat /\ DOMAIN nooks = 1 .. Len(nooks) /\ i + 1 \in 1 .. (Len(nooks) + 1)
      /\ FollowsOn(nooks[i].or, PredOf(i), CauseOf(i))
  BY NookFollows DEF TreeFollows, Shaped, NooksAre
<1>2. P[i + 1] \in Seq(StepSet) /\ V[i + 1] \in Seq(Int)
  BY <1>1, PileFrom, PileCounts DEF Stacks, From
<1>3. P[i + 1] \o <<>> = P[i + 1] /\ V[i + 1] \o <<>> = V[i + 1]
  BY <1>2, ConcatEmptySeq
<1>4. CauseOf(i).type = "or" => From(Arguments[i + 1], i + 1)
  BY AllArgumentsFit DEF ArgumentsFit, KidsFit
<1>5. From(LastOf(i), i) /\ (~ IsVirtualCause(i) => Len(LastOf(i)) = 1)
  BY <1>4, LastIs DEF IsVirtualCause
<1>6. CASE CauseOf(i).type # "or"
  BY <1>3, <1>5, <1>6 DEF KidsFit, Placed, LastOf, IsVirtualCause
<1>7. CASE CauseOf(i).type = "or"
  <2>1. /\ i + 1 \in DOMAIN nooks /\ nooks[i + 1].or = CauseOf(i) /\ EndOf(i + 1) = m
        /\ IsWholeRule(nooks[i + 1].or)
    BY <1>1, <1>7 DEF KidsFit, FollowsOn
  <2>2. P[i + 1] = P[m] \o Held(i + 1) /\ V[i + 1] = V[m] \o Counts(i + 1)
    BY <2>1 DEF Stacks, IsPile
  <2>3. Held(i + 1) = LastOf(i) /\ Placed(i) = <<>>
    BY <1>7 DEF Held, LastOf, Placed
  <2>4. Counts(i + 1) = IF IsVirtualCause(i) THEN <<Len(LastOf(i))>> ELSE <<>>
    BY <1>7, <2>1 DEF Counts, IsVirtualCause, LastOf, IsRealRule
  <2> QED BY <1>3, <1>5, <2>2, <2>3, <2>4
<1> QED BY <1>6, <1>7

\* So the children of a nook are held after what was held at the end of what is below it,
\* and the count of its virtual symbol is pending.
LEMMA ChildrenHeld ==
    ASSUME TreeFollows, NEW P, NEW V, Stacks(P, V), NEW i \in DOMAIN nooks
    PROVE  /\ Full(P, i) = P[EndOf(i)] \o Arguments[i] /\ V[i + 1] = V[EndOf(i)] \o Pending(i)
           /\ From(P[EndOf(i)], i) /\ V[EndOf(i)] \in Seq(Int)
<1>1. PICK m : KidsFit(i, m)
  BY KidsAt
<1> DEFINE o == nooks[i].or
<1> DEFINE e == EndOf(i)
<1> DEFINE pos == PositionOf(o)
<1>2. /\ HasPlace(o) /\ FollowsOn(o, PredOf(i), CauseOf(i)) /\ i \in Nat /\ pos \in Nat
      /\ Len(nooks) \in Nat /\ DOMAIN nooks = 1 .. Len(nooks)
  BY NookFollows, PlaceIs DEF TreeFollows, Shaped, NooksAre
<1>3. e \in 1 .. (Len(nooks) + 1) /\ e \in Nat /\ i <= e /\ m \in 1 .. (Len(nooks) + 1)
  BY <1>1, <1>2 DEF KidsFit
<1>4. From(P[e], e) /\ V[e] \in Seq(Int) /\ V[m] \in Seq(Int)
  BY <1>3, PileFrom, PileCounts DEF Stacks
<1>5. From(P[e], i)
  BY <1>2, <1>3, <1>4, FromLater
<1> DEFINE B == Firsts(i, m)
           last == LastOf(i)
<1>6. /\ From(B, i) /\ Arguments[i] = B \o last /\ P[m] = P[e] \o B
      /\ V[m] = V[e] \o FirstCounts(i, m)
      /\ ~ BeforeVirtual(PredOf(i)) => Len(B) = pos - 1
  BY <1>1, FirstsHeld
<1>7. /\ P[i + 1] \o Placed(i) = P[m] \o last
      /\ V[i + 1] = V[m] \o (IF IsVirtualCause(i) THEN <<Len(last)>> ELSE <<>>)
      /\ From(last, i) /\ (~ IsVirtualCause(i) => Len(last) = 1)
  BY <1>1, LastHeld, Zenon
<1>12. Pending(i) = IF PastVirtual(o) THEN <<Len(Arguments[i]) - pos + 1>> ELSE <<>>
  BY DEF Pending
<1>13. FirstCounts(i, m) = IF BeforeVirtual(PredOf(i)) THEN <<Len(B) - pos + 2>> ELSE <<>>
  BY DEF FirstCounts
<1> HIDE DEF B, last, e, pos, o
<1>8. Full(P, i) = P[e] \o Arguments[i]
  <2>1. P[e] \in Seq(StepSet) /\ B \in Seq(StepSet) /\ last \in Seq(StepSet)
    BY <1>4, <1>6, <1>7 DEF From
  <2>2. (P[e] \o B) \o last = P[e] \o (B \o last)
    BY <2>1, StepsAssociate, ZenonT(60)
  <2> QED BY <1>6, <1>7, <2>2, Zenon DEF Full
<1>9. Len(Arguments[i]) = Len(B) + Len(last) /\ Len(B) \in Nat /\ Len(last) \in Nat
  <2>1. Len(B \o last) = Len(B) + Len(last)
    BY <1>2, <1>6, <1>7, FromBoth
  <2>2. Len(B) \in Nat /\ Len(last) \in Nat
    BY <1>6, <1>7 DEF From
  <2> QED BY <1>6, <2>1, <2>2
<1>10. V[e] \o <<>> = V[e] /\ V[m] \o <<>> = V[m]
  BY <1>4, ConcatEmptySeq
<1>11. V[i + 1] = V[e] \o Pending(i)
  <2>1. CASE IsVirtualCause(i)
    <3>1. PastVirtual(o) /\ ~ BeforeVirtual(PredOf(i))
      BY <1>2, <2>1 DEF FollowsOn, IsVirtualCause
    <3>2. V[i + 1] = V[e] \o <<Len(last)>> /\ Len(B) = pos - 1
      BY <1>6, <1>7, <1>10, <1>13, <2>1, <3>1
    <3>3. Len(Arguments[i]) - pos + 1 = Len(last)
      BY <1>2, <1>9, <3>2
    <3> QED BY <1>12, <3>1, <3>2, <3>3
  <2>2. CASE ~ IsVirtualCause(i)
    <3>1. PastVirtual(o) <=> BeforeVirtual(PredOf(i))
      BY <1>2, <2>2 DEF FollowsOn, IsVirtualCause
    <3>2. V[i + 1] = V[m] /\ Len(last) = 1
      BY <1>7, <1>10, <2>2
    <3>3. Len(Arguments[i]) - pos + 1 = Len(B) - pos + 2
      BY <1>2, <1>9, <3>2
    <3> QED BY <1>6, <1>12, <1>13, <3>1, <3>2, <3>3
  <2> QED BY <2>1, <2>2
<1> QED BY <1>4, <1>5, <1>8, <1>11 DEF e

\* The last and the others of some counts and one more.
LEMMA OneCount ==
    ASSUME NEW s \in Seq(Int), NEW x \in Int
    PROVE  /\ Last(s \o <<x>>) = x /\ Front(s \o <<x>>) = s
           /\ Append(s, x) = s \o <<x>> /\ s \o <<>> = s
<1>1. s \o <<>> = s /\ Append(s, x) = s \o <<x>>
  BY ConcatEmptySeq
<1> PICK t : t = Append(s, x)
  OBVIOUS
<1>2. /\ t \in Seq(Int) /\ Len(t) = Len(s) + 1 /\ t[Len(t)] = x /\ Len(s) \in Nat
      /\ \A k \in 1 .. Len(s) : t[k] = s[k]
  OBVIOUS
<1>3. Last(t) = x
  BY <1>2 DEF Last
<1>4. Front(t) = s
  <2>1. Front(t) = [k \in 1 .. Len(s) |-> t[k]]
    BY <1>2 DEF Front
  <2>2. s = [k \in 1 .. Len(s) |-> s[k]]
    OBVIOUS
  <2> QED BY <1>2, <2>1, <2>2
<1> QED BY <1>1, <1>3, <1>4

\* Each nook goes from one to the next.
LEMMA LayerHolds ==
    ASSUME TreeFollows, NEW P, NEW V, Stacks(P, V), NEW i \in DOMAIN nooks
    PROVE  Layer(Arguments, P, V, i)
<1> DEFINE o == nooks[i].or
           e == EndOf(i)
           r == o.rule
           A == Arguments[i]
           pos == PositionOf(o)
<1>17. HasPlace(o) /\ i \in Nat
  BY NookFollows
<1>18. pos \in Nat /\ (IsWholeRule(o) => (PastVirtual(o) <=> r \in G.virtualRhs)) /\ r \in Rule
  BY <1>17, PlaceIs DEF HasPlace
<1>1. /\ i \in Nat /\ pos \in Nat /\ i + 1 \in Nat
      /\ IsWholeRule(o) => (PastVirtual(o) <=> r \in G.virtualRhs)
      /\ r \in Rule
      /\ Len(nooks) \in Nat /\ DOMAIN nooks = 1 .. Len(nooks) /\ i + 1 \in 1 .. (Len(nooks) + 1)
      /\ i \in 1 .. (Len(nooks) + 1)
  BY <1>17, <1>18 DEF TreeFollows, Shaped, NooksAre
<1>2. From(P[i], i) /\ From(P[i + 1], i + 1)
  BY <1>1, PileFrom DEF Stacks
<1>3. /\ From(A, i) /\ A \in Seq(StepSet) /\ Len(A) \in Nat
      /\ ~ PastVirtual(o) => Len(A) = pos
  BY AllArgumentsFit DEF ArgumentsFit, From
<1>4. /\ Full(P, i) = P[e] \o A /\ V[i + 1] = V[e] \o Pending(i)
      /\ From(P[e], i) /\ V[e] \in Seq(Int)
  BY ChildrenHeld
<1>5. P[i] = P[e] \o Held(i) /\ V[i] = V[e] \o Counts(i)
  BY DEF Stacks, IsPile
<1>6. Pending(i) = IF PastVirtual(o) THEN <<Len(A) - pos + 1>> ELSE <<>>
  BY DEF Pending
<1>7. /\ IsWholeRule(o) <=> pos = Len(G.rhsXsys[r])
      /\ r \in G.virtualLhs \cup G.virtualRhs =>
            G.realCount[r] + (IF r \in G.virtualRhs THEN 1 ELSE 0) = Len(G.rhsXsys[r])
      /\ G.realCount[r] \in Nat
  BY <1>1, PositionAssumption DEF IsWholeRule
<1>8. V[e] \o <<>> = V[e]
  BY <1>4, ConcatEmptySeq
<1>9. /\ ~ IsWholeRule(o) => Held(i) = A /\ Counts(i) = Pending(i)
      /\ IsWholeRule(o) /\ r \in G.virtualLhs => Held(i) = A /\ Counts(i) = <<Len(A)>>
      /\ IsRealRule(o) => Held(i) = <<RuleStep(i)>> /\ Counts(i) = <<>>
  BY DEF Held, Counts, IsRealRule
<1>10. IsRealRule(o) <=> IsWholeRule(o) /\ r \notin G.virtualLhs
  BY DEF IsRealRule
<1> HIDE DEF o, e, r, A, pos
<1>11. Len(A) - pos + 1 \in Int
  BY <1>1, <1>3
<1>12. ASSUME IsWholeRule(o)
       PROVE  CountsLeft(r, V[i + 1]) = V[e] /\ Counted(r, V[i + 1]) = Len(A)
  <2>1. CASE r \in G.virtualRhs
    <3>0. PICK n \in Int : n = Len(A) - pos + 1
      BY <1>11
    <3>1. V[i + 1] = V[e] \o <<n>>
      BY <1>1, <1>4, <1>6, <1>12, <2>1, <3>0
    <3>2. Last(V[i + 1]) = n /\ Front(V[i + 1]) = V[e]
      BY <1>4, <3>1, OneCount
    <3>3. G.realCount[r] + 1 = pos
      BY <1>7, <1>12, <2>1
    <3>4. G.realCount[r] + n = Len(A)
      <4>1. \A c \in Nat : \A p \in Nat : \A a \in Nat : c + 1 = p => c + (a - p + 1) = a
        OBVIOUS
      <4>2. G.realCount[r] \in Nat /\ pos \in Nat /\ Len(A) \in Nat
        BY <1>1, <1>3, <1>7
      <4> QED BY <3>0, <3>3, <4>1, <4>2
    <3>5. Counted(r, V[i + 1]) = G.realCount[r] + n
      BY <2>1, <3>2 DEF Counted
    <3> QED BY <2>1, <3>2, <3>4, <3>5 DEF CountsLeft
  <2>2. CASE r \notin G.virtualRhs
    <3>1. V[i + 1] = V[e] /\ Len(A) = pos
      BY <1>1, <1>3, <1>4, <1>6, <1>8, <1>12, <2>2
    <3>2. CountsLeft(r, V[i + 1]) = V[e]
      BY <2>2, <3>1 DEF CountsLeft
    <3>3. CASE r \in G.virtualLhs
      <4>1. Counted(r, V[i + 1]) = G.realCount[r] + 0
        BY <2>2, <3>3 DEF Counted
      <4>2. G.realCount[r] + 0 = pos
        BY <1>7, <1>12, <2>2, <3>3
      <4> QED BY <3>1, <3>2, <4>1, <4>2
    <3>4. CASE r \notin G.virtualLhs
      <4>1. Counted(r, V[i + 1]) = Len(G.rhsXsys[r])
        BY <2>2, <3>4 DEF Counted
      <4> QED BY <1>7, <1>12, <3>1, <3>2, <4>1
    <3> QED BY <3>3, <3>4
  <2> QED BY <2>1, <2>2
<1>13. IsWholeRule(o) => Counted(r, V[i + 1]) = Len(A)
  BY <1>12
<1>14. ~ IsWholeRule(o) => P[i] = Full(P, i) /\ V[i] = V[i + 1]
  BY <1>4, <1>5, <1>9
<1>15. IsWholeRule(o) /\ r \in G.virtualLhs =>
          P[i] = Full(P, i) /\ V[i] = Append(CountsLeft(r, V[i + 1]), Len(A))
  <2>1. Append(V[e], Len(A)) = V[e] \o <<Len(A)>>
    BY <1>3, <1>4, OneCount
  <2> QED BY <1>4, <1>5, <1>9, <1>12, <2>1
<1>16. IsRealRule(o) =>
          /\ V[i] = CountsLeft(r, V[i + 1])
          /\ \E q : From(q, i) /\ Full(P, i) = q \o A /\ P[i] = q \o <<RuleStep(i)>>
  BY <1>4, <1>5, <1>8, <1>9, <1>10, <1>12
<1> QED BY <1>2, <1>3, <1>13, <1>14, <1>15, <1>16 DEF Layer, o, r, A

\* There are two such stacks.
LEMMA PilesExist ==
    ASSUME TreeFollows
    PROVE  \E P, V : Piles(Arguments, P, V)
<1>1. Shaped(nooks)
  BY DEF TreeFollows
<1>2. PICK P : IsPile(P, [i \in DOMAIN nooks |-> Held(i)])
  BY <1>1, PileExists
<1>3. PICK V : IsPile(V, [i \in DOMAIN nooks |-> Counts(i)])
  BY <1>1, PileExists
<1>4. Stacks(P, V)
  BY <1>2, <1>3 DEF Stacks
<1>5. \A i \in DOMAIN nooks : Layer(Arguments, P, V, i)
  BY <1>4, LayerHolds
<1>6. Piles(Arguments, P, V)
  BY <1>4, <1>5 DEF Piles, Stacks, IsPile
<1> QED BY <1>6

-----------------------------------------------------------------------------
(***************************************************************************)
(* The places of the steps.                                                *)
(***************************************************************************)
\* The places of the application hold the steps of F that have been taken.
Holds(F, w, t) ==
    \A k \in DOMAIN F : F[k] \in Range(t) => k - 1 \in DOMAIN w /\ w[k - 1] = F[k]

\* They hold those of a part of F from the first, and of F and a step not taken.
LEMMA HoldsOf ==
    ASSUME NEW q \in Seq(StepSet), NEW s \in Seq(StepSet), NEW w, NEW t
    PROVE  /\ Holds(q \o s, w, t) => Holds(q, w, t)
           /\ \A x \in StepSet : Holds(q, w, t) /\ x \notin Range(t) => Holds(q \o <<x>>, w, t)
           /\ \A x \in StepSet : x \in Range(q) => x \in Range(q \o s)
<1>1. /\ q \o s \in Seq(StepSet) /\ DOMAIN q = 1 .. Len(q) /\ Len(q) \in Nat /\ Len(s) \in Nat
      /\ DOMAIN (q \o s) = 1 .. (Len(q) + Len(s))
      /\ \A k \in 1 .. Len(q) : (q \o s)[k] = q[k]
  BY ConcatProperties
<1>2. \A k \in DOMAIN q : k \in DOMAIN (q \o s) /\ (q \o s)[k] = q[k]
  BY <1>1
<1>3. Holds(q \o s, w, t) => Holds(q, w, t)
  BY <1>2 DEF Holds
<1>4. \A x \in StepSet : x \in Range(q) => x \in Range(q \o s)
  BY <1>2 DEF Range
<1>5. ASSUME NEW x \in StepSet, Holds(q, w, t), x \notin Range(t)
      PROVE  Holds(q \o <<x>>, w, t)
  <2>1. q \o <<x>> = Append(q, x)
    BY OneMore
  <2>2. /\ DOMAIN Append(q, x) = 1 .. (Len(q) + 1) /\ Append(q, x)[Len(q) + 1] = x
        /\ \A k \in 1 .. Len(q) : Append(q, x)[k] = q[k]
    OBVIOUS
  <2>3. \A k \in 1 .. (Len(q) + 1) : k = Len(q) + 1 \/ k \in DOMAIN q
    BY <1>1
  <2> QED BY <1>1, <1>5, <2>1, <2>2, <2>3 DEF Holds
<1> QED BY <1>3, <1>4, <1>5

\* They hold those of F and the step that is taken next, once it has its place after F.
LEMMA HoldsNext ==
    ASSUME NEW q \in Seq(StepSet), NEW w, NEW t \in Seq(StepSet), NEW x \in StepSet,
           Holds(q, w, t), x \notin Range(q)
    PROVE  Holds(q \o <<x>>, Put(w, Len(q), x), Append(t, x))
<1>1. q \o <<x>> = Append(q, x)
  BY OneMore
<1>2. /\ DOMAIN Append(q, x) = 1 .. (Len(q) + 1) /\ Append(q, x)[Len(q) + 1] = x
      /\ \A k \in 1 .. Len(q) : Append(q, x)[k] = q[k]
      /\ DOMAIN q = 1 .. Len(q) /\ Len(q) \in Nat
  OBVIOUS
<1>3. \A y : y \in Range(Append(t, x)) => y = x \/ y \in Range(t)
  <2>1. /\ DOMAIN Append(t, x) = 1 .. (Len(t) + 1) /\ Append(t, x)[Len(t) + 1] = x
        /\ \A k \in 1 .. Len(t) : Append(t, x)[k] = t[k]
        /\ DOMAIN t = 1 .. Len(t) /\ Len(t) \in Nat
    OBVIOUS
  <2>2. \A k \in 1 .. (Len(t) + 1) : k = Len(t) + 1 \/ k \in DOMAIN t
    BY <2>1
  <2> QED BY <2>1, <2>2 DEF Range
<1> PICK v : v = Put(w, Len(q), x)
  OBVIOUS
<1>4. /\ Len(q) \in DOMAIN v /\ v[Len(q)] = x
      /\ \A k \in DOMAIN w : k # Len(q) => k \in DOMAIN v /\ v[k] = w[k]
  BY DEF Put
<1>5. ASSUME NEW k \in 1 .. (Len(q) + 1), Append(q, x)[k] \in Range(Append(t, x))
      PROVE  k - 1 \in DOMAIN v /\ v[k - 1] = Append(q, x)[k]
  <2>1. CASE k = Len(q) + 1
    <3>1. k - 1 = Len(q)
      BY <1>2, <2>1
    <3> QED BY <1>2, <1>4, <2>1, <3>1
  <2>2. CASE k # Len(q) + 1
    <3>1. k \in DOMAIN q /\ Append(q, x)[k] = q[k] /\ k - 1 # Len(q)
      BY <1>2, <2>2
    <3>2. q[k] # x
      BY <3>1 DEF Range
    <3>3. k - 1 \in DOMAIN w /\ w[k - 1] = q[k]
      BY <1>3, <1>5, <3>1, <3>2 DEF Holds
    <3> QED BY <1>4, <3>1, <3>3
  <2> QED BY <2>1, <2>2
<1> QED BY <1>1, <1>2, <1>5 DEF Holds

\* A sequence has a step at its end once that is appended.
LEMMA AppendedIs ==
    ASSUME NEW t \in Seq(StepSet), NEW x \in StepSet, NEW i \in Nat, From(t, i), x[2] >= i
    PROVE  /\ Last(Append(t, x)) = x /\ From(Append(t, x), i)
           /\ \A y : y \in Range(Append(t, x)) <=> y = x \/ y \in Range(t)
<1> PICK s : s = Append(t, x)
  OBVIOUS
<1>1. /\ s \in Seq(StepSet) /\ Len(s) = Len(t) + 1 /\ s[Len(t) + 1] = x /\ Len(t) \in Nat
      /\ DOMAIN s = 1 .. (Len(t) + 1) /\ DOMAIN t = 1 .. Len(t)
      /\ \A k \in 1 .. Len(t) : s[k] = t[k]
  OBVIOUS
<1>2. \A k \in DOMAIN s : k = Len(t) + 1 \/ k \in DOMAIN t
  BY <1>1
<1>3. Last(s) = x
  BY <1>1 DEF Last
<1>4. From(s, i)
  BY <1>1, <1>2 DEF From
<1>5. \A y : y \in Range(s) <=> y = x \/ y \in Range(t)
  <2>1. Len(t) + 1 \in DOMAIN s /\ \A k \in DOMAIN t : k \in DOMAIN s
    BY <1>1
  <2> QED BY <1>1, <1>2, <2>1 DEF Range
<1> QED BY <1>3, <1>4, <1>5

\* A step of a nook before i is not one of those from i on.
LEMMA FromHasNot ==
    ASSUME NEW t, NEW i \in Nat, From(t, i), NEW x, x[2] \in Nat, x[2] < i
    PROVE  x \notin Range(t)
<1>1. \A k \in DOMAIN t : t[k] # x
  <2>1. \A k \in DOMAIN t : t[k][2] >= i
    BY DEF From
  <2> QED BY <2>1
<1> QED BY <1>1 DEF Range

\* The rule of a nook is not among what is held before it is evaluated.
LEMMA RuleNotHeld ==
    ASSUME NEW P, NEW i \in Nat, From(P[i + 1], i + 1)
    PROVE  /\ Full(P, i) \in Seq(StepSet) /\ P[i + 1] \in Seq(StepSet)
           /\ RuleStep(i) \notin Range(Full(P, i)) /\ TokenStep(i) \notin Range(P[i + 1])
<1>1. /\ TokenStep(i)[2] = i /\ RuleStep(i)[2] = i /\ TokenStep(i) # RuleStep(i)
      /\ TokenStep(i) \in StepSet /\ RuleStep(i) \in StepSet
  BY FromOne
<1>2. P[i + 1] \in Seq(StepSet) /\ i + 1 \in Nat /\ i < i + 1
  BY DEF From
<1>3. RuleStep(i) \notin Range(P[i + 1]) /\ TokenStep(i) \notin Range(P[i + 1])
  BY <1>1, <1>2, FromHasNot
<1>4. CASE Placed(i) = <<>>
  <2>1. Full(P, i) = P[i + 1]
    BY <1>2, <1>4, OneMore DEF Full
  <2> QED BY <1>2, <1>3, <2>1
<1>5. CASE Placed(i) = <<TokenStep(i)>>
  <2>1. Full(P, i) = Append(P[i + 1], TokenStep(i))
    BY <1>1, <1>2, <1>5, OneMore DEF Full
  <2>2. Full(P, i) \in Seq(StepSet)
    BY <1>1, <1>2, <2>1, OneMore
  <2>3. RuleStep(i) \notin Range(Append(P[i + 1], TokenStep(i)))
    <3>1. From(P[i + 1], i) /\ TokenStep(i)[2] >= i
      BY <1>1, <1>2, FromLater
    <3>2. \A y : y \in Range(Append(P[i + 1], TokenStep(i)))
                    => y = TokenStep(i) \/ y \in Range(P[i + 1])
      BY <1>1, <1>2, <3>1, AppendedIs
    <3> QED BY <1>1, <1>3, <3>2
  <2> QED BY <1>2, <1>3, <2>1, <2>2, <2>3
<1> QED BY <1>4, <1>5 DEF Placed

-----------------------------------------------------------------------------
(***************************************************************************)
(* What the valuator knows of the two stacks.                              *)
(***************************************************************************)
\* The valuator is at the stacks of the nook i.
RestsAt(P, V, v, i) ==
    v.virtual = V[i] /\ v.arg0 = Len(P[i]) - 1 /\ (v.pop \/ v.argN = v.arg0)

\* All has been told of its nook, and of those after it.
Standing(P, V, v, w, t) ==
    RestsAt(P, V, v, v.nook) /\ Holds(P[v.nook], w, t) /\ From(t, v.nook)

\* The rule of its nook is still to be told of, if it is to be.
Owes(P, V, v, w, t) ==
    /\ RestsAt(P, V, v, v.nook) /\ v.argN = Len(Full(P, v.nook)) - 1
    /\ Holds(Full(P, v.nook), w, t) /\ From(t, v.nook) /\ RuleStep(v.nook) \notin Range(t)
    /\ v.rule # NoRule => IsRealRule(nooks[v.nook].or)

\* A token or a nulling symbol gets a place.
LEMMA TokenVisitedRests ==
    ASSUME NEW u, DOMAIN u = Fields, NEW i, CauseOf(i).type \in CauseTypes, ~ IsUnvaluedToken(i),
           NEW w, w = TokenVisited(u, nooks[i])
    PROVE  /\ w.virtual = u.virtual /\ w.pop = u.pop
           /\ CauseOf(i).type = "or" => w.arg0 = u.arg0 /\ w.argN = u.argN
           /\ CauseOf(i).type # "or" => w.arg0 = u.argN + 1 /\ w.argN = u.argN + 1
<1> DEFINE o == nooks[i].or
           cause == AndOf(nooks[i]).cause
           pred == AndOf(nooks[i]).pred
           start == IF pred = NoOr THEN o.origin ELSE pred.at
           placed == [u EXCEPT !.argN = @ + 1, !.arg0 = u.argN + 1]
           valued == [placed EXCEPT !.token = "valued", !.xsy = G.sourceXsy[cause.sym],
                                    !.value = cause.value, !.tokenStart = start]
           nulling == [placed EXCEPT !.token = "nulling", !.xsy = XsyBefore(o),
                                     !.tokenStart = o.at]
           empty == [placed EXCEPT !.token = "dummy"]
           none == [u EXCEPT !.token = "dummy"]
<1>1. w = IF cause.type = "token" /\ G.sourceXsy[cause.sym] \in ValuedInBocage THEN valued
          ELSE IF cause.type = "nulling" /\ XsyBefore(o) \in u.valued THEN nulling
          ELSE IF cause.type = "nulling" THEN empty
          ELSE none
  BY Zenon DEF TokenVisited
<1> DEFINE Moved(x) == x.virtual = u.virtual /\ x.pop = u.pop
                       /\ x.arg0 = u.argN + 1 /\ x.argN = u.argN + 1
<1>2. Moved(valued) /\ Moved(nulling) /\ Moved(empty)
  BY DEF Fields
<1>3. none.virtual = u.virtual /\ none.pop = u.pop /\ none.arg0 = u.arg0 /\ none.argN = u.argN
  BY DEF Fields
<1> HIDE DEF valued, nulling, empty, none
<1>4. CauseOf(i).type = "token" => G.sourceXsy[cause.sym] \in ValuedInBocage
  BY DEF IsUnvaluedToken, TokenXsy, CauseOf
<1>5. CASE CauseOf(i).type = "or"
  <2>1. w = none
    BY <1>1, <1>5 DEF CauseOf
  <2> QED BY <1>3, <1>5, <2>1
<1>6. CASE CauseOf(i).type # "or"
  <2>1. w = valued \/ w = nulling \/ w = empty
    BY <1>1, <1>4, <1>6 DEF CauseOf, CauseTypes
  <2> QED BY <1>2, <1>6, <2>1
<1> QED BY <1>5, <1>6

\* The token of the nook i has its place, what it is a part of is still on the stacks.
Filled(P, V, u, i) ==
    u.virtual = V[i + 1] /\ u.argN = u.arg0 /\ u.argN = Len(Full(P, i)) - 1

\* A rule takes the places of its children, and leaves one for its own value.
LEMMA RuleVisitedRests ==
    ASSUME NEW A, NEW P, NEW V, NEW i \in Nat, Layer(A, P, V, i),
           NEW u, DOMAIN u = Fields, Filled(P, V, u, i), NEW w, w = RuleVisited(u, nooks[i].or)
    PROVE  RestsAt(P, V, w, i) /\ w.argN = u.argN
<1>0. u.virtual = V[i + 1] /\ u.argN = u.arg0 /\ u.argN = Len(Full(P, i)) - 1
  BY DEF Filled
<1> DEFINE o == nooks[i].or
           r == o.rule
           isValued == G.source[r] \in u.xrlValued
           below == IF r \in G.virtualRhs THEN Last(u.virtual) ELSE 0
           virtual == IF r \in G.virtualRhs THEN Front(u.virtual) ELSE u.virtual
           count == IF r \in G.virtualLhs \cup G.virtualRhs
                      THEN G.realCount[r] + below ELSE Len(G.rhsXsys[r])
           Real(a, b, c, d) == [u EXCEPT !.virtual = a, !.arg0 = b, !.pop = TRUE,
                                         !.rule = c, !.ruleStart = d]
           Virtual(a) == [u EXCEPT !.virtual = a]
           place == u.argN - count + 1
           named == IF isValued THEN G.source[r] ELSE NoRule
           start == IF isValued THEN o.origin ELSE u.ruleStart
<1>1. w = IF ~ IsWholeRule(o) THEN u
          ELSE IF r \in G.virtualLhs THEN Virtual(Append(virtual, count))
          ELSE Real(virtual, place, named, start)
  BY Zenon DEF RuleVisited
<1>2. \A a, b, c, d : /\ Real(a, b, c, d).virtual = a /\ Real(a, b, c, d).arg0 = b
                      /\ Real(a, b, c, d).pop /\ Real(a, b, c, d).argN = u.argN
  BY DEF Fields
<1>3. \A a : /\ Virtual(a).virtual = a /\ Virtual(a).arg0 = u.arg0 /\ Virtual(a).argN = u.argN
  BY DEF Fields
<1>4. virtual = CountsLeft(r, V[i + 1])
  BY <1>0 DEF CountsLeft
<1>5. count = Counted(r, V[i + 1])
  BY <1>0 DEF Counted
<1> HIDE DEF Real, Virtual, virtual, count, below, place, named, start
<1>6. CASE ~ IsWholeRule(o)
  <2>1. w = u /\ P[i] = Full(P, i) /\ V[i] = V[i + 1]
    BY <1>1, <1>6 DEF Layer
  <2> QED BY <1>0, <2>1 DEF RestsAt
<1>7. CASE IsWholeRule(o) /\ r \in G.virtualLhs
  <2>1. w = Virtual(Append(virtual, count))
    BY <1>1, <1>7
  <2>2. /\ P[i] = Full(P, i) /\ V[i] = Append(CountsLeft(r, V[i + 1]), Len(A[i]))
        /\ Counted(r, V[i + 1]) = Len(A[i])
    BY <1>7 DEF Layer
  <2> QED BY <1>0, <1>3, <1>4, <1>5, <2>1, <2>2 DEF RestsAt
<1>8. CASE IsRealRule(o)
  <2>0. IsWholeRule(o) /\ r \notin G.virtualLhs
    BY <1>8 DEF IsRealRule
  <2>1. w = Real(virtual, place, named, start)
    BY <1>1, <2>0
  <2>2. /\ V[i] = CountsLeft(r, V[i + 1]) /\ count = Len(A[i]) /\ A[i] \in Seq(StepSet)
    BY <1>5, <1>8, <2>0 DEF Layer
  <2>3. PICK q : From(q, i) /\ Full(P, i) = q \o A[i] /\ P[i] = q \o <<RuleStep(i)>>
    BY <1>8 DEF Layer
  <2>4. From(<<RuleStep(i)>>, i) /\ Len(<<RuleStep(i)>>) = 1
    BY FromOne
  <2>5. Len(P[i]) = Len(q) + 1
    BY <2>3, <2>4, FromBoth
  <2>6. q \in Seq(StepSet) /\ Len(q) \in Nat /\ Len(A[i]) \in Nat
    BY <2>2, <2>3 DEF From
  <2>7. Len(Full(P, i)) = Len(q) + Len(A[i])
    BY <2>2, <2>3, <2>6, ConcatProperties
  <2>8. place = Len(P[i]) - 1
    BY <1>0, <2>2, <2>5, <2>6, <2>7 DEF place
  <2>9. /\ w.virtual = virtual /\ w.arg0 = place
        /\ w.pop /\ w.argN = u.argN
    BY <1>2, <2>1
  <2>10. virtual = V[i]
    BY <1>4, <2>2
  <2> QED BY <2>8, <2>9, <2>10, Zenon DEF RestsAt
<1>9. ~ IsWholeRule(o) \/ (IsWholeRule(o) /\ r \in G.virtualLhs) \/ IsRealRule(o)
  BY DEF IsRealRule
<1> HIDE DEF o, r
<1> QED BY <1>6, <1>7, <1>8, <1>9

\* What is held before the rule of a nook is what was held after its token.
LEMMA FullHeld ==
    ASSUME NEW A, NEW P, NEW V, NEW i \in Nat, Layer(A, P, V, i)
    PROVE  /\ CauseOf(i).type = "or" => Full(P, i) = P[i + 1]
           /\ CauseOf(i).type # "or" => Full(P, i) = P[i + 1] \o <<TokenStep(i)>>
           /\ CauseOf(i).type = "or" => Len(Full(P, i)) = Len(P[i + 1])
           /\ CauseOf(i).type # "or" => Len(Full(P, i)) = Len(P[i + 1]) + 1
           /\ Len(P[i + 1]) \in Nat /\ P[i + 1] \in Seq(StepSet) /\ Full(P, i) \in Seq(StepSet)
<1>0. From(P[i + 1], i + 1)
  BY DEF Layer
<1>1. P[i + 1] \in Seq(StepSet) /\ Len(P[i + 1]) \in Nat /\ TokenStep(i) \in StepSet
  <2>1. TokenStep(i) \in StepSet
    BY FromOne
  <2> QED BY <1>0, <2>1 DEF From
<1> PICK s \in Seq(StepSet) : s = P[i + 1]
  BY <1>1
<1>2. /\ s \o <<>> = s /\ s \o <<TokenStep(i)>> = Append(s, TokenStep(i))
      /\ Append(s, TokenStep(i)) \in Seq(StepSet)
  BY <1>1, OneMore
<1>3. Len(Append(s, TokenStep(i))) = Len(s) + 1
  BY <1>1
<1> QED BY <1>1, <1>2, <1>3 DEF Full, Placed

\* So it is when the nook is visited.
LEMMA VisitOwes ==
    ASSUME NEW v, DOMAIN v = Fields, NoRule \notin v.xrlValued, NEW A, NEW P, NEW V, NEW w, NEW t,
           Standing(P, V, v, w, t), NEW i \in Nat, i >= 1, v.nook = i + 1, Layer(A, P, V, i),
           CauseOf(i).type \in CauseTypes, ~ IsUnvaluedToken(i)
    PROVE  Owes(P, V, Visited(v), w, t)
<1> DEFINE y == [v EXCEPT !.nook = @ - 1, !.value = -1, !.rule = NoRule]
           nook == nooks[y.nook]
           popped == Popped(y)
           at == [popped EXCEPT !.at = nook.or.at]
<1>0. i = v.nook - 1 /\ v.nook \in Int
  OBVIOUS
<1>1. /\ y.nook = i /\ y.argN = v.argN /\ y.arg0 = v.arg0 /\ y.virtual = v.virtual
      /\ y.pop = v.pop /\ DOMAIN y = Fields
  BY <1>0 DEF Fields
<1>2. Visited(v) = IF y.nook < 1 THEN [y EXCEPT !.next = "INACTIVE"]
                   ELSE RuleVisited(TokenVisited(at, nook), nook.or)
  BY Zenon DEF Visited
<1>3. v.virtual = V[i + 1] /\ v.arg0 = Len(P[i + 1]) - 1 /\ (v.pop \/ v.argN = v.arg0)
  BY DEF Standing, RestsAt
<1> HIDE DEF y
<1>4. /\ popped.argN = v.arg0 /\ popped.arg0 = v.arg0 /\ popped.virtual = v.virtual
      /\ DOMAIN popped = Fields
  <2>1. CASE y.pop
    BY <1>1, <2>1 DEF Popped, Fields
  <2>2. CASE ~ y.pop
    BY <1>1, <1>3, <2>2 DEF Popped
  <2> QED BY <2>1, <2>2
<1> HIDE DEF popped
<1>5. /\ at.argN = v.arg0 /\ at.arg0 = v.arg0 /\ at.virtual = v.virtual /\ DOMAIN at = Fields
  BY <1>4 DEF Fields
<1> HIDE DEF at
<1>6. nook = nooks[i] /\ ~ (y.nook < 1)
  BY <1>1
<1> HIDE DEF nook
<1>7. PICK u : u = TokenVisited(at, nooks[i])
  OBVIOUS
<1>8. DOMAIN u = Fields
  BY <1>5, <1>7, TokenVisitedKeeps DEF SameSettings
<1>9. /\ u.virtual = at.virtual
      /\ CauseOf(i).type = "or" => u.arg0 = at.arg0 /\ u.argN = at.argN
      /\ CauseOf(i).type # "or" => u.arg0 = at.argN + 1 /\ u.argN = at.argN + 1
  BY <1>5, <1>7, TokenVisitedRests
<1>10. u.virtual = V[i + 1] /\ u.argN = u.arg0 /\ u.argN = Len(Full(P, i)) - 1
  <2>1. CASE CauseOf(i).type = "or"
    <3>1. Len(Full(P, i)) = Len(P[i + 1])
      BY <2>1, FullHeld, ZenonT(60)
    <3> QED BY <1>3, <1>5, <1>9, <2>1, <3>1
  <2>2. CASE CauseOf(i).type # "or"
    <3>1. Len(Full(P, i)) = Len(P[i + 1]) + 1 /\ Len(P[i + 1]) \in Nat
      BY <2>2, FullHeld, ZenonT(60)
    <3> QED BY <1>3, <1>5, <1>9, <2>2, <3>1
  <2> QED BY <2>1, <2>2
<1>11. PICK x : x = RuleVisited(u, nooks[i].or)
  OBVIOUS
<1>12. RestsAt(P, V, x, i) /\ x.argN = Len(Full(P, i)) - 1
  <2>1. RestsAt(P, V, x, i) /\ x.argN = u.argN
    <3>1. Filled(P, V, u, i)
      BY <1>10 DEF Filled
    <3> QED BY <1>8, <1>11, <3>1, RuleVisitedRests
  <2> QED BY <1>10, <2>1
<1>13. Visited(v) = x
  BY <1>2, <1>6, <1>7, <1>11
<1>14. x.nook = i /\ (x.rule # NoRule => IsRealRule(nooks[i].or))
  <2>1. Tells(Visited(v), i)
    BY <1>0, VisitedTells
  <2>2. <<RuleStep(i)>> # <<>>
    OBVIOUS
  <2> QED BY <1>13, <2>1, <2>2 DEF Tells, TellsToken, TellsRule, OwnRule
<1>15. From(t, i + 1) /\ From(t, i) /\ Holds(P[i + 1], w, t)
  <2>1. From(t, i + 1) /\ Holds(P[i + 1], w, t)
    BY DEF Standing
  <2> QED BY <2>1, FromLater
<1>16. RuleStep(i) \notin Range(t) /\ TokenStep(i) \notin Range(t)
  <2>1. RuleStep(i)[2] = i /\ TokenStep(i)[2] = i
    BY FromOne
  <2>2. i < i + 1 /\ i + 1 \in Nat
    OBVIOUS
  <2> QED BY <1>15, <2>1, <2>2, FromHasNot
<1>17. Holds(Full(P, i), w, t)
  <2>1. P[i + 1] \in Seq(StepSet) /\ TokenStep(i) \in StepSet /\ <<>> \in Seq(StepSet)
    BY FullHeld, FromOne DEF From
  <2>2. Holds(P[i + 1] \o <<TokenStep(i)>>, w, t)
    BY <1>15, <1>16, <2>1, HoldsOf
  <2> QED BY <1>15, <2>2, FullHeld
<1> QED BY <1>12, <1>13, <1>14, <1>15, <1>16, <1>17 DEF Owes

\* When the rule has been told of, or is not to be, the nook holds what it holds.
LEMMA OwesStands ==
    ASSUME NEW A, NEW P, NEW V, NEW v, NEW w, NEW t, NEW i \in Nat, v.nook = i,
           Layer(A, P, V, i), Owes(P, V, v, w, t)
    PROVE  Standing(P, V, v, w, t)
<1>1. Holds(P[i], w, t)
  <2>1. Holds(Full(P, i), w, t) /\ RuleStep(i) \notin Range(t)
    BY DEF Owes
  <2>2. CASE IsRealRule(nooks[i].or)
    <3>1. PICK q : From(q, i) /\ Full(P, i) = q \o A[i] /\ P[i] = q \o <<RuleStep(i)>>
      BY <2>2 DEF Layer
    <3>2. q \in Seq(StepSet) /\ A[i] \in Seq(StepSet) /\ RuleStep(i) \in StepSet
      BY <3>1, FromOne DEF Layer, From
    <3>3. Holds(q \o <<RuleStep(i)>>, w, t)
      BY <2>1, <3>1, <3>2, HoldsOf
    <3> QED BY <3>1, <3>3
  <2>3. CASE ~ IsRealRule(nooks[i].or)
    <3>1. P[i] = Full(P, i)
      BY <2>3 DEF Layer, IsRealRule
    <3> QED BY <2>1, <3>1
  <2> QED BY <2>2, <2>3
<1> QED BY <1>1 DEF Owes, Standing

\* No token of the tree is without a value.
AllPlaced == \A i \in DOMAIN nooks : ~ IsUnvaluedToken(i)

\* A nook with something to tell has been found, or there is none left.
Arrives(P, V, u, w, t) ==
    u.next # "INACTIVE" =>
        u.nook \in DOMAIN nooks /\ Tells(u, u.nook) /\ Owes(P, V, u, w, t)

\* A turn of the loop goes from one nook to the next.
LEMMA VisitArrives ==
    ASSUME Len(nooks) \in Nat, DOMAIN nooks = 1 .. Len(nooks), CausesAreTyped, AllPlaced,
           NEW A, NEW P, NEW V, Piles(A, P, V), NEW v, DOMAIN v = Fields,
           NoRule \notin v.xrlValued, NEW w, NEW t, v.nook \in 1 .. (Len(nooks) + 1),
           Standing(P, V, v, w, t)
    PROVE  Arrives(P, V, Visited(v), w, t)
<1>1. PICK i : i = v.nook - 1
  OBVIOUS
<1>2. i \in Nat /\ v.nook = i + 1 /\ v.nook \in Int /\ (i >= 1 => i \in DOMAIN nooks)
  BY <1>1
<1>3. CASE i < 1
  <2>1. Visited(v).next = "INACTIVE"
    <3>1. i >= 1 => CauseOf(i).type \in CauseTypes
      BY <1>2, <1>3
    <3> QED BY <1>1, <1>2, <1>3, <3>1, VisitedTells
  <2> QED BY <2>1 DEF Arrives
<1>4. CASE i >= 1
  <2>1. i \in DOMAIN nooks /\ CauseOf(i).type \in CauseTypes /\ ~ IsUnvaluedToken(i)
        /\ Layer(A, P, V, i)
    BY <1>2, <1>4 DEF CausesAreTyped, AllPlaced, Piles
  <2>2. Tells(Visited(v), i)
    BY <1>1, <1>2, <1>4, <2>1, VisitedTells
  <2>3. Owes(P, V, Visited(v), w, t)
    BY <1>2, <1>4, <2>1, VisitOwes
  <2>4. Visited(v).nook = i
    BY <2>2 DEF Tells, TellsToken
  <2> QED BY <2>1, <2>2, <2>3, <2>4 DEF Arrives
<1> QED BY <1>2, <1>3, <1>4

\* Before the walk nothing is held.
AtRest(v, t) == v.nook = 0 /\ v.virtual = <<>> /\ v.arg0 = -1 /\ t = <<>>

\* So the loop goes to the next nook with something to tell.
LEMMA FoundOwes ==
    ASSUME Len(nooks) \in Nat, DOMAIN nooks = 1 .. Len(nooks), CausesAreTyped, AllPlaced,
           NEW A, NEW P, NEW V, Piles(A, P, V), NEW v, DOMAIN v = Fields,
           NoRule \notin v.xrlValued, NEW w, NEW t,
           AtRest(v, t) \/ (v.nook \in DOMAIN nooks /\ Standing(P, V, v, w, t))
    PROVE  Arrives(P, V, Found(v), w, t)
<1> PICK L : L = Len(nooks)
  OBVIOUS
<1>1. L \in Nat /\ DOMAIN nooks = 1 .. L
  OBVIOUS
<1>2. PICK f, begun :
          /\ begun = [v EXCEPT !.pop = TRUE, !.nook = IF @ < 1 THEN L + 1 ELSE @]
          /\ Turns(f, begun, L)
          /\ Found(v) = f[L]
  BY FoundByTurns
<1>3. /\ SameSettings(begun, v) /\ begun.virtual = v.virtual /\ begun.arg0 = v.arg0
      /\ begun.pop /\ begun.nook = IF v.nook < 1 THEN L + 1 ELSE v.nook
  BY <1>2 DEF SameSettings, Fields
<1>4. begun.nook \in 1 .. (L + 1) /\ Standing(P, V, begun, w, t)
  <2>1. CASE AtRest(v, t)
    <3>1. begun.nook = L + 1 /\ begun.virtual = <<>> /\ begun.arg0 = -1 /\ t = <<>>
      BY <1>3, <2>1 DEF AtRest
    <3>2. P[L + 1] = <<>> /\ V[L + 1] = <<>>
      BY DEF Piles
    <3>3. Len(<<>>) - 1 = -1 /\ DOMAIN <<>> = {}
      OBVIOUS
    <3>4. From(<<>>, L + 1)
      <4>1. L + 1 \in Nat
        BY <1>1
      <4> QED BY <4>1, FromOne
    <3>5. Holds(<<>>, w, t)
      BY <3>3 DEF Holds
    <3>6. RestsAt(P, V, begun, L + 1)
      BY <1>3, <3>1, <3>2, <3>3 DEF RestsAt
    <3>7. L + 1 \in 1 .. (L + 1)
      BY <1>1
    <3> QED BY <3>1, <3>2, <3>4, <3>5, <3>6, <3>7 DEF Standing
  <2>2. CASE v.nook \in DOMAIN nooks /\ Standing(P, V, v, w, t)
    <3>1. begun.nook = v.nook /\ v.nook \in 1 .. (L + 1)
      BY <1>1, <1>3, <2>2
    <3> QED BY <1>3, <2>2, <3>1 DEF Standing, RestsAt
  <2> QED BY <2>1, <2>2
<1>5. ASSUME NEW u, SameSettings(u, v), u.nook \in 1 .. (L + 1), Standing(P, V, u, w, t)
      PROVE  Arrives(P, V, Visited(u), w, t) /\ SameSettings(Visited(u), v)
  <2>1. DOMAIN u = Fields /\ NoRule \notin u.xrlValued
    BY <1>5 DEF SameSettings
  <2>2. SameSettings(Visited(u), v)
    <3>1. SameSettings(Visited(u), u)
      BY <2>1, VisitedKeeps
    <3> QED BY <1>5, <3>1, SettingsAreTransitive
  <2>3. Arrives(P, V, Visited(u), w, t)
    BY <1>5, <2>1, VisitArrives
  <2> QED BY <2>2, <2>3
<1> DEFINE T == {n \in Nat : n \in 0 .. L => SameSettings(f[n], v) /\ Arrives(P, V, f[n], w, t)}
<1>6. 0 \in T
  <2>1. f[0] = Visited(begun)
    <3>1. 0 \in 0 .. L
      BY <1>1
    <3> QED BY <1>2, <3>1 DEF Turns
  <2> QED BY <1>3, <1>4, <1>5, <2>1
<1>7. ASSUME NEW n \in Nat, n \in T PROVE n + 1 \in T
  <2> SUFFICES ASSUME n + 1 \in 0 .. L
               PROVE  SameSettings(f[n + 1], v) /\ Arrives(P, V, f[n + 1], w, t)
    OBVIOUS
  <2>1. PICK u : u = f[n]
    OBVIOUS
  <2>2. SameSettings(u, v) /\ Arrives(P, V, u, w, t)
    BY <1>1, <1>7, <2>1
  <2>3. f[n + 1] = IF IsFound(u) THEN u ELSE Visited(u)
    BY <1>1, <1>2, <2>1 DEF Turns
  <2>4. CASE IsFound(u)
    BY <2>2, <2>3, <2>4
  <2>5. CASE ~ IsFound(u)
    <3>1. u.next # "INACTIVE"
      BY <2>5 DEF IsFound, IsActive
    <3>2. u.nook \in DOMAIN nooks /\ Owes(P, V, u, w, t)
      BY <2>2, <3>1 DEF Arrives
    <3>3. PICK i \in DOMAIN nooks : i = u.nook
      BY <3>2
    <3>4. i \in Nat /\ Layer(A, P, V, i) /\ i \in 1 .. (L + 1)
      BY <1>1 DEF Piles
    <3>5. Standing(P, V, u, w, t)
      BY <3>2, <3>3, <3>4, OwesStands
    <3> QED BY <1>5, <2>2, <2>3, <2>5, <3>3, <3>4, <3>5
  <2> QED BY <2>4, <2>5
<1>8. L \in T
  <2>1. Nat \subseteq T
    <3> HIDE DEF T
    <3> QED BY <1>6, <1>7, SetInduction
  <2> QED BY <1>1, <2>1
<1> QED BY <1>1, <1>2, <1>8

-----------------------------------------------------------------------------
(***************************************************************************)
(* The steps of the valuator on the stacks.                                *)
(***************************************************************************)
\* The places after the value of the last step has been put in its place.
Written(v, s, t) == IF IsValueStep(v) THEN Put(s, v.result, Last(t)) ELSE s

\* The arguments of a rule are its children.
ArgsRight(children, v, s, t) ==
    /\ v.result = v.arg0 /\ v.arg0 >= 0
    /\ v.argN - v.arg0 + 1 = Len(children)
    /\ \A k \in DOMAIN children :
          children[k] \in Range(t) => s[v.arg0 + k - 1] = children[k]

\* The valuator between two calls.
Placing(P, V, v, w, t) ==
    /\ v.next \in {"INITIAL", "GET_DATA", "RULE", "TRACE", "INACTIVE"}
    /\ v.next = "INITIAL" => AtRest(v, t)
    /\ v.next \in {"TRACE", "GET_DATA"} => v.nook \in DOMAIN nooks /\ Standing(P, V, v, w, t)
    /\ v.next = "RULE" => v.nook \in DOMAIN nooks /\ Owes(P, V, v, w, t)

AtRule(v) == v.step = "RULE" /\ v.next = "TRACE"

\* What holds of the valuator v, of the places s and of the steps t after its last step.
PlacedRight(A, P, V, v, s, t) ==
    /\ Placing(P, V, v, Written(v, s, t), t)
    /\ AtRule(v) => ArgsRight(A[v.nook], v, s, t)

\* A rule is told of: its value takes the place of the first of its children.
LEMMA RuleGoes ==
    ASSUME NEW A, NEW P, NEW V, NEW i \in DOMAIN nooks, i \in Nat, Layer(A, P, V, i),
           NEW v, DOMAIN v = Fields, v.nook = i, v.rule # NoRule, NEW w, NEW t,
           Owes(P, V, v, w, t)
    PROVE  PlacedRight(A, P, V, RuleTold(v), w, TrailAfter(t, RuleTold(v)))
<1> DEFINE y == RuleTold(v)
<1>1. /\ y.next = "TRACE" /\ y.step = "RULE" /\ y.nook = i /\ y.result = v.arg0
      /\ y.arg0 = v.arg0 /\ y.argN = v.argN /\ y.virtual = v.virtual /\ y.pop = v.pop
  BY DEF RuleTold, Fields
<1> HIDE DEF y
<1>2. TrailAfter(t, y) = Append(t, RuleStep(i))
  BY <1>1 DEF TrailAfter, IsValueStep, RuleStep
<1>3. /\ RuleStep(i) \in StepSet /\ RuleStep(i)[2] >= i
  <2>1. RuleStep(i) \in StepSet /\ RuleStep(i)[2] = i
    BY FromOne
  <2> QED BY <2>1
<1>4. /\ From(t, i) /\ Holds(Full(P, i), w, t) /\ RuleStep(i) \notin Range(t)
      /\ v.virtual = V[i] /\ v.arg0 = Len(P[i]) - 1 /\ (v.pop \/ v.argN = v.arg0)
      /\ v.argN = Len(Full(P, i)) - 1 /\ IsRealRule(nooks[i].or)
  BY DEF Owes, RestsAt
<1> PICK a : a = Append(t, RuleStep(i))
  OBVIOUS
<1>5. /\ Last(a) = RuleStep(i) /\ From(a, i)
      /\ \A x : x \in Range(a) <=> x = RuleStep(i) \/ x \in Range(t)
  <2>1. t \in Seq(StepSet)
    BY <1>4 DEF From
  <2> QED BY <1>3, <1>4, <2>1, AppendedIs
<1>6. PICK q : From(q, i) /\ Full(P, i) = q \o A[i] /\ P[i] = q \o <<RuleStep(i)>>
  BY <1>4 DEF Layer
<1>7. q \in Seq(StepSet) /\ A[i] \in Seq(StepSet) /\ Len(q) \in Nat /\ Len(A[i]) \in Nat
  BY <1>6 DEF Layer, From
<1>8. Len(P[i]) = Len(q) + 1
  <2>1. From(<<RuleStep(i)>>, i) /\ Len(<<RuleStep(i)>>) = 1
    BY FromOne
  <2> QED BY <1>6, <2>1, FromBoth
<1>9. /\ Len(Full(P, i)) = Len(q) + Len(A[i])
      /\ \A k \in 1 .. Len(A[i]) : /\ Len(q) + k \in DOMAIN Full(P, i)
                                   /\ Full(P, i)[Len(q) + k] = A[i][k]
  <2>1. \A s1 \in Seq(StepSet) : \A s2 \in Seq(StepSet) :
           /\ Len(s1 \o s2) = Len(s1) + Len(s2) /\ DOMAIN (s1 \o s2) = 1 .. (Len(s1) + Len(s2))
           /\ \A k \in 1 .. Len(s2) : (s1 \o s2)[Len(s1) + k] = s2[k]
    BY ConcatProperties
  <2>2. \A k \in 1 .. Len(A[i]) : Len(q) + k \in 1 .. (Len(q) + Len(A[i]))
    BY <1>7
  <2> QED BY <1>6, <1>7, <2>1, <2>2
<1>10. v.arg0 = Len(q)
  BY <1>4, <1>7, <1>8
<1>11. RuleStep(i) \notin Range(Full(P, i))
  BY RuleNotHeld DEF Layer
<1>12. ArgsRight(A[i], y, w, a)
  <2>1. y.result = y.arg0 /\ y.arg0 >= 0 /\ y.argN - y.arg0 + 1 = Len(A[i])
    <3>1. \A m \in Nat : \A n \in Nat : m >= 0 /\ (m + n - 1) - m + 1 = n
      OBVIOUS
    <3>2. y.argN = Len(q) + Len(A[i]) - 1 /\ y.arg0 = Len(q) /\ y.result = Len(q)
      BY <1>1, <1>4, <1>9, <1>10
    <3> QED BY <1>7, <3>1, <3>2
  <2>2. ASSUME NEW k \in DOMAIN A[i], A[i][k] \in Range(a)
        PROVE  w[y.arg0 + k - 1] = A[i][k]
    <3>1. k \in 1 .. Len(A[i])
      BY <1>7
    <3>2. Len(q) + k \in DOMAIN Full(P, i) /\ Full(P, i)[Len(q) + k] = A[i][k]
      BY <1>9, <3>1
    <3>3. A[i][k] # RuleStep(i)
      BY <1>11, <3>2 DEF Range
    <3>4. A[i][k] \in Range(t)
      BY <1>5, <2>2, <3>3
    <3>5. \A n \in DOMAIN Full(P, i) : Full(P, i)[n] \in Range(t) => w[n - 1] = Full(P, i)[n]
      BY <1>4 DEF Holds
    <3>6. PICK n \in DOMAIN Full(P, i) : n = Len(q) + k /\ Full(P, i)[n] = A[i][k]
      BY <3>2
    <3>7. w[n - 1] = A[i][k]
      BY <3>4, <3>5, <3>6
    <3>8. y.arg0 + k - 1 = n - 1
      <4>1. y.arg0 = Len(q) /\ k \in Int /\ Len(q) \in Int
        BY <1>1, <1>7, <1>10, <3>1
      <4> QED BY <3>6, <4>1
    <3> QED BY <3>7, <3>8, Zenon
  <2> QED BY <2>1, <2>2 DEF ArgsRight
<1>13. Written(y, w, a) = Put(w, Len(q), RuleStep(i))
  BY <1>1, <1>5, <1>10 DEF Written, IsValueStep
<1>14. Holds(P[i], Written(y, w, a), a)
  <2>1. Holds(q, w, t)
    BY <1>4, <1>6, <1>7, HoldsOf
  <2>2. RuleStep(i) \notin Range(q)
    <3>1. RuleStep(i) \in Range(q) => RuleStep(i) \in Range(q \o A[i])
      BY <1>3, <1>7, HoldsOf
    <3> QED BY <1>6, <1>11, <3>1
  <2>3. t \in Seq(StepSet)
    BY <1>4 DEF From
  <2>4. Holds(q \o <<RuleStep(i)>>, Put(w, Len(q), RuleStep(i)), Append(t, RuleStep(i)))
    BY <1>3, <1>7, <2>1, <2>2, <2>3, HoldsNext
  <2> QED BY <1>6, <1>13, <2>4
<1>15. Standing(P, V, y, Written(y, w, a), a)
  BY <1>1, <1>4, <1>5, <1>14 DEF Standing, RestsAt
<1>16. Placing(P, V, y, Written(y, w, a), a)
  BY <1>1, <1>15 DEF Placing
<1> QED BY <1>1, <1>2, <1>12, <1>16, Zenon DEF PlacedRight, y

\* A nook is traced: the stacks are as they were.
LEMMA TraceGoes ==
    ASSUME NEW A, NEW P, NEW V, NEW v, DOMAIN v = Fields, v.nook \in DOMAIN nooks,
           NEW w, NEW t, Standing(P, V, v, w, t)
    PROVE  PlacedRight(A, P, V, TraceTold(v), w, TrailAfter(t, TraceTold(v)))
<1> DEFINE y == TraceTold(v)
<1>1. /\ y.next = "GET_DATA" /\ y.step = "TRACE" /\ y.nook = v.nook
      /\ y.arg0 = v.arg0 /\ y.argN = v.argN /\ y.virtual = v.virtual /\ y.pop = v.pop
  BY DEF TraceTold, Fields
<1> HIDE DEF y
<1>2. TrailAfter(t, y) = t /\ Written(y, w, t) = w
  BY <1>1 DEF TrailAfter, Written, IsValueStep
<1>3. Standing(P, V, y, w, t)
  BY <1>1 DEF Standing, RestsAt
<1>4. Placing(P, V, y, w, t) /\ ~ AtRule(y)
  BY <1>1, <1>3 DEF Placing, AtRule
<1> QED BY <1>2, <1>4 DEF PlacedRight, y

\* At the end there is nothing to say of them.
LEMMA InactiveGoes ==
    ASSUME NEW A, NEW P, NEW V, NEW v, DOMAIN v = Fields, NEW w, NEW t
    PROVE  PlacedRight(A, P, V, Inactive(v), w, t)
<1>1. Inactive(v).next = "INACTIVE"
  BY DEF Inactive, Fields
<1> QED BY <1>1 DEF PlacedRight, Placing, AtRule

\* A token is told of: its value is put after those that are held.
LEMMA TokenGoes ==
    ASSUME NEW A, NEW P, NEW V, NEW i \in DOMAIN nooks, i \in Nat, Layer(A, P, V, i),
           NEW v, DOMAIN v = Fields, Tells(v, i), v.token # "dummy", v.next # "INACTIVE",
           NEW w, NEW t, Owes(P, V, v, w, t)
    PROVE  PlacedRight(A, P, V, Told(v), w, TrailAfter(t, Told(v)))
<1>0. v.nook = i /\ OwnToken(v, i) = <<TokenStep(i)>>
      /\ TokenStep(i) = <<IF v.token = "nulling" THEN "NULLING_SYMBOL" ELSE "TOKEN", i>>
  BY DEF Tells, TellsToken
<1>1. PICK y : y = [v EXCEPT !.next = "RULE", !.result = v.argN,
                     !.step = IF v.token = "nulling" THEN "NULLING_SYMBOL" ELSE "TOKEN"]
  OBVIOUS
<1>2. Told(v) = y
  BY <1>1 DEF Told, IsActive
<1>3. /\ y.next = "RULE" /\ y.nook = i /\ y.result = v.argN /\ y.rule = v.rule
      /\ y.step = (IF v.token = "nulling" THEN "NULLING_SYMBOL" ELSE "TOKEN")
      /\ y.arg0 = v.arg0 /\ y.argN = v.argN /\ y.virtual = v.virtual /\ y.pop = v.pop
  BY <1>0, <1>1 DEF Fields
<1>4. TokenStep(i) = <<y.step, y.nook>> /\ IsValueStep(y)
  BY <1>0, <1>3 DEF IsValueStep
<1>5. TrailAfter(t, y) = Append(t, TokenStep(i))
  BY <1>4 DEF TrailAfter
<1>6. CauseOf(i).type # "or"
  <2>1. <<TokenStep(i)>> # <<>>
    OBVIOUS
  <2> QED BY <1>0, <2>1 DEF OwnToken, IsPlaced
<1>7. /\ From(t, i) /\ Holds(Full(P, i), w, t) /\ RuleStep(i) \notin Range(t)
      /\ RestsAt(P, V, v, i) /\ v.argN = Len(Full(P, i)) - 1
      /\ v.rule # NoRule => IsRealRule(nooks[i].or)
  BY <1>0 DEF Owes
<1>8. /\ TokenStep(i) \in StepSet /\ TokenStep(i)[2] >= i /\ TokenStep(i) # RuleStep(i)
  <2>1. TokenStep(i) \in StepSet /\ TokenStep(i)[2] = i /\ TokenStep(i) # RuleStep(i)
    BY FromOne
  <2> QED BY <2>1
<1> PICK a : a = Append(t, TokenStep(i))
  OBVIOUS
<1>9. /\ Last(a) = TokenStep(i) /\ From(a, i)
      /\ \A x : x \in Range(a) <=> x = TokenStep(i) \/ x \in Range(t)
  <2>1. t \in Seq(StepSet)
    BY <1>7 DEF From
  <2> QED BY <1>7, <1>8, <2>1, AppendedIs
<1>10. /\ Full(P, i) = P[i + 1] \o <<TokenStep(i)>> /\ Len(Full(P, i)) = Len(P[i + 1]) + 1
       /\ Len(P[i + 1]) \in Nat /\ P[i + 1] \in Seq(StepSet)
  BY <1>6, FullHeld, ZenonT(60)
<1>11. Written(y, w, a) = Put(w, Len(P[i + 1]), TokenStep(i))
  <2>1. y.result = Len(P[i + 1])
    BY <1>3, <1>7, <1>10
  <2> QED BY <1>4, <1>9, <2>1 DEF Written
<1>12. Holds(Full(P, i), Written(y, w, a), a)
  <2>1. t \in Seq(StepSet) /\ <<TokenStep(i)>> \in Seq(StepSet)
    BY <1>7, <1>8 DEF From
  <2>2. Holds(P[i + 1], w, t)
    BY <1>7, <1>10, <2>1, HoldsOf
  <2>3. TokenStep(i) \notin Range(P[i + 1])
    BY RuleNotHeld DEF Layer
  <2>4. Holds(P[i + 1] \o <<TokenStep(i)>>, Put(w, Len(P[i + 1]), TokenStep(i)),
              Append(t, TokenStep(i)))
    BY <1>8, <1>10, <2>1, <2>2, <2>3, HoldsNext
  <2> QED BY <1>10, <1>11, <2>4
<1>13. Owes(P, V, y, Written(y, w, a), a)
  BY <1>3, <1>7, <1>8, <1>9, <1>12 DEF Owes, RestsAt
<1>14. Placing(P, V, y, Written(y, w, a), a) /\ ~ AtRule(y)
  BY <1>3, <1>13 DEF Placing, AtRule
<1> QED BY <1>2, <1>5, <1>14, Zenon DEF PlacedRight

\* What has been found is told of.
LEMMA ToldGoes ==
    ASSUME DOMAIN nooks = 1 .. Len(nooks), NEW A, NEW P, NEW V, Piles(A, P, V),
           NEW u, DOMAIN u = Fields, NEW w, NEW t, Arrives(P, V, u, w, t)
    PROVE  PlacedRight(A, P, V, Told(u), w, TrailAfter(t, Told(u)))
<1>1. CASE u.next = "INACTIVE"
  <2>1. Told(u) = Inactive(u)
    BY <1>1 DEF Told, IsActive
  <2> QED BY <2>1, InactiveGoes
<1>2. CASE u.next # "INACTIVE"
  <2>1. u.nook \in DOMAIN nooks /\ Tells(u, u.nook) /\ Owes(P, V, u, w, t)
    BY <1>2 DEF Arrives
  <2>2. PICK i \in DOMAIN nooks : i = u.nook
    BY <2>1
  <2>3. i \in Nat /\ Layer(A, P, V, i) /\ Tells(u, i)
    BY <2>1, <2>2 DEF Piles
  <2>4. CASE u.token # "dummy"
    BY <1>2, <2>1, <2>2, <2>3, <2>4, TokenGoes
  <2>5. CASE u.token = "dummy" /\ u.rule # NoRule
    <3>1. Told(u) = RuleTold(u)
      BY <1>2, <2>5 DEF Told, IsActive
    <3> QED BY <2>1, <2>2, <2>3, <2>5, <3>1, RuleGoes
  <2>6. CASE u.token = "dummy" /\ u.rule = NoRule
    <3>1. Told(u) = TraceTold(u)
      BY <1>2, <2>6 DEF Told, IsActive
    <3>2. Standing(P, V, u, w, t)
      BY <2>1, <2>2, <2>3, OwesStands
    <3> QED BY <2>1, <3>1, <3>2, TraceGoes
  <2> QED BY <2>4, <2>5, <2>6
<1> QED BY <1>1, <1>2

\* What the loop finds is told of.
LEMMA FoundGoes ==
    ASSUME TreeIsThere, AllPlaced, NEW A, NEW P, NEW V, Piles(A, P, V),
           NEW v, DOMAIN v = Fields, NoRule \notin v.xrlValued, NEW w, NEW t,
           AtRest(v, t) \/ (v.nook \in DOMAIN nooks /\ Standing(P, V, v, w, t))
    PROVE  PlacedRight(A, P, V, Told(Found(v)), w, TrailAfter(t, Told(Found(v))))
<1>1. Len(nooks) \in Nat /\ DOMAIN nooks = 1 .. Len(nooks) /\ CausesAreTyped
  BY DEF TreeIsThere
<1>2. DOMAIN Found(v) = Fields
  BY <1>1, FoundKeeps DEF SameSettings
<1>3. Arrives(P, V, Found(v), w, t)
  BY <1>1, FoundOwes
<1> QED BY <1>1, <1>2, <1>3, ToldGoes

\* A step of the valuator keeps the places right.
LEMMA SteppedGoes ==
    ASSUME TreeIsThere, AllPlaced, NEW A, NEW P, NEW V, Piles(A, P, V),
           NEW v, DOMAIN v = Fields, ~ v.nulling, v.next # "INITIAL" => v.xrlValued \subseteq G.xrl,
           NEW w, NEW t, Placing(P, V, v, w, t)
    PROVE  PlacedRight(A, P, V, Stepped(v), w, TrailAfter(t, Stepped(v)))
<1>1. CASE v.next = "INITIAL"
  <2> PICK u : u = Begun(v)
    OBVIOUS
  <2>1. /\ DOMAIN u = Fields /\ u.nook = v.nook /\ u.virtual = v.virtual /\ u.arg0 = v.arg0
        /\ u.xrlValued = RulesOf(v.valued)
    BY DEF Begun, Fields, RulesOf
  <2>2. NoRule \notin u.xrlValued
    BY <2>1, ValueAssumption DEF RulesOf
  <2>3. AtRest(u, t)
    BY <1>1, <2>1 DEF Placing, AtRest
  <2>4. Stepped(v) = Told(Found(u))
    BY <1>1 DEF Stepped, IsActive
  <2> QED BY <2>1, <2>2, <2>3, <2>4, FoundGoes
<1>2. CASE v.next = "INACTIVE"
  <2>1. Stepped(v) = Inactive(v)
    BY <1>2 DEF Stepped, IsActive
  <2> QED BY <2>1, InactiveGoes
<1>3. ASSUME v.nook \in DOMAIN nooks PROVE v.nook \in Nat /\ Layer(A, P, V, v.nook)
  BY <1>3 DEF TreeIsThere, Piles
<1>4. CASE v.next = "RULE" /\ v.rule # NoRule
  <2>1. Stepped(v) = RuleTold(v)
    BY <1>4 DEF Stepped, IsActive
  <2>2. v.nook \in DOMAIN nooks /\ Owes(P, V, v, w, t)
    BY <1>4 DEF Placing
  <2>3. PICK i \in DOMAIN nooks : i = v.nook
    BY <2>2
  <2> QED BY <1>3, <1>4, <2>1, <2>2, <2>3, RuleGoes
<1>5. CASE v.next \in {"TRACE", "GET_DATA"} \/ (v.next = "RULE" /\ v.rule = NoRule)
  <2>1. v.nook \in DOMAIN nooks /\ Standing(P, V, v, w, t)
    <3>1. CASE v.next \in {"TRACE", "GET_DATA"}
      BY <3>1 DEF Placing
    <3>2. CASE v.next = "RULE"
      <4>1. v.nook \in DOMAIN nooks /\ Owes(P, V, v, w, t)
        BY <3>2 DEF Placing
      <4>2. PICK i \in DOMAIN nooks : i = v.nook
        BY <4>1
      <4> QED BY <1>3, <4>1, <4>2, OwesStands
    <3> QED BY <1>5, <3>1, <3>2
  <2>2. Stepped(v) = TraceTold(v) \/ Stepped(v) = Told(Found(v))
    BY <1>5 DEF Stepped, IsActive, AfterRule
  <2>3. NoRule \notin v.xrlValued
    BY <1>5, ValueAssumption
  <2> QED BY <2>1, <2>2, <2>3, TraceGoes, FoundGoes
<1> QED BY <1>1, <1>2, <1>4, <1>5 DEF Placing

-----------------------------------------------------------------------------
(***************************************************************************)
(* The places in every reachable state.                                    *)
(***************************************************************************)
\* The places are right for any stacks that go with the tree.
PlaceInv ==
    valuator # NoValuator =>
        /\ valuator.nulling => valuator.step # "RULE"
        /\ ~ valuator.nulling /\ CausesExist /\ AllPlaced =>
              \A A, P, V : Piles(A, P, V) => PlacedRight(A, P, V, valuator, slots, trail)

\* While the tree stays, so do the stacks that go with it.
LEMMA PilesStay ==
    ASSUME UNCHANGED <<nooks, order, canBeValued, bocage>>,
           NEW v, v = valuator', NEW s, s = slots', NEW t, t = trail'
    PROVE  /\ \A A, P, V : Piles(A, P, V)' <=> Piles(A, P, V)
           /\ \A A, P, V : PlacedRight(A, P, V, valuator, slots, trail)' <=> PlacedRight(A, P, V, v, s, t)
           /\ (AllPlaced' <=> AllPlaced) /\ (CausesExist' <=> CausesExist)
<1>1. \A i : CauseOf(i)' = CauseOf(i)
  BY DEF CauseOf, AndOf
<1>2. \A i : TokenStep(i)' = TokenStep(i) /\ Placed(i)' = Placed(i)
  BY <1>1 DEF TokenStep, Placed
<1>3. \A P, i : Full(P, i)' = Full(P, i)
  BY <1>2 DEF Full
<1>4. ASSUME NEW A, NEW P, NEW V, NEW i PROVE Layer(A, P, V, i)' <=> Layer(A, P, V, i)
  <2>1. nooks[i].or' = nooks[i].or
    OBVIOUS
  <2>2. Full(P, i)' = Full(P, i)
    BY <1>3
  <2>3. PICK o : o = nooks[i].or
    OBVIOUS
  <2>4. o = nooks'[i].or
    BY <2>3
  <2> QED BY <2>2, <2>3, <2>4 DEF Layer
<1>5. \A A, P, V : Piles(A, P, V)' <=> Piles(A, P, V)
  BY <1>4 DEF Piles
<1>6. \A A, P, V : PlacedRight(A, P, V, valuator, slots, trail)' <=> PlacedRight(A, P, V, v, s, t)
  <2> TAKE A, P, V
  <2>1. \A w : Placing(P, V, valuator, w, trail)' <=> Placing(P, V, v, w, t)
    BY <1>3 DEF Placing, AtRest, Standing, Owes, RestsAt
  <2>2. Written(valuator, slots, trail)' = Written(v, s, t)
    BY DEF Written
  <2> QED BY <2>1, <2>2 DEF PlacedRight
<1>7. \A i : XsyBefore(nooks[i].or)' = XsyBefore(nooks[i].or)
  OBVIOUS
<1>8. AllPlaced' <=> AllPlaced
  BY <1>1, <1>7 DEF AllPlaced, IsUnvaluedToken, TokenXsy, ValuedInBocage
<1>9. CausesExist' <=> CausesExist
  BY DEF CausesExist
<1> QED BY <1>5, <1>6, <1>8, <1>9

\* What a setting leaves as it is for the stacks.
PlaceFields ==
    {"next", "step", "nook", "rule", "arg0", "argN", "result", "pop", "virtual", "nulling"}
KeepsPlace(w, v) == \A f \in PlaceFields : w[f] = v[f]

\* A setting changes none of that.
LEMMA SettingKeepsPlace ==
    ASSUME Setting, ValuatorInv
    PROVE  /\ KeepsPlace(valuator', valuator) /\ trail' = trail /\ slots' = slots
           /\ UNCHANGED allVars /\ valuator # NoValuator
<1> DEFINE v == valuator
           Set(a, b) == [v EXCEPT !.locked = a, !.valued = b]
<1>0. DOMAIN v = Fields /\ v # NoValuator
  BY SettingResettles DEF ValuatorInv
<1>1. trail' = trail /\ slots' = slots /\ UNCHANGED allVars
  BY DEF Setting, SymbolIsValuedSet, RuleIsValuedSet, ValuedForce, TraceSet, SettingUnchanged,
         TreeUnchanged, ForestUnchanged, RecognizerUnchanged, allVars, bocageVars, vars, valueVars
<1>2. \A a, b : KeepsPlace(Set(a, b), v)
  BY <1>0 DEF KeepsPlace, PlaceFields, Fields
<1>3. KeepsPlace(v, v)
  BY DEF KeepsPlace
<1>4. \A x, value : SymbolSet(x, value) => KeepsPlace(valuator', v)
  <2> TAKE x, value
  <2>1. SymbolSet(x, value) => valuator' = v \/ \E a, b : valuator' = Set(a, b)
    BY Zenon DEF SymbolSet
  <2> HIDE DEF Set
  <2> QED BY <1>2, <1>3, <2>1
<1>5. ValuedForce => KeepsPlace(valuator', v)
  <2>1. ValuedForce => \E a, b : valuator' = Set(a, b)
    BY Zenon DEF ValuedForce
  <2> HIDE DEF Set
  <2> QED BY <1>2, <2>1
<1>6. \A flag : TraceSet(flag) => KeepsPlace(valuator', v)
  BY <1>0 DEF TraceSet, KeepsPlace, PlaceFields, Fields
<1>7. KeepsPlace(valuator', v)
  BY <1>4, <1>5, <1>6 DEF Setting, SymbolIsValuedSet, RuleIsValuedSet
<1> QED BY <1>0, <1>1, <1>7

\* So the places stay right.
LEMMA PlaceSet ==
    ASSUME ValuatorInv, PlaceInv, Setting
    PROVE  PlaceInv'
<1> PICK v : v = valuator
  OBVIOUS
<1> PICK w : w = valuator'
  OBVIOUS
<1>1. /\ KeepsPlace(w, v) /\ trail' = trail /\ slots' = slots /\ UNCHANGED allVars
      /\ v # NoValuator
  BY SettingKeepsPlace
<1>2. UNCHANGED <<nooks, order, canBeValued, bocage>>
  BY <1>1 DEF allVars, bocageVars, vars, valueVars, orderVars, treeVars
<1>3. /\ w.next = v.next /\ w.step = v.step /\ w.nook = v.nook /\ w.rule = v.rule
      /\ w.arg0 = v.arg0 /\ w.argN = v.argN /\ w.result = v.result /\ w.pop = v.pop
      /\ w.virtual = v.virtual /\ w.nulling = v.nulling
  BY <1>1 DEF KeepsPlace, PlaceFields
<1>4. \A A, P, V : PlacedRight(A, P, V, v, slots, trail) => PlacedRight(A, P, V, w, slots, trail)
  <2> TAKE A, P, V
  <2>1. \A x : Placing(P, V, v, x, trail) => Placing(P, V, w, x, trail)
    BY <1>3 DEF Placing, AtRest, Standing, Owes, RestsAt
  <2>2. Written(w, slots, trail) = Written(v, slots, trail)
    BY <1>3 DEF Written, IsValueStep
  <2>3. ArgsRight(A[v.nook], v, slots, trail) => ArgsRight(A[w.nook], w, slots, trail)
    BY <1>3 DEF ArgsRight
  <2> QED BY <1>3, <2>1, <2>2, <2>3 DEF PlacedRight, AtRule
<1>5. /\ \A A, P, V : Piles(A, P, V)' <=> Piles(A, P, V)
      /\ \A A, P, V : PlacedRight(A, P, V, valuator, slots, trail)'
                        <=> PlacedRight(A, P, V, w, slots, trail)
      /\ (AllPlaced' <=> AllPlaced) /\ (CausesExist' <=> CausesExist)
  BY <1>1, <1>2, PilesStay
<1> QED BY <1>1, <1>3, <1>4, <1>5 DEF PlaceInv

\* A step of the valuator keeps them right.
LEMMA PlaceOn ==
    ASSUME NookInv, PauseInv, SearchInv, SoundForestInv, ValuatorInv, WalkInv, PlaceInv, ValueStep
    PROVE  PlaceInv'
<1> PICK v : v = valuator
  OBVIOUS
<1> PICK y : y = Stepped(v)
  OBVIOUS
<1> PICK w : w = Written(v, slots, trail)
  OBVIOUS
<1>1. /\ v # NoValuator /\ valuator' = y /\ DOMAIN v = Fields /\ trail' = TrailAfter(trail, y)
      /\ slots' = w
  BY DEF ValueStep, HasValuator, ValuatorInv, TrailAfter, Written
<1>2. UNCHANGED allVars
  BY DEF ValueStep, TreeUnchanged, ForestUnchanged, RecognizerUnchanged, allVars, bocageVars, vars,
         valueVars
<1>3. UNCHANGED <<nooks, order, canBeValued, bocage>>
  BY <1>2 DEF allVars, bocageVars, vars, valueVars, orderVars, treeVars
<1>4. y.nulling = v.nulling
  <2>1. Len(nooks) \in Nat
    BY DEF NookInv
  <2> QED BY <1>1, <2>1, SteppedKeeps DEF SameSettings
<1>5. v.nulling => y.step # "RULE"
  <2>1. v.nulling => y = NullingStep(v)
    BY DEF Stepped
  <2>2. NullingStep(v).step \in {"NULLING_SYMBOL", "INACTIVE"}
    BY <1>1 DEF NullingStep, Fields
  <2> QED BY <2>1, <2>2
<1>6. ASSUME ~ v.nulling, CausesExist, AllPlaced, NEW A, NEW P, NEW V, Piles(A, P, V)
      PROVE  PlacedRight(A, P, V, y, w, TrailAfter(trail, y))
  <2>1. TreeIsThere
    BY <1>1, <1>6, WalkedTree DEF WalkInv
  <2>2. v.next # "INITIAL" => v.xrlValued \subseteq G.xrl
    BY <1>1, <1>6 DEF ValuatorInv, Settled, RulesOf
  <2>3. Placing(P, V, v, w, trail)
    BY <1>1, <1>6 DEF PlaceInv, PlacedRight
  <2> QED BY <1>1, <1>6, <2>1, <2>2, <2>3, SteppedGoes
<1>7. /\ \A A, P, V : Piles(A, P, V)' <=> Piles(A, P, V)
      /\ \A A, P, V : PlacedRight(A, P, V, valuator, slots, trail)'
                        <=> PlacedRight(A, P, V, y, w, TrailAfter(trail, y))
      /\ (AllPlaced' <=> AllPlaced) /\ (CausesExist' <=> CausesExist)
  BY <1>1, <1>3, PilesStay
<1> QED BY <1>1, <1>4, <1>5, <1>6, <1>7 DEF PlaceInv

\* Before the first step there is nothing in them.
LEMMA PlaceNew ==
    ASSUME ValuatorNew
    PROVE  PlaceInv'
<1> PICK v : v = NewValuator
  OBVIOUS
<1>1. valuator' = v /\ slots' = <<>> /\ trail' = <<>>
  BY DEF ValuatorNew
<1>2. UNCHANGED <<nooks, order, canBeValued, bocage>>
  BY DEF ValuatorNew, ValueNew, ForestUnchanged, RecognizerUnchanged, orderVars, valueVars
<1>3. /\ v.next = "INITIAL" /\ v.step = "INITIAL" /\ v.nook = 0 /\ v.virtual = <<>>
      /\ v.arg0 = -1
  BY DEF NewValuator
<1>4. \A A, P, V : PlacedRight(A, P, V, v, <<>>, <<>>)
  BY <1>3 DEF PlacedRight, Placing, AtRule, AtRest
<1>5. \A A, P, V : PlacedRight(A, P, V, valuator, slots, trail)'
                     <=> PlacedRight(A, P, V, v, <<>>, <<>>)
  BY <1>1, <1>2, PilesStay
<1> QED BY <1>1, <1>3, <1>4, <1>5 DEF PlaceInv

\* Each step keeps them right.
LEMMA PlaceStep ==
    ASSUME NookInv, PauseInv, SearchInv, SoundForestInv, ValuatorInv, WalkInv, PlaceInv,
           [ValueNext]_valuatorVars
    PROVE  PlaceInv'
<1>1. CASE ForestCall
  BY <1>1 DEF ForestCall, valueStepVars, PlaceInv
<1>2. CASE ValuatorFree
  BY <1>2 DEF ValuatorFree, PlaceInv
<1>3. CASE UNCHANGED valuatorVars
  <2>1. UNCHANGED <<nooks, order, canBeValued, bocage>>
        /\ valuator' = valuator /\ slots' = slots /\ trail' = trail
    BY <1>3 DEF valuatorVars, valueStepVars, allVars, bocageVars, vars, valueVars, orderVars,
                treeVars
  <2>2. /\ \A A, P, V : Piles(A, P, V)' <=> Piles(A, P, V)
        /\ \A A, P, V : PlacedRight(A, P, V, valuator, slots, trail)'
                          <=> PlacedRight(A, P, V, valuator, slots, trail)
        /\ (AllPlaced' <=> AllPlaced) /\ (CausesExist' <=> CausesExist)
    BY <2>1, PilesStay
  <2> QED BY <2>1, <2>2 DEF PlaceInv
<1> QED BY <1>1, <1>2, <1>3, PlaceNew, PlaceOn, PlaceSet DEF ValueNext

\* So the arguments of each rule that is told of are its children.
LEMMA PlacesAreTheArguments ==
    ASSUME EvaluationInv, FollowsInv, CausesExist, PlaceInv
    PROVE  ArgumentsAreTheChildren
<1> PICK v : v = valuator
  OBVIOUS
<1> SUFFICES ASSUME v # NoValuator, v.step = "RULE", v.next = "TRACE", AllPlaced
             PROVE  ArgsRight(Arguments[v.nook], v, slots, trail)
  BY DEF ArgumentsAreTheChildren, ArgsRight, AllPlaced
<1>1. ~ v.nulling
  BY DEF PlaceInv
<1>2. /\ turn = "idle" /\ ~ bocage.nulling /\ parseCount > 0 /\ ~ exhausted
  BY <1>1 DEF EvaluationInv, WalkInv
<1>3. /\ ForestIsSound /\ Shaped(nooks) /\ BocageIsSound(bocage) /\ OrderedAs(bocage, order)
  BY <1>2, WalkedTree DEF EvaluationInv
<1>4. InOrder(nooks) /\ Finished(nooks)
  BY <1>2, <1>3 DEF EvaluationInv, OrderInv
<1>5. BocageFollows(bocage)
  <2>1. bocage # NoBocage
    BY <1>2 DEF EvaluationInv, PauseInv, SoundForestInv
  <2> QED BY <2>1 DEF FollowsInv
<1>6. TreeFollows
  BY <1>3, <1>4, <1>5 DEF TreeFollows, EvaluationInv
<1>7. PICK P, V : Piles(Arguments, P, V)
  BY <1>6, PilesExist
<1>8. PlacedRight(Arguments, P, V, v, slots, trail)
  BY <1>1, <1>7 DEF PlaceInv
<1> QED BY <1>8 DEF PlacedRight, AtRule

\* At each rule the places from arg_0 to arg_n hold the values of its children, as many
\* as the external rule has, whatever virtual rules are between, for every grammar without
\* nulling symbols at the end of a right recursive rule, every input and every tree in
\* which each token has a value.
THEOREM ArgumentsAreOfTheRule == NoNullsAfterRecursion => (ValueSpec => []ArgumentsAreTheChildren)
<1> SUFFICES ASSUME NoNullsAfterRecursion PROVE ValueSpec => []ArgumentsAreTheChildren
  OBVIOUS
<1> DEFINE Inv == EvaluationInv /\ CausesExist /\ FollowsInv /\ PlaceInv
<1>1. ValueInit => Inv
  <2> SUFFICES ASSUME ValueInit PROVE Inv
    OBVIOUS
  <2>1. EvaluationInv /\ CausesExist
    BY EvaluationStart DEF ValueInit, TreeInit, OrderInit, BocageInit, CausesExist
  <2>2. FollowsInv
    BY DerivationInit DEF ValueInit, TreeInit, OrderInit, BocageInit, FollowsInv
  <2>3. PlaceInv
    BY DEF ValueInit, PlaceInv
  <2> QED BY <2>1, <2>2, <2>3
<1>2. Inv /\ [ValueNext]_valuatorVars => Inv'
  <2> SUFFICES ASSUME EvaluationInv, CausesExist, FollowsInv, PlaceInv, [ValueNext]_valuatorVars
               PROVE  EvaluationInv' /\ CausesExist' /\ FollowsInv' /\ PlaceInv'
    OBVIOUS
  <2>1. EvaluationInv' /\ [AllNext]_allVars
    BY EvaluationStep, ValueStepsTheTree
  <2>2. CausesExist'
    <3>1. bocage' = bocage \/ BocageNext
      BY <2>1, ForestSteps DEF allVars, orderVars, bocageVars, ForestUnchanged
    <3>2. CASE bocage' = bocage
      BY <3>2 DEF CausesExist
    <3>3. CASE BocageNext
      <4>1. ChartInv
        BY DEF EvaluationInv
      <4> QED BY <3>3, <4>1, CausesKept
    <3> QED BY <3>1, <3>2, <3>3
  <2>3. FollowsInv'
    <3>1. TokenLinksInv
      BY DEF EvaluationInv, TokensInv
    <3> QED BY <2>1, <3>1, FollowsStep
  <2>4. PlaceInv'
    BY PlaceStep DEF EvaluationInv
  <2> QED BY <2>1, <2>2, <2>3, <2>4
<1>3. Inv => ArgumentsAreTheChildren
  BY PlacesAreTheArguments
<1> HIDE DEF Inv
<1> QED BY <1>1, <1>2, <1>3, PTL DEF ValueSpec
=============================================================================
