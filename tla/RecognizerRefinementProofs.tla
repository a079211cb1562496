--------------------- MODULE RecognizerRefinementProofs ---------------------
(***************************************************************************)
(* Proofs about the reference chart, which is the least that Earley's      *)
(* algorithm allows, and that the recognizer with Leo items implements the *)
(* parser without them.                                                    *)
(***************************************************************************)
EXTENDS RecognizerRefinement, RecognizerProofs

-----------------------------------------------------------------------------
(***************************************************************************)
(* The items of the reference chart are finitely many.                     *)
(***************************************************************************)

\* A grammar with finitely many rules has finitely many dotted rules.
LEMMA AhmsAreFinite == IsFiniteSet(Ahm)
<1> DEFINE Dots(r) == {r} \X (0 .. Len(Rhs(r)))
           D == {Dots(r) : r \in Rule}
<1>1. \A r \in Rule : IsFiniteSet(Dots(r))
  <2> TAKE r \in Rule
  <2>1. IsFiniteSet({r})
    BY FS_Singleton
  <2>2. IsFiniteSet(0 .. Len(Rhs(r)))
    BY RuleTypes, FS_Interval
  <2> QED BY <2>1, <2>2, FS_Product
<1>2. IsFiniteSet(D)
  <2>1. [r \in Rule |-> Dots(r)] \in Surjection(Rule, D)
    BY DEF Surjection
  <2>2. IsFiniteSet(Rule)
    BY GrammarAssumption DEF Rule
  <2> QED BY <2>1, <2>2, FS_Surjection
<1>3. \A T \in D : IsFiniteSet(T)
  BY <1>1
<1>4. Ahm = UNION D
  BY DEF Ahm
<1> HIDE DEF D
<1> QED BY <1>2, <1>3, <1>4, FS_UNION

\* So there are finitely many items up to an earleme.
LEMMA ItemsAreFinite ==
    ASSUME NEW e \in Nat
    PROVE  IsFiniteSet(ItemsUpTo(e))
<1> DEFINE P == (Ahm \X (0 .. e)) \X (0 .. e)
           f == [p \in P |-> [ahm |-> p[1][1], origin |-> p[1][2], at |-> p[2]]]
<1>1. IsFiniteSet(0 .. e)
  BY FS_Interval
<1>2. IsFiniteSet(Ahm \X (0 .. e))
  BY <1>1, AhmsAreFinite, FS_Product
<1>3. IsFiniteSet(P)
  BY <1>1, <1>2, FS_Product
<1>4. f \in Surjection(P, ItemsUpTo(e))
  <2>1. f \in [P -> ItemsUpTo(e)]
    BY DEF ItemsUpTo
  <2>2. ASSUME NEW i \in ItemsUpTo(e) PROVE \E p \in P : f[p] = i
    <3>1. /\ i.ahm \in Ahm /\ i.origin \in 0 .. e /\ i.at \in 0 .. e
          /\ i = [ahm |-> i.ahm, origin |-> i.origin, at |-> i.at]
      BY DEF ItemsUpTo
    <3>2. <<<<i.ahm, i.origin>>, i.at>> \in P
      BY <3>1
    <3>3. f[<<<<i.ahm, i.origin>>, i.at>>] = i
      BY <3>1, <3>2
    <3> QED BY <3>2, <3>3
  <2> QED BY <2>1, <2>2 DEF Surjection
<1> QED BY <1>3, <1>4, FS_Surjection

-----------------------------------------------------------------------------
(***************************************************************************)
(* A round adds items and is monotone.                                     *)
(***************************************************************************)

\* The items that Earley's algorithm has at a round.
LEMMA RoundItems ==
    ASSUME NEW C, NEW e
    PROVE  /\ C \subseteq Round(C, e)
           /\ \A i \in C, r \in Rule :
                 i.at = e /\ PostdotIs(i.ahm, Lhs(r)) /\ (e = 0 => r \notin G.barred)
                    => PredictItem(r, e) \in Round(C, e)
           /\ \A i \in C, c \in C :
                 c.at = e /\ IsCompletion(c.ahm) /\ i.at = c.origin
                    /\ PostdotIs(i.ahm, LhsOf(c.ahm)) => Shift(i, e) \in Round(C, e)
           /\ \A x \in Round(C, e) :
                 \/ x \in C
                 \/ \E i \in C, r \in Rule :
                       /\ i.at = e /\ PostdotIs(i.ahm, Lhs(r)) /\ (e = 0 => r \notin G.barred)
                       /\ x = PredictItem(r, e)
                 \/ \E i \in C, c \in C :
                       /\ c.at = e /\ IsCompletion(c.ahm) /\ i.at = c.origin
                       /\ PostdotIs(i.ahm, LhsOf(c.ahm)) /\ x = Shift(i, e)
BY DEF Round

(* More items ask for more items. *)
LEMMA RoundIsMonotone ==
    ASSUME NEW C, NEW D, NEW e, C \subseteq D
    PROVE  Round(C, e) \subseteq Round(D, e)
<1> SUFFICES ASSUME NEW x \in Round(C, e) PROVE x \in Round(D, e)
  OBVIOUS
<1> QED BY RoundItems

(* The items that items up to an earleme ask for are items up to it. *)
LEMMA RoundStaysBelow ==
    ASSUME NEW e \in Nat, NEW C \in SUBSET ItemsUpTo(e)
    PROVE  Round(C, e) \in SUBSET ItemsUpTo(e)
<1> SUFFICES ASSUME NEW x \in Round(C, e) PROVE x \in ItemsUpTo(e)
  OBVIOUS
<1>1. \A r \in Rule : PredictItem(r, e) \in ItemsUpTo(e)
  BY FirstAhmType DEF PredictItem, ItemsUpTo
<1>2. ASSUME NEW i \in C, NEW s, PostdotIs(i.ahm, s)
      PROVE  Shift(i, e) \in ItemsUpTo(e)
  <2>1. i.ahm \in Ahm /\ i.origin \in 0 .. e
    BY DEF ItemsUpTo
  <2>2. NextAhm(i.ahm) \in Ahm
    BY <1>2, <2>1, NextAhmType DEF PostdotIs
  <2> QED BY <2>1, <2>2 DEF Shift, ItemsUpTo
<1> QED BY <1>1, <1>2, RoundItems

-----------------------------------------------------------------------------
(***************************************************************************)
(* Saturation: the least set that a round adds nothing to.                 *)
(***************************************************************************)
Least(D, e) ==
    {x \in ItemsUpTo(e) :
        \A X \in SUBSET ItemsUpTo(e) : D \subseteq X /\ Round(X, e) \subseteq X => x \in X}

Saturation(f, e) ==
    f = [D \in SUBSET ItemsUpTo(e) |->
           IF Round(D, e) = D THEN D ELSE f[Round(D, e)]]

\* The least sets are a solution of the recursion.
LEMMA LeastIsASolution ==
    ASSUME NEW e \in Nat, NEW D \in SUBSET ItemsUpTo(e)
    PROVE  /\ Round(D, e) = D => Least(D, e) = D
           /\ Least(D, e) = Least(Round(D, e), e)
           /\ D \subseteq Least(D, e) /\ Least(D, e) \subseteq ItemsUpTo(e)
           /\ Round(Least(D, e), e) \subseteq Least(D, e)
<1> DEFINE S == ItemsUpTo(e)
           L == Least(D, e)
<1>1. L \subseteq S /\ D \subseteq L
  BY DEF Least
<1>2. \A X \in SUBSET S : D \subseteq X /\ Round(X, e) \subseteq X => L \subseteq X
  BY DEF Least
<1>3. Round(D, e) = D => L = D
  BY <1>1, <1>2
<1>4. Round(L, e) \subseteq L
  <2>1. Round(L, e) \subseteq S
    BY <1>1, RoundStaysBelow
  <2>2. ASSUME NEW X \in SUBSET S, D \subseteq X, Round(X, e) \subseteq X
        PROVE  Round(L, e) \subseteq X
    <3>1. Round(L, e) \subseteq Round(X, e)
      BY <1>2, <2>2, RoundIsMonotone
    <3> QED BY <2>2, <3>1
  <2> SUFFICES ASSUME NEW x \in Round(L, e) PROVE x \in L
    OBVIOUS
  <2>3. x \in S /\ \A X \in SUBSET S : D \subseteq X /\ Round(X, e) \subseteq X => x \in X
    BY <2>1, <2>2
  <2> QED BY <2>3 DEF Least
<1>5. D \subseteq Round(D, e) /\ Round(D, e) \subseteq S
  BY RoundItems, RoundStaysBelow
<1>6. \A X \in SUBSET S : Round(X, e) \subseteq X => (D \subseteq X <=> Round(D, e) \subseteq X)
  <2> SUFFICES ASSUME NEW X \in SUBSET S, Round(X, e) \subseteq X
               PROVE  D \subseteq X <=> Round(D, e) \subseteq X
    OBVIOUS
  <2>1. D \subseteq X => Round(D, e) \subseteq Round(X, e)
    BY RoundIsMonotone
  <2> QED BY <1>5, <2>1
<1>7. L = Least(Round(D, e), e)
  BY <1>6 DEF Least
<1> QED BY <1>1, <1>3, <1>4, <1>7

\* Since the items are finitely many there is no other solution.
LEMMA SaturationIsLeast ==
    ASSUME NEW e \in Nat, NEW f, Saturation(f, e), NEW C \in SUBSET ItemsUpTo(e)
    PROVE  f[C] = Least(C, e)
<1> DEFINE S == ItemsUpTo(e)
           Bad == {D \in SUBSET S : f[D] # Least(D, e)}
           Rest == {S \ D : D \in Bad}
<1> SUFFICES ASSUME Bad # {} PROVE FALSE
  OBVIOUS
<1>1. IsFiniteSet(S)
  BY ItemsAreFinite
<1>2. IsWellFoundedOn(StrictSubsetOrdering(S), SUBSET S)
  BY <1>1, FS_StrictSubsetOrderingWellFounded, FS_FiniteSubsetsOfFinite
<1>3. Rest \subseteq SUBSET S /\ Rest # {}
  OBVIOUS
<1>4. PICK R \in Rest : \A T \in Rest : ~ (<<T, R>> \in StrictSubsetOrdering(S))
  <2> HIDE DEF Rest
  <2> QED BY <1>2, <1>3, WFMin
<1>5. PICK D \in Bad : R = S \ D
  BY <1>4
<1>6. f[D] = IF Round(D, e) = D THEN D ELSE f[Round(D, e)]
  BY <1>5 DEF Saturation
<1>7. CASE Round(D, e) = D
  BY <1>5, <1>6, <1>7, LeastIsASolution
<1>8. CASE Round(D, e) # D
  <2> DEFINE E == Round(D, e)
  <2>1. E \in SUBSET S /\ D \subseteq E /\ E # D
    BY <1>5, <1>8, RoundItems, RoundStaysBelow
  <2>2. <<S \ E, S \ D>> \in StrictSubsetOrdering(S)
    <3>1. S \ E \subseteq S \ D /\ S \ E # S \ D
      BY <1>5, <2>1
    <3> HIDE DEF E, S
    <3> QED BY <3>1 DEF StrictSubsetOrdering
  <2>3. E \notin Bad
    BY <1>4, <1>5, <2>2
  <2>4. f[E] = Least(E, e)
    BY <2>1, <2>3
  <2> QED BY <1>5, <1>6, <1>8, <2>4, LeastIsASolution
<1> QED BY <1>7, <1>8

\* So saturation gives the least set that has the items and is closed at the earleme.
LEMMA SaturateIsLeast ==
    ASSUME NEW e \in Nat, NEW C \in SUBSET ItemsUpTo(e)
    PROVE  Saturate(C, e) = Least(C, e)
<1> DEFINE f == CHOOSE h : Saturation(h, e)
           l == [D \in SUBSET ItemsUpTo(e) |-> Least(D, e)]
<1>1. Saturation(l, e)
  <2>1. \A D \in SUBSET ItemsUpTo(e) :
            l[D] = IF Round(D, e) = D THEN D ELSE l[Round(D, e)]
    BY LeastIsASolution, RoundStaysBelow
  <2> QED BY <2>1, Zenon DEF Saturation
<1>2. Saturation(f, e)
  <2> HIDE DEF l
  <2> QED BY <1>1
<1>3. Saturate(C, e) = f[C]
  BY Zenon DEF Saturate, Saturation
<1> HIDE DEF f
<1> QED BY <1>2, <1>3, SaturationIsLeast

-----------------------------------------------------------------------------
(***************************************************************************)
(* The chart, one earleme after the other.                                 *)
(***************************************************************************)
Following(C, T, k) == Saturate(C \cup Scanned(C, T, k), k)

Charts(f, T, n) ==
    f = [k \in 0 .. n |-> IF k = 0 THEN Saturate({PredictItem(G.startRule, 0)}, 0)
                          ELSE Saturate(f[k - 1] \cup Scanned(f[k - 1], T, k), k)]

\* There is a chart for any number of earlemes.
LEMMA ChartsExist ==
    ASSUME NEW T, NEW size \in Nat
    PROVE  \E f : Charts(f, T, size)
<1> DEFINE N == {n \in Nat : \E f : Charts(f, T, n)}
           first == Saturate({PredictItem(G.startRule, 0)}, 0)
<1>1. 0 \in N
  <2>1. Charts([k \in 0 .. 0 |-> first], T, 0)
    BY DEF Charts
  <2> QED BY <2>1
<1>2. ASSUME NEW n \in Nat, n \in N PROVE n + 1 \in N
  <2>1. PICK f : Charts(f, T, n)
    BY <1>2
  <2> DEFINE g == [k \in 0 .. n + 1 |-> IF k = n + 1 THEN Following(f[n], T, n + 1) ELSE f[k]]
  <2>2. \A k \in 0 .. n + 1 : g[k] = IF k = 0 THEN first ELSE Following(g[k - 1], T, k)
    <3> HIDE DEF first
    <3> TAKE k \in 0 .. n + 1
    <3>1. CASE k = n + 1
      BY <3>1
    <3>2. CASE k # n + 1
      <4>1. k \in 0 .. n /\ g[k] = f[k] /\ (k # 0 => k - 1 \in 0 .. n /\ g[k - 1] = f[k - 1])
        BY <3>2
      <4>2. f[k] = IF k = 0 THEN first ELSE Following(f[k - 1], T, k)
        BY <2>1, <4>1 DEF Charts, Following, first
      <4> QED BY <4>1, <4>2
    <3> QED BY <3>1, <3>2
  <2>3. Charts(g, T, n + 1)
    BY <2>2, Zenon DEF Charts, Following
  <2> HIDE DEF g
  <2> QED BY <2>3
<1>3. Nat \subseteq N
  <2> HIDE DEF N
  <2> QED BY <1>1, <1>2, SetInduction
<1> QED BY <1>3

(* The recursive function of the chart exists: one set for each earleme. *)
LEMMA ChartByEarlemes ==
    ASSUME NEW T, NEW e \in Nat
    PROVE  \E f : Charts(f, T, e) /\ Chart(T, e) = f[e]
<1> DEFINE f == CHOOSE h : Charts(h, T, e)
<1>1. Charts(f, T, e)
  BY ChartsExist
<1>2. Chart(T, e) = f[e]
  BY Zenon DEF Chart, Charts
<1> HIDE DEF f
<1> QED BY <1>1, <1>2

\* What Earley's algorithm requires of a chart, for tokens that end at k or before.
TokensUpTo(T, k) == {t \in T : t.end <= k}
AreTokens(T) == \A t \in T : t.start \in Nat /\ t.end \in Nat /\ t.start < t.end

\* The chart of k earlemes is closed, and in every closed chart.
IsChartOf(C, T, k) ==
    /\ C \subseteq ItemsUpTo(k)
    /\ EarleyClosed(C, TokensUpTo(T, k))
    /\ \A X : EarleyClosed(X, T) => C \subseteq X

(* The recognizer and the reference make the same items. *)
LEMMA SameItems ==
    /\ \A r, e : PredictItem(r, e) = Prediction(r, e)
    /\ \A i, e : Shift(i, e) = Advance(i, e)
BY DEF PredictItem, Prediction, Shift, Advance

\* A closed chart is closed under each round and scan.
LEMMA ClosedHoldsRounds ==
    ASSUME NEW X, NEW T, EarleyClosed(X, T), NEW e \in Nat
    PROVE  /\ Round(X, e) \subseteq X
           /\ \A C \in SUBSET X : Scanned(C, T, e) \subseteq X
<1>1. Round(X, e) \subseteq X
  <2> SUFFICES ASSUME NEW x \in Round(X, e) PROVE x \in X
    OBVIOUS
  <2> QED BY RoundItems, SameItems DEF EarleyClosed
<1>2. ASSUME NEW C \in SUBSET X, NEW x \in Scanned(C, T, e) PROVE x \in X
  <2>1. PICK t \in T, i \in C : /\ t.end = e /\ i.at = t.start /\ PostdotIs(i.ahm, t.sym)
                               /\ x = Shift(i, e)
    BY DEF Scanned
  <2> QED BY <2>1, SameItems DEF EarleyClosed
<1> QED BY <1>1, <1>2

(* The least closed set is within every closed one. *)
LEMMA LeastIsBelow ==
    ASSUME NEW e \in Nat, NEW D \in SUBSET ItemsUpTo(e), NEW X, D \subseteq X,
           Round(X, e) \subseteq X
    PROVE  Least(D, e) \subseteq X
<1> DEFINE Y == X \cap ItemsUpTo(e)
<1>1. Y \in SUBSET ItemsUpTo(e) /\ D \subseteq Y
  OBVIOUS
<1>2. Round(Y, e) \subseteq X
  BY RoundIsMonotone
<1>3. Round(Y, e) \subseteq ItemsUpTo(e)
  BY RoundStaysBelow
<1>4. Round(Y, e) \subseteq Y
  BY <1>2, <1>3
<1>5. Least(D, e) \subseteq Y
  <2> HIDE DEF Y
  <2> QED BY <1>1, <1>4 DEF Least
<1> QED BY <1>5

\* The chart of earleme 0 is that of the start item.
LEMMA FirstChart ==
    ASSUME NEW T, AreTokens(T)
    PROVE  IsChartOf(Saturate({PredictItem(G.startRule, 0)}, 0), T, 0)
<1> DEFINE D == {PredictItem(G.startRule, 0)}
           C == Least(D, 0)
<1>1. PredictItem(G.startRule, 0) \in ItemsUpTo(0)
  BY FirstAhmType, RuleTypes DEF PredictItem, ItemsUpTo
<1>2. C \subseteq ItemsUpTo(0) /\ D \subseteq C /\ Round(C, 0) \subseteq C
  BY <1>1, LeastIsASolution
<1>3. TokensUpTo(T, 0) = {}
  BY DEF TokensUpTo, AreTokens
<1>4. \A i \in C : i.at = 0
  BY <1>2 DEF ItemsUpTo
<1>5. EarleyClosed(C, TokensUpTo(T, 0))
  <2> HIDE DEF C
  <2>1. Prediction(G.startRule, 0) \in C
    BY <1>2, SameItems
  <2>2. ASSUME NEW i \in C, NEW r \in Rule, PostdotIs(i.ahm, Lhs(r)), i.at = 0 => r \notin G.barred
        PROVE  Prediction(r, i.at) \in C
    BY <1>2, <1>4, <2>2, RoundItems, SameItems
  <2>3. ASSUME NEW i \in C, NEW c \in C, IsCompletion(c.ahm), i.at = c.origin,
               PostdotIs(i.ahm, LhsOf(c.ahm))
        PROVE  Advance(i, c.at) \in C
    BY <1>2, <1>4, <2>3, RoundItems, SameItems
  <2> QED BY <1>3, <2>1, <2>2, <2>3 DEF EarleyClosed
<1>6. ASSUME NEW X, EarleyClosed(X, T) PROVE C \subseteq X
  <2>1. D \subseteq X
    BY <1>6, SameItems DEF EarleyClosed
  <2>2. Round(X, 0) \subseteq X
    BY <1>6, ClosedHoldsRounds
  <2> HIDE DEF D
  <2> QED BY <1>1, <2>1, <2>2, LeastIsBelow DEF D
<1>7. IsChartOf(C, T, 0)
  BY <1>2, <1>5, <1>6 DEF IsChartOf
<1> QED BY <1>1, <1>7, SaturateIsLeast

\* The chart of one more earleme: what was there before stays as it is.
LEMMA NextChart ==
    ASSUME NEW T, AreTokens(T), NEW k \in Nat, NEW B, IsChartOf(B, T, k)
    PROVE  IsChartOf(Following(B, T, k + 1), T, k + 1)
<1> DEFINE e == k + 1
           D == B \cup Scanned(B, T, e)
           C == Least(D, e)
<1>1. B \subseteq ItemsUpTo(k) /\ EarleyClosed(B, TokensUpTo(T, k))
  BY DEF IsChartOf
<1>2. B \subseteq ItemsUpTo(e) /\ ItemsUpTo(k) \subseteq ItemsUpTo(e) /\ e \in Nat
  BY <1>1 DEF ItemsUpTo
<1>3. \A x \in Scanned(B, T, e) : x \in ItemsUpTo(e) /\ x.at = e
  <2> SUFFICES ASSUME NEW x \in Scanned(B, T, e) PROVE x \in ItemsUpTo(e) /\ x.at = e
    OBVIOUS
  <2>1. PICK t \in T, i \in B : PostdotIs(i.ahm, t.sym) /\ x = Shift(i, e)
    BY DEF Scanned
  <2>2. i.ahm \in Ahm /\ i.origin \in 0 .. e
    BY <1>2 DEF ItemsUpTo
  <2>3. NextAhm(i.ahm) \in Ahm
    BY <2>1, <2>2, NextAhmType DEF PostdotIs
  <2> QED BY <1>2, <2>1, <2>2, <2>3 DEF Shift, ItemsUpTo
<1>4. D \in SUBSET ItemsUpTo(e)
  BY <1>2, <1>3
<1>5. C \subseteq ItemsUpTo(e) /\ D \subseteq C /\ Round(C, e) \subseteq C
  BY <1>2, <1>4, LeastIsASolution
<1>6. \A x \in C : x.at # e => x \in B
  <2> DEFINE X == B \cup {x \in ItemsUpTo(e) : x.at = e}
  <2>1. D \subseteq X
    BY <1>3
  <2>2. X \in SUBSET ItemsUpTo(e)
    BY <1>2
  <2>3. Round(X, e) \subseteq ItemsUpTo(e)
    BY <1>2, <2>2, RoundStaysBelow
  <2>4. \A r : PredictItem(r, e).at = e
    BY DEF PredictItem
  <2>5. \A i : Shift(i, e).at = e
    BY DEF Shift
  <2>6. Round(X, e) \subseteq X
    <3> SUFFICES ASSUME NEW x \in Round(X, e) PROVE x \in X
      OBVIOUS
    <3>1. x \in X \/ x.at = e
      <4> HIDE DEF X
      <4> QED BY <2>4, <2>5, RoundItems
    <3> QED BY <2>3, <3>1
  <2>7. C \subseteq X
    <3> HIDE DEF X, D
    <3> QED BY <1>2, <1>4, <2>1, <2>6, LeastIsBelow DEF D
  <2> QED BY <2>7
<1>7. \A x \in C : x.at \in 0 .. e /\ x.origin \in 0 .. e
  BY <1>5 DEF ItemsUpTo
<1>8. \A x \in B : x.at \in 0 .. k /\ x.origin \in 0 .. k
  BY <1>1 DEF ItemsUpTo
<1>9. B \subseteq C /\ Scanned(B, T, e) \subseteq C
  BY <1>5
<1> HIDE DEF C, D
<1>10. EarleyClosed(C, TokensUpTo(T, e))
  <2>1. Prediction(G.startRule, 0) \in C
    BY <1>1, <1>9 DEF EarleyClosed
  <2>2. ASSUME NEW i \in C, NEW r \in Rule, PostdotIs(i.ahm, Lhs(r)), i.at = 0 => r \notin G.barred
        PROVE  Prediction(r, i.at) \in C
    <3>1. CASE i.at = e
      BY <1>5, <2>2, <3>1, RoundItems, SameItems
    <3>2. CASE i.at # e
      <4>1. i \in B
        BY <1>6, <3>2
      <4> QED BY <1>1, <1>9, <2>2, <4>1 DEF EarleyClosed
    <3> QED BY <3>1, <3>2
  <2>3. ASSUME NEW i \in C, NEW t \in TokensUpTo(T, e), i.at = t.start, PostdotIs(i.ahm, t.sym)
        PROVE  Advance(i, t.end) \in C
    <3>1. t \in T /\ t.end \in Nat /\ t.start \in Nat /\ t.start < t.end /\ t.end <= e
      BY DEF TokensUpTo, AreTokens
    <3>2. i \in B
      BY <1>6, <2>3, <3>1
    <3>3. CASE t.end = e
      <4>1. Shift(i, e) \in Scanned(B, T, e)
        BY <2>3, <3>1, <3>2, <3>3 DEF Scanned
      <4> QED BY <1>9, <3>3, <4>1, SameItems
    <3>4. CASE t.end # e
      <4>1. t \in TokensUpTo(T, k)
        BY <3>1, <3>4 DEF TokensUpTo
      <4> QED BY <1>1, <1>9, <2>3, <3>2, <4>1 DEF EarleyClosed
    <3> QED BY <3>3, <3>4
  <2>4. ASSUME NEW i \in C, NEW c \in C, IsCompletion(c.ahm), i.at = c.origin,
               PostdotIs(i.ahm, LhsOf(c.ahm))
        PROVE  Advance(i, c.at) \in C
    <3>1. CASE c.at = e
      BY <1>5, <2>4, <3>1, RoundItems, SameItems
    <3>2. CASE c.at # e
      <4>1. c \in B
        BY <1>6, <3>2
      <4>2. i.at # e
        BY <1>8, <2>4, <4>1
      <4>3. i \in B
        BY <1>6, <4>2
      <4> QED BY <1>1, <1>9, <2>4, <4>1, <4>3 DEF EarleyClosed
    <3> QED BY <3>1, <3>2
  <2> QED BY <2>1, <2>2, <2>3, <2>4 DEF EarleyClosed
<1>11. ASSUME NEW X, EarleyClosed(X, T) PROVE C \subseteq X
  <2>1. B \subseteq X
    BY <1>11 DEF IsChartOf
  <2>2. D \subseteq X
    BY <1>11, <2>1, ClosedHoldsRounds DEF D
  <2>3. Round(X, e) \subseteq X
    BY <1>2, <1>11, ClosedHoldsRounds
  <2> QED BY <1>2, <1>4, <2>2, <2>3, LeastIsBelow DEF C
<1>12. IsChartOf(C, T, e)
  BY <1>5, <1>10, <1>11 DEF IsChartOf
<1>13. Following(B, T, e) = C
  BY <1>2, <1>4, SaturateIsLeast DEF Following, C, D
<1> QED BY <1>12, <1>13

\* The chart of e earlemes, of tokens that may end later.
LEMMA ChartIsOf ==
    ASSUME NEW T, AreTokens(T), NEW e \in Nat
    PROVE  IsChartOf(Chart(T, e), T, e)
<1>1. PICK f : Charts(f, T, e) /\ Chart(T, e) = f[e]
  BY ChartByEarlemes
<1> DEFINE N == {k \in Nat : k <= e => IsChartOf(f[k], T, k)}
<1>2. 0 \in N
  <2>1. f[0] = Saturate({PredictItem(G.startRule, 0)}, 0)
    BY <1>1 DEF Charts
  <2> QED BY <2>1, FirstChart
<1>3. ASSUME NEW k \in Nat, k \in N PROVE k + 1 \in N
  <2> SUFFICES ASSUME k + 1 <= e PROVE IsChartOf(f[k + 1], T, k + 1)
    OBVIOUS
  <2>1. IsChartOf(f[k], T, k)
    BY <1>3
  <2>2. f[k + 1] = Following(f[k], T, k + 1)
    <3>1. \A n \in 0 .. e : n # 0 => f[n] = Following(f[n - 1], T, n)
      <4> TAKE n \in 0 .. e
      <4> QED BY <1>1, Zenon DEF Charts, Following
    <3>2. k + 1 \in 0 .. e /\ k + 1 # 0 /\ (k + 1) - 1 = k
      OBVIOUS
    <3> QED BY <3>1, <3>2
  <2> QED BY <2>1, <2>2, NextChart
<1>4. Nat \subseteq N
  <2> HIDE DEF N
  <2> QED BY <1>2, <1>3, SetInduction
<1> QED BY <1>1, <1>4

\* The chart of the reference is the least that has what Earley's algorithm requires
\* of it, for any finite grammar and any tokens.
THEOREM ChartIsLeast ==
    ASSUME NEW T, AreTokens(T), NEW e \in Nat, \A t \in T : t.end <= e
    PROVE  /\ Chart(T, e) \subseteq ItemsUpTo(e)
           /\ EarleyClosed(Chart(T, e), T)
           /\ \A X : EarleyClosed(X, T) => Chart(T, e) \subseteq X
<1>1. IsChartOf(Chart(T, e), T, e)
  BY ChartIsOf
<1>2. TokensUpTo(T, e) = T
  BY DEF TokensUpTo
<1> QED BY <1>1, <1>2 DEF IsChartOf

-----------------------------------------------------------------------------
(***************************************************************************)
(* The chart of the recognizer lies between the reference and the          *)
(* reference without what Leo items hide.                                  *)
(***************************************************************************)

\* A call of earleme_complete succeeds during input only.
CompletedDuringInput ==
    phase = "before" => ~ (ret[1] = "earleme_complete" /\ ret[2] = "NONE")

RefinementInv ==
    /\ SpanInv /\ PredictInv /\ LeoInv /\ DoneInv /\ LimsHide
    /\ ItemsAreSound /\ ChartIsComplete /\ CompletedDuringInput

(* An earleme is only completed during input. *)
LEMMA CompletedStep ==
    ASSUME TypeInv, CompletedDuringInput, [Next]_vars
    PROVE  CompletedDuringInput'
<1> SUFFICES ASSUME phase' = "before" PROVE ~ (ret'[1] = "earleme_complete" /\ ret'[2] = "NONE")
  BY DEF CompletedDuringInput
<1>1. CASE UNCHANGED vars
  BY <1>1 DEF vars, CompletedDuringInput
<1>2. CASE SettingCall
  <2>1. \E call \in {"use_leo_set", "activate", "expected_symbol_event_set"} :
          \E code, value :
            Returned(call, code, value)
    <3>1. ASSUME NEW value \in BOOLEAN, UseLeoSet(value) PROVE \E code, v : Returned("use_leo_set", code, v)
      BY <3>1, Zenon DEF UseLeoSet
    <3>2. ASSUME NEW kind, NEW x, Activate(kind, x) \/ Deactivate(kind, x)
          PROVE  \E code, v : Returned("activate", code, v)
      BY <3>2, Zenon DEF Activate, Deactivate
    <3>3. ASSUME NEW x, NEW value, ExpectedEventSet(x, value)
          PROVE  \E code, v : Returned("expected_symbol_event_set", code, v)
      BY <3>3, Zenon DEF ExpectedEventSet
    <3> QED BY <1>2, <3>1, <3>2, <3>3 DEF SettingCall
  <2> QED BY <2>1 DEF Returned
<1>3. CASE StartInput \/ StartInputAgain
  BY <1>3 DEF StartInput, StartInputAgain
<1>4. CASE Alternative
  BY <1>4 DEF Alternative, RefuseToken, RejectToken, InsertToken, Returned
<1>5. CASE EarlemeComplete
  <2>1. CASE CompleteRefused
    BY <2>1 DEF CompleteRefused, Returned
  <2>2. CASE CompletePastFurthest \/ CompleteGap \/ BeginEarleySet
    BY <2>2 DEF CompletePastFurthest, CompleteGap, BeginEarleySet
  <2> QED BY <1>5, <2>1, <2>2 DEF EarlemeComplete
<1>6. CASE InternalStep
  <2>1. pc # "idle"
    BY <1>6 DEF InternalStep, ScanToken, EndScan, CompleteByLeo, CompleteByEarley,
                PredictAndPostdot, PopulateLim, EndEarleySet
  <2>2. phase = "during"
    BY <2>1 DEF TypeInv, BuiltDuringInput
  <2> QED
    BY <1>6, <2>2 DEF InternalStep, ScanToken, EndScan, CompleteByLeo, CompleteByEarley,
                PredictAndPostdot, PopulateLim, EndEarleySet
<1> QED BY <1>1, <1>2, <1>3, <1>4, <1>5, <1>6 DEF Next

(* What the comparison of the two charts needs holds in every state. *)
LEMMA RefinementInvariant == Spec => []RefinementInv
<1>1. Init => DoneInv /\ LimsHide /\ CompletedDuringInput
  BY DoneInit, HideInit DEF Init, CompletedDuringInput
<1>2. SpanInv /\ DoneInv /\ LimsHide /\ CompletedDuringInput /\ [Next]_vars
        => DoneInv' /\ LimsHide' /\ CompletedDuringInput'
  BY DoneStep, HideStep, CompletedStep DEF SpanInv, InputInv
<1> QED
  BY <1>1, <1>2, LeoCorrect, ChartIsSound, ChartComplete, PTL DEF Spec, RefinementInv

\* Between calls all tokens up to the current earleme have been scanned.
LEMMA TokensScanned ==
    ASSUME InputInv, pc # "scan"
    PROVE  TokensDone = ScannedTokens
BY TokenTypes DEF InputInv, TypeInv, TypeOK, PendingTokens, TokensDone, ScannedTokens

\* No item that a Leo item hides completes the start rule.
LEMMA HiddenRules ==
    ASSUME SpanInv, LeoInv, LimsHide, NEW c \in Hidden
    PROVE  IsCompletion(c.ahm) /\ RuleOf(c.ahm) # G.startRule
<1>1. PICK l \in lims, j \in items :
          PredecessorOf(l) # {} /\ c = Advance(l.base, j.at) /\ LhsOf(c.ahm) = LhsOf(l.base.ahm)
  BY HiddenItems
<1>2. PICK p \in PredecessorOf(l) : TRUE
  BY <1>1
<1>3. p.base \in Pims(p.at, p.sym) /\ p.sym = LhsOf(l.base.ahm)
  BY <1>2 DEF PredecessorOf, LimsFor, LeoInv, LimsAlone
<1>4. p.base \in items /\ p.base.ahm \in Ahm /\ PostdotIs(p.base.ahm, LhsOf(c.ahm))
  BY <1>1, <1>3, ItemTypes DEF Pims, SpanInv, InputInv, TypeInv, TypeOK
<1>5. \A a \in Ahm : ~ PostdotIs(a, Lhs(G.startRule))
  <2> SUFFICES ASSUME NEW a \in Ahm, PostdotIs(a, Lhs(G.startRule)) PROVE FALSE
    OBVIOUS
  <2>1. RuleOf(a) \in Rule /\ a[2] + 1 \in 1 .. Len(Rhs(RuleOf(a)))
    BY AhmTypes, RuleTypes DEF PostdotIs, IsCompletion
  <2> QED BY <2>1, GrammarAssumption DEF PostdotIs, Rule, Lhs, Rhs
<1>6. IsCompletion(c.ahm)
  BY HiddenItems
<1> QED BY <1>4, <1>5, <1>6 DEF LhsOf

(* Between calls the chart lies between the reference and what Leo items hide of it. *)
LEMMA ChartsAgree ==
    ASSUME RefinementInv, pc = "idle", phase # "before"
    PROVE  /\ items \subseteq ReferenceChart
           /\ ReferenceChart \subseteq items \cup Hidden
<1>1. TokensDone = ScannedTokens
  BY TokensScanned DEF RefinementInv, SpanInv
<1>2. current \in Nat
  BY DEF RefinementInv, SpanInv, InputInv, TypeInv, TypeOK
<1>3. AreTokens(ScannedTokens) /\ \A t \in ScannedTokens : t.end <= current
  BY DEF RefinementInv, DoneInv, TokensProcessed, AreTokens
<1>4. /\ ReferenceChart \subseteq ItemsUpTo(current)
      /\ EarleyClosed(ReferenceChart, ScannedTokens)
      /\ \A X : EarleyClosed(X, ScannedTokens) => ReferenceChart \subseteq X
  BY <1>1, <1>2, <1>3, ChartIsLeast DEF ReferenceChart
<1>5. ReferenceChart \subseteq Item
  BY <1>2, <1>4 DEF ItemsUpTo, Item
<1> QED BY <1>4, <1>5 DEF RefinementInv, ItemsAreSound, ChartIsComplete

\* Whatever the grammar, the tokens and the order of the work, the chart is that of
\* Earley's algorithm without completions that Leo items skip, and none of these
\* completes the start rule.
THEOREM ItemsAreThoseOfEarley == Spec => []ItemsAreEarley
<1>1. RefinementInv => ItemsAreEarley
  <2> SUFFICES ASSUME RefinementInv, pc = "idle", ret[1] = "earleme_complete", ret[2] = "NONE"
               PROVE  /\ items \subseteq ReferenceChart
                      /\ \A i \in ReferenceChart \ items :
                            IsCompletion(i.ahm) /\ RuleOf(i.ahm) # G.startRule
    BY DEF ItemsAreEarley
  <2>1. phase # "before"
    BY DEF RefinementInv, CompletedDuringInput
  <2> QED BY <2>1, ChartsAgree, HiddenRules DEF RefinementInv
<1> QED BY <1>1, RefinementInvariant, PTL

-----------------------------------------------------------------------------
(***************************************************************************)
(* What the recognizer expects.                                            *)
(***************************************************************************)
SetsArePast == \A e \in sets : e <= current

\* Between calls the terminals expected are those of the last Earley set, if it is
\* that of the current earleme.
ExpectedHere ==
    pc = "idle" /\ current \in sets => expected = PostdotSymbols(AtCurrent) \cap TerminalNsy

\* A call that builds an Earley set builds that of the current earleme.
SetBegun == pc # "idle" => current \in sets

\* Only terminals can be tokens.
OnlyTerminals == canBeValued \subseteq G.terminal /\ canBeUnvalued \subseteq G.terminal

ExpectedInv == SetsArePast /\ ExpectedHere /\ SetBegun /\ OnlyTerminals

\* A symbol that may be a token is a terminal.
LEMMA AcceptedTerminal ==
    ASSUME OnlyTerminals, NEW x, NEW value \in {0, 1}, NEW length \in Int,
           Refusal(x, value, length) = "NONE"
    PROVE  /\ x \in G.terminal /\ x \in Xsy /\ length > 0 /\ phase = "during"
           /\ MarkValue(x, value) => OnlyTerminals'
<1>1. x \in G.terminal
  BY DEF Refusal, CanHave, OnlyTerminals
<1>2. x \in Xsy /\ length > 0 /\ phase = "during"
  BY DEF Refusal
<1> QED BY <1>1, <1>2 DEF MarkValue, OnlyTerminals

\* Before input nothing is expected.
LEMMA ExpectedInit == Init => ExpectedInv
BY DEF Init, ExpectedInv, SetsArePast, ExpectedHere, SetBegun, OnlyTerminals

\* Each step keeps ExpectedInv.
LEMMA ExpectedStep ==
    ASSUME TypeInv, ExpectedInv, [Next]_vars
    PROVE  ExpectedInv'
<1> USE DEF inputVars, chartVars, valueVars
<1>0. ASSUME UNCHANGED <<current, sets, items, expected, valueVars>>, pc' = pc
      PROVE  ExpectedInv'
  BY <1>0 DEF ExpectedInv, SetsArePast, ExpectedHere, SetBegun, OnlyTerminals, AtCurrent
<1>1. CASE UNCHANGED vars
  BY <1>0, <1>1 DEF vars
<1>2. CASE SettingCall
  BY <1>0, <1>2 DEF SettingCall, UseLeoSet, Activate, Deactivate, ExpectedEventSet
<1>3. CASE StartInputAgain \/ CompleteRefused
  BY <1>0, <1>3 DEF StartInputAgain, CompleteRefused
<1>4. CASE StartInput
  <2>1. \A i \in StartItems : i.at = 0
    BY DEF StartItems, Prediction
  <2>2. AtCurrent' = StartItems
    BY <1>4, <2>1 DEF StartInput, AtCurrent
  <2>3. OnlyTerminals'
    BY <1>4 DEF StartInput, OnlyTerminals
  <2> QED BY <1>4, <2>2, <2>3 DEF StartInput, ExpectedInv, SetsArePast, ExpectedHere, SetBegun
<1>5. ASSUME NEW x \in Xsy \cup {NoSymbol}, NEW value \in TokenValues, NEW length \in Lengths,
             RefuseToken(x, value, length) \/ RejectToken(x, value, length)
               \/ InsertToken(x, value, length)
      PROVE  ExpectedInv'
  <2>1. CASE RefuseToken(x, value, length)
    BY <1>0, <2>1 DEF RefuseToken
  <2>2. CASE RejectToken(x, value, length) \/ InsertToken(x, value, length)
    <3>1. Refusal(x, value, length) = "NONE" /\ MarkValue(x, value)
      BY <2>2 DEF RejectToken, InsertToken
    <3>2. OnlyTerminals'
      BY <3>1, AcceptedTerminal, RecognizerAssumption DEF ExpectedInv
    <3>3. UNCHANGED <<current, sets, items, expected, pc>>
      BY <2>2 DEF RejectToken, InsertToken
    <3> QED BY <3>2, <3>3 DEF ExpectedInv, SetsArePast, ExpectedHere, SetBegun, AtCurrent
  <2> QED BY <1>5, <2>1, <2>2
<1>6. CASE CompletePastFurthest \/ CompleteGap \/ BeginEarleySet
  <2>1. current \in Int /\ current' = current + 1 /\ UNCHANGED valueVars
    BY <1>6 DEF TypeInv, TypeOK, CompletePastFurthest, CompleteGap, BeginEarleySet
  <2>2. /\ sets' \subseteq sets \cup {current + 1}
        /\ pc' # "idle" \/ sets' = sets
    BY <1>6 DEF CompletePastFurthest, CompleteGap, BeginEarleySet
  <2>3. \A e \in sets : e \in Nat /\ e <= current
    BY DEF ExpectedInv, SetsArePast, TypeInv, TypeOK
  <2>4. SetsArePast'
    BY <2>1, <2>2, <2>3 DEF SetsArePast
  <2>5. ExpectedHere'
    BY <2>1, <2>2, <2>3 DEF ExpectedHere
  <2>6. SetBegun'
    BY <1>6 DEF CompletePastFurthest, CompleteGap, BeginEarleySet, SetBegun
  <2> QED BY <2>1, <2>4, <2>5, <2>6 DEF ExpectedInv, OnlyTerminals
<1>7. CASE EndEarleySet
  BY <1>7 DEF EndEarleySet, ExpectedInv, SetsArePast, ExpectedHere, SetBegun, OnlyTerminals, AtCurrent
<1>8. CASE InternalStep /\ ~ EndEarleySet
  <2>1. UNCHANGED <<current, sets, valueVars>> /\ pc # "idle" /\ pc' # "idle"
    BY <1>8 DEF InternalStep, ScanToken, EndScan, CompleteByLeo, CompleteByEarley,
                PredictAndPostdot, PopulateLim
  <2> QED BY <2>1 DEF ExpectedInv, SetsArePast, ExpectedHere, SetBegun, OnlyTerminals
<1> QED
  BY <1>1, <1>2, <1>3, <1>4, <1>5, <1>6, <1>7, <1>8
  DEF Next, Alternative, EarlemeComplete
-----------------------------------------------------------------------------
(***************************************************************************)
(* The recognizer implements the parser.                                   *)
(***************************************************************************)

\* The parser has the same reference chart.
LEMMA SameChart ==
    /\ \A T, e : Parser!Chart(T, e) = Chart(T, e)
    /\ \A C, e : Parser!ExpectedIn(C, e) = ExpectedIn(C, e)
<1> USE DEF Parser!Symbol, Symbol, Parser!Xsy, Xsy, Parser!Rule, Rule, Parser!Lhs, Lhs,
            Parser!Rhs, Rhs, Parser!Ahm, Ahm, Parser!RuleOf, RuleOf, Parser!LhsOf, LhsOf,
            Parser!IsCompletion, IsCompletion, Parser!PostdotIs, PostdotIs,
            Parser!NextAhm, NextAhm, Parser!FirstAhm, FirstAhm,
            Parser!PredictItem, PredictItem, Parser!Shift, Shift
<1>1. \A C, e : Parser!Round(C, e) = Round(C, e)
  BY Zenon DEF Parser!Round, Round
<1>2. \A C, T, e : Parser!Scanned(C, T, e) = Scanned(C, T, e)
  BY Zenon DEF Parser!Scanned, Scanned
<1>3. \A e : Parser!ItemsUpTo(e) = ItemsUpTo(e)
  BY Zenon DEF Parser!ItemsUpTo, ItemsUpTo
<1>4. \A C, e : Parser!Saturate(C, e) = Saturate(C, e)
  BY Zenon DEF Parser!Saturate, Saturate, Parser!Round, Round, Parser!ItemsUpTo, ItemsUpTo
<1>5. \A T, e : Parser!Chart(T, e) = Chart(T, e)
  BY Zenon DEF Parser!Chart, Chart, Parser!Saturate, Saturate, Parser!Round, Round,
               Parser!ItemsUpTo, ItemsUpTo, Parser!Scanned, Scanned
<1>6. \A C, e : Parser!ExpectedIn(C, e) = ExpectedIn(C, e)
  BY Zenon DEF Parser!ExpectedIn, ExpectedIn, Parser!TerminalNsy, TerminalNsy
<1> QED BY <1>5, <1>6

\* Between calls the terminals expected at an Earley set are those of the reference.
ExpectsReference ==
    pc = "idle" /\ phase # "before" /\ current \in sets =>
        expected = ExpectedIn(ReferenceChart, current)

(* The symbols that a set expects are those of the reference, because *)
(* hidden items are complete and expect nothing.                      *)
LEMMA ExpectedAgree ==
    ASSUME RefinementInv, ExpectedInv PROVE ExpectsReference
<1> SUFFICES ASSUME pc = "idle", phase # "before", current \in sets
             PROVE  expected = ExpectedIn(ReferenceChart, current)
  BY DEF ExpectsReference
<1>1. expected = PostdotSymbols(AtCurrent) \cap TerminalNsy
  BY DEF ExpectedInv, ExpectedHere
<1>2. items \subseteq ReferenceChart /\ ReferenceChart \subseteq items \cup Hidden
  BY ChartsAgree
<1>3. \A c \in Hidden : \A s : ~ PostdotIs(c.ahm, s)
  BY HiddenItems DEF RefinementInv
<1>4. TerminalNsy \subseteq Symbol
  BY GrammarAssumption DEF TerminalNsy, Symbol
<1>5. \A s : (\E i \in AtCurrent : PostdotIs(i.ahm, s))
                <=> (\E i \in ReferenceChart : i.at = current /\ PostdotIs(i.ahm, s))
  BY <1>2, <1>3 DEF AtCurrent
<1> QED BY <1>1, <1>4, <1>5 DEF ExpectedIn, PostdotSymbols

ParserInv == RefinementInv /\ ExpectedInv /\ ExpectsReference

(* The last answer of the recognizer is that of the parser, in every state. *)
LEMMA ParserInvariant == Spec => []ParserInv
<1>1. RefinementInv => TypeInv
  BY DEF RefinementInv, SpanInv, InputInv
<1>2. TypeInv /\ ExpectedInv /\ [Next]_vars => ExpectedInv'
  BY ExpectedStep
<1>3. RefinementInv /\ ExpectedInv => ExpectsReference
  BY ExpectedAgree
<1> QED BY <1>1, <1>2, <1>3, ExpectedInit, RefinementInvariant, PTL DEF Spec, ParserInv

PendingNow == {a \in alternatives : a.end > current}

\* A step that leaves the input, the tokens and what is expected alone is no step of
\* the parser.
LEMMA ParserStutters ==
    ASSUME UNCHANGED <<phase, pc, current, alternatives, tokenLinks, expected>>
    PROVE  UNCHANGED Parser!parserVars
BY DEF Parser!parserVars, TokensDone

\* The start of input.
LEMMA ParserStart ==
    ASSUME ParserInv, ParserInv', StartInput PROVE Parser!Start
<1>1. phase = "before" /\ alternatives = {} /\ tokenLinks = {}
  BY DEF StartInput, ParserInv, RefinementInv, SpanInv, InputInv, TypeInv, NothingBefore
<1>2. UNCHANGED <<pc, alternatives, tokenLinks>>
  BY DEF StartInput, linkVars
<1>3. TokensDone' = {} /\ TokensDone = {}
  BY <1>1, <1>2 DEF TokensDone
<1>4. phase' = "during" /\ pc' = "idle" /\ current' = 0 /\ sets' = {0}
  BY DEF StartInput
<1>5. expected' = ExpectedIn(Chart({}, 0), 0)
  BY <1>3, <1>4 DEF ParserInv, ExpectsReference, ReferenceChart
<1>6. expected' = Parser!ExpectedIn(Parser!Chart({}, 0), 0)
  BY <1>5, SameChart
<1> QED BY <1>1, <1>2, <1>3, <1>4, <1>6 DEF Parser!Start

\* A token that is taken is one that the parser reads.
LEMMA ParserReads ==
    ASSUME ParserInv, NEW x \in Xsy \cup {NoSymbol}, NEW value \in TokenValues,
           NEW length \in Lengths, InsertToken(x, value, length)
    PROVE  \/ \E token \in PendingNow' : Parser!Read(token)
           \/ UNCHANGED Parser!parserVars
<1>1. UNCHANGED <<phase, pc, current, expected, tokenLinks>> /\ pc = "idle"
  BY DEF InsertToken, chartVars, linkVars
<1>2. CASE alternatives' = alternatives
  BY <1>1, <1>2, ParserStutters
<1>3. CASE alternatives' # alternatives
  <2>0. TypeInv /\ Refusal(x, value, length) = "NONE" /\ Rejection(x, length) = "NONE"
    BY DEF InsertToken, ParserInv, RefinementInv, SpanInv, InputInv
  <2>1. /\ x \in Xsy /\ x \in G.terminal /\ phase = "during" /\ current \in Nat
        /\ length \in Nat /\ length >= 1
    BY <2>0, TokenChecks, AcceptedTerminal, RecognizerAssumption DEF ParserInv, ExpectedInv
  <2>2. /\ G.nsyOf[x] \in Symbol /\ current \in sets /\ Pims(current, G.nsyOf[x]) # {}
    BY <2>0, <2>1, PassedChecks
  <2>3. G.nsyOf[x] \in expected
    <3>1. G.nsyOf[x] \in TerminalNsy
      BY <2>1, <2>2, GrammarAssumption DEF TerminalNsy, Symbol
    <3>2. G.nsyOf[x] \in PostdotSymbols(AtCurrent)
      BY <2>2 DEF PostdotSymbols, AtCurrent, Pims
    <3> QED BY <1>1, <2>2, <3>1, <3>2 DEF ParserInv, ExpectedInv, ExpectedHere
  <2>4. PICK token : token = TokenOf(x, value, length)
    OBVIOUS
  <2>5. token.sym = G.nsyOf[x] /\ token.start = current /\ token.end = current + length
    BY <2>4 DEF TokenOf
  <2>6. alternatives' = alternatives \cup {token}
    BY <1>3, <2>4 DEF InsertToken
  <2>7. token.end > current
    BY <2>1, <2>5
  <2>8. PendingNow' = PendingNow \cup {token} /\ token \in PendingNow'
    BY <1>1, <2>6, <2>7 DEF PendingNow
  <2>9. TokensDone' = TokensDone
    <3>1. ~ (token.end <= current)
      BY <2>1, <2>5
    <3> QED BY <1>1, <2>6, <3>1 DEF TokensDone
  <2>10. Parser!Read(token)
    BY <1>1, <2>1, <2>3, <2>5, <2>7, <2>8, <2>9 DEF Parser!Read, PendingNow
  <2> QED BY <2>8, <2>10
<1> QED BY <1>2, <1>3

\* No token ends before the current earleme between calls.
LEMMA PendingAhead ==
    ASSUME ParserInv, pc = "idle"
    PROVE  /\ \A a \in alternatives : a.end \in Nat /\ a.end > current
           /\ PendingNow = alternatives /\ current \in Int /\ furthest \in Nat
           /\ TokensDone = {k.token : k \in tokenLinks}
<1>1. \A a \in alternatives : a.end \in Nat /\ a.end > current
  BY TokenTypes DEF ParserInv, RefinementInv, SpanInv, InputInv, PendingTokens
<1>2. current \in Int /\ furthest \in Nat
  BY DEF ParserInv, RefinementInv, SpanInv, InputInv, TypeInv, TypeOK
<1> QED BY <1>1, <1>2 DEF PendingNow, TokensDone

\* An earleme where no token ends is passed; the parse ends past the last one.
LEMMA ParserPasses ==
    ASSUME ParserInv, CompletePastFurthest \/ CompleteGap PROVE Parser!Pass
<1>1. /\ pc = "idle" /\ phase = "during" /\ current' = current + 1 /\ expected' = {}
      /\ UNCHANGED <<pc, furthest, alternatives, tokenLinks>>
  BY DEF CompletePastFurthest, CompleteGap, linkVars
<1>2. /\ \A a \in alternatives : a.end \in Nat /\ a.end > current
      /\ PendingNow = alternatives /\ current \in Int /\ furthest \in Nat
      /\ TokensDone = {k.token : k \in tokenLinks}
  BY <1>1, PendingAhead
<1>3. InputInv
  BY DEF ParserInv, RefinementInv, SpanInv
<1>4. CASE CompletePastFurthest
  <2>1. alternatives = {}
    BY <1>2, <1>3, <1>4 DEF CompletePastFurthest, InputInv, PendingTokens
  <2>2. phase' = "after"
    BY <1>4 DEF CompletePastFurthest
  <2>3. TokensDone' = TokensDone /\ Parser!Due = {}
    BY <1>1, <2>1 DEF TokensDone, Parser!Due
  <2> QED BY <1>1, <2>1, <2>2, <2>3 DEF Parser!Pass
<1>5. CASE CompleteGap
  <2>1. phase' = phase /\ ~ EarlemeIsDue /\ current + 1 <= furthest
    BY <1>5 DEF CompleteGap
  <2>2. \A a \in alternatives : a.end > current + 1
    BY <1>1, <1>3, <2>1, DueIsTop
  <2>3. PICK a \in alternatives : a.end = furthest
    BY <1>1, <1>2, <1>3, <2>1 DEF InputInv, FurthestIsBacked
  <2>4. PendingNow # {}
    BY <1>2, <2>3
  <2>5. Parser!Due = {}
    BY <1>2, <2>2 DEF Parser!Due
  <2>6. TokensDone' = TokensDone /\ PendingNow' = PendingNow
    BY <1>1, <1>2, <2>2 DEF TokensDone, PendingNow
  <2> QED BY <1>1, <2>1, <2>4, <2>5, <2>6 DEF Parser!Pass, PendingNow
<1> QED BY <1>4, <1>5

\* A new Earley set takes the tokens that end at its earleme.
LEMMA ParserBegins ==
    ASSUME ParserInv, BeginEarleySet PROVE Parser!Begin
<1>1. /\ pc = "idle" /\ phase = "during" /\ current' = current + 1 /\ expected' = {}
      /\ pc' = "scan" /\ UNCHANGED <<phase, alternatives, tokenLinks>>
  BY DEF BeginEarleySet, linkVars
<1>2. /\ \A a \in alternatives : a.end \in Nat /\ a.end > current
      /\ PendingNow = alternatives /\ current \in Int
      /\ TokensDone = {k.token : k \in tokenLinks}
  BY <1>1, PendingAhead
<1>3. PICK due : due = {a \in alternatives : a.end = current + 1}
  OBVIOUS
<1>4. due # {}
  BY <1>3 DEF BeginEarleySet, EarlemeIsDue
<1>5. Parser!Due = due
  BY <1>2, <1>3 DEF Parser!Due
<1>6. PendingNow' = PendingNow \ due
  BY <1>1, <1>2, <1>3 DEF PendingNow
<1>7. TokensDone' = TokensDone \cup due
  <2>1. \A a \in alternatives : a.end <= current + 1 <=> a \in due
    BY <1>2, <1>3
  <2> QED BY <1>1, <1>2, <1>3, <2>1 DEF TokensDone
<1> QED BY <1>1, <1>4, <1>5, <1>6, <1>7 DEF Parser!Begin, PendingNow

\* A token that is scanned has been read already.
LEMMA ParserScans ==
    ASSUME ParserInv, NEW a \in alternatives, ScanToken(a)
    PROVE  UNCHANGED Parser!parserVars
<1>1. UNCHANGED <<phase, pc, current, expected>> /\ pc = "scan" /\ a.end <= current
  BY DEF ScanToken
<1>2. alternatives' = alternatives \ {a}
  BY DEF ScanToken
<1>3. Pims(a.start, a.sym) # {}
  BY DEF ParserInv, RefinementInv, SpanInv, InputInv, PendingTokens
<1>4. a.end \in Nat /\ current \in Int
  BY TokenTypes DEF ParserInv, RefinementInv, SpanInv, InputInv, TypeInv, TypeOK
<1>5. {k.token : k \in tokenLinks'} = {k.token : k \in tokenLinks} \cup {a}
  <2> DEFINE new == {[effect |-> Advance(i, current), pred |-> i, token |-> a] :
                        i \in Pims(a.start, a.sym)}
  <2>1. tokenLinks' = tokenLinks \cup new
    BY DEF ScanToken
  <2>2. PICK i \in Pims(a.start, a.sym) : TRUE
    BY <1>3
  <2>3. [effect |-> Advance(i, current), pred |-> i, token |-> a] \in new
    OBVIOUS
  <2>4. \A k \in new : k.token = a
    OBVIOUS
  <2> HIDE DEF new
  <2> QED BY <2>1, <2>3, <2>4
<1>6. TokensDone' = TokensDone
  BY <1>1, <1>2, <1>5 DEF TokensDone
<1>7. PendingNow' = PendingNow
  BY <1>1, <1>2, <1>4 DEF PendingNow
<1> QED BY <1>1, <1>6, <1>7 DEF Parser!parserVars, PendingNow

\* The end of an Earley set finds what the reference expects there.
LEMMA ParserFinishes ==
    ASSUME ParserInv, ParserInv', EndEarleySet PROVE Parser!Finish
<1>1. /\ pc = "leo" /\ pc' = "idle" /\ phase = "during"
      /\ UNCHANGED <<current, alternatives, tokenLinks, sets>> /\ current \in sets
  BY CurrentType DEF EndEarleySet, inputVars, linkVars, ParserInv, RefinementInv, SpanInv,
                     InputInv, ExpectedInv, SetBegun
<1>2. TokensDone' = TokensDone
  BY <1>1 DEF TokensDone
<1>3. phase' # "before"
  BY <1>1 DEF EndEarleySet
<1>4. expected' = ExpectedIn(Chart(TokensDone, current), current)
  BY <1>1, <1>2, <1>3 DEF ParserInv, ExpectsReference, ReferenceChart
<1>5. PendingNow = alternatives
  BY <1>1 DEF ParserInv, RefinementInv, SpanInv, InputInv, PendingTokens, PendingNow
<1>6. phase' = IF PendingNow = {} /\ expected' = {} THEN "after" ELSE "during"
  BY <1>1, <1>5 DEF EndEarleySet, NothingLeft
<1>7. expected' = Parser!ExpectedIn(Parser!Chart(TokensDone, current), current)
  BY <1>4, SameChart
<1> QED BY <1>1, <1>2, <1>6, <1>7 DEF Parser!Finish, PendingNow

\* Each step of the recognizer is one of the parser, or none.
LEMMA ParserSteps ==
    ASSUME ParserInv, ParserInv', [Next]_vars
    PROVE  [Parser!ParserNext]_Parser!parserVars
<1>1. CASE UNCHANGED vars
  BY <1>1, ParserStutters DEF vars, inputVars, chartVars, linkVars
<1>2. CASE SettingCall
  <2>1. UNCHANGED <<phase, pc, inputVars, chartVars, linkVars>>
    BY <1>2 DEF SettingCall, UseLeoSet, Activate, Deactivate, ExpectedEventSet
  <2> QED BY <2>1, ParserStutters DEF inputVars, chartVars, linkVars
<1>3. CASE StartInput
  BY <1>3, ParserStart DEF Parser!ParserNext
<1>4. CASE StartInputAgain \/ CompleteRefused
  BY <1>4, ParserStutters
  DEF StartInputAgain, CompleteRefused, inputVars, chartVars, linkVars
<1>5. CASE Alternative
  <2>1. PICK x \in Xsy \cup {NoSymbol}, value \in TokenValues, length \in Lengths :
            RefuseToken(x, value, length) \/ RejectToken(x, value, length)
              \/ InsertToken(x, value, length)
    BY <1>5 DEF Alternative
  <2>2. CASE InsertToken(x, value, length)
    BY <2>2, ParserReads DEF Parser!ParserNext, PendingNow
  <2>3. CASE RefuseToken(x, value, length) \/ RejectToken(x, value, length)
    BY <2>3, ParserStutters DEF RefuseToken, RejectToken, inputVars, chartVars, linkVars
  <2> QED BY <2>1, <2>2, <2>3
<1>6. CASE CompletePastFurthest \/ CompleteGap
  BY <1>6, ParserPasses DEF Parser!ParserNext
<1>7. CASE BeginEarleySet
  BY <1>7, ParserBegins DEF Parser!ParserNext
<1>8. CASE InternalStep
  <2>1. ASSUME NEW a \in alternatives, ScanToken(a) PROVE UNCHANGED Parser!parserVars
    BY <2>1, ParserScans
  <2>2. CASE EndScan
    <3>1. UNCHANGED <<phase, current, alternatives, tokenLinks, expected>>
          /\ pc # "idle" /\ pc' # "idle"
      BY <2>2 DEF EndScan, inputVars, linkVars
    <3> QED BY <3>1 DEF Parser!parserVars, TokensDone
  <2>3. CASE PredictAndPostdot
    <3>1. UNCHANGED <<phase, current, alternatives, tokenLinks, expected>>
          /\ pc # "idle" /\ pc' # "idle"
      BY <2>3 DEF PredictAndPostdot, inputVars, linkVars
    <3> QED BY <3>1 DEF Parser!parserVars, TokensDone
  <2>4. CASE \/ \E cause \in stack : CompleteByLeo(cause) \/ CompleteByEarley(cause)
             \/ \E n \in newLims : PopulateLim(n)
    BY <2>4, ParserStutters
    DEF CompleteByLeo, CompleteByEarley, PopulateLim, inputVars, linkVars
  <2>5. CASE EndEarleySet
    BY <2>5, ParserFinishes DEF Parser!ParserNext
  <2> QED BY <1>8, <2>1, <2>2, <2>3, <2>4, <2>5 DEF InternalStep
<1> QED
  BY <1>1, <1>2, <1>3, <1>4, <1>5, <1>6, <1>7, <1>8 DEF Next, EarlemeComplete

\* Seen from outside, the recognizer with its Leo items, postdot tables and furthest
\* earleme behaves as the parser that has none of them: tokens are taken when they are
\* expected, the terminals expected are those of Earley's algorithm and the parse is
\* exhausted at the same earleme.
THEOREM RecognizerImplementsParser == Spec => ImplementsParser
<1>1. Init => Parser!ParserInit
  BY DEF Init, Parser!ParserInit, TokensDone
<1>2. ParserInv /\ ParserInv' /\ [Next]_vars => [Parser!ParserNext]_Parser!parserVars
  BY ParserSteps
<1> QED
  BY <1>1, <1>2, ParserInvariant, PTL DEF Spec, ImplementsParser, Parser!ParserSpec

-----------------------------------------------------------------------------
(***************************************************************************)
(* The right edges of derivations: a right recursive rule comes back to    *)
(* its left side by right recursive rules only.                            *)
(***************************************************************************)

\* What is reached is reached in steps and is no more than that.
LEMMA ReachIsLeast ==
    ASSUME NEW R \in SUBSET Rule, NEW s
    PROVE  /\ RightReach(R, s) \subseteq Symbol
           /\ \A r \in R : Lhs(r) = s \/ Lhs(r) \in RightReach(R, s)
                              => LastSymbol(r) \in RightReach(R, s)
           /\ \A C \in SUBSET Symbol :
                 (\A r \in R : Lhs(r) = s \/ Lhs(r) \in C => LastSymbol(r) \in C)
                    => RightReach(R, s) \subseteq C
<1>1. \A r \in R : LastSymbol(r) \in Symbol
  BY RuleTypes DEF LastSymbol
<1> QED BY <1>1 DEF RightReach

\* Reaching is transitive.
LEMMA ReachOnward ==
    ASSUME NEW R \in SUBSET Rule, NEW s, NEW t \in RightReach(R, s)
    PROVE  RightReach(R, t) \subseteq RightReach(R, s)
BY ReachIsLeast

\* The rules that a right recursive rule comes back through are right recursive too.
LEMMA LeoRulesRecur ==
    ASSUME NEW r \in LeoRule
    PROVE  Lhs(r) \in RightReach(LeoRule, Lhs(r))
<1> DEFINE s == Lhs(r)
           f == LastSymbol(r)
           C == RightReach(LeoRule, s)
           All(x) == RightReach(Rule, x)
           D == {t \in All(f) : t \in C \/ s \notin All(t)}
<1>1. r \in Rule /\ s \in All(f) /\ LeoRule \subseteq Rule
  BY DEF LeoRule
<1>2. s \in Symbol /\ f \in C /\ f \in All(s)
  BY <1>1, RuleTypes, ReachIsLeast
<1>3. s \in All(s)
  BY <1>1, <1>2, ReachOnward
<1>4. ASSUME NEW q \in Rule, Lhs(q) = f \/ Lhs(q) \in D PROVE LastSymbol(q) \in D
  <2> DEFINE u == Lhs(q)
             t == LastSymbol(q)
  <2>1. t \in All(f) /\ t \in All(u)
    BY <1>4, ReachIsLeast
  <2> SUFFICES ASSUME s \in All(t) PROVE t \in C
    BY <2>1
  <2>2. s \in All(u)
    BY <2>1, ReachOnward
  <2>3. u \in C
    BY <1>2, <1>4, <2>2
  <2>4. u = f \/ u \in All(f)
    BY <1>4
  <2>5. u \in All(s)
    BY <1>2, <2>4, ReachOnward
  <2>6. u \in All(t)
    BY <2>5, ReachOnward
  <2>7. q \in LeoRule
    BY <2>6 DEF LeoRule
  <2> QED BY <1>1, <2>3, <2>7, ReachIsLeast
<1>5. D \subseteq Symbol
  BY ReachIsLeast
<1>6. All(f) \subseteq D
  <2> HIDE DEF D
  <2> QED BY <1>4, <1>5, ReachIsLeast
<1> QED BY <1>1, <1>3, <1>6

-----------------------------------------------------------------------------
(***************************************************************************)
(* The events of a Leo item.  The events of a chain are merged until they  *)
(* are as many as there can be: all of them are then in.                   *)
(***************************************************************************)
EventGroup(top) ==
    {inner \in Ahm :
        /\ IsLeoCompletion(inner)
        /\ EventAhms(inner) # {}
        /\ LhsOf(inner) \in RightReach(LeoRule, LhsOf(top))}

\* The dotted rules of a Leo item with events are in the group of its top, and its
\* own trailhead is among them; they hold those of its predecessor.
LimsGrouped ==
    \A l \in lims :
        /\ l.top \in Ahm /\ IsLeoCompletion(l.top)
        /\ l.sym \in RightReach(LeoRule, LhsOf(l.top))
        /\ l.cil \subseteq EventGroup(l.top)
        /\ EventAhms(Trailhead(l)) \subseteq l.cil

CilsGrow == \A l \in lims : \A p \in PredecessorOf(l) : p.cil \subseteq l.cil

\* The events of a Leo item are of items that Earley's algorithm completes.
CompletionClosed(C) ==
    \A i \in C, c \in C :
        IsCompletion(c.ahm) /\ i.at = c.origin /\ PostdotIs(i.ahm, LhsOf(c.ahm))
           => Advance(i, c.at) \in C

CilsAreSound ==
    \A C : items \subseteq C /\ CompletionClosed(C) =>
        \A l \in lims, e \in Nat :
            Advance(l.base, e) \in C => \A a \in l.cil : \E i \in C : i.ahm = a /\ i.at = e

CilInv == LimsGrouped /\ CilsGrow /\ CilsAreSound

\* A group is finite, and merging stops only when it is full.
LEMMA MergedHolds ==
    ASSUME NEW p, NEW a \in Ahm, p.top \in Ahm, IsLeoCompletion(p.top),
           p.cil \subseteq EventGroup(p.top), EventAhms(a) \subseteq EventGroup(p.top)
    PROVE  /\ p.cil \subseteq MergedCil(p, a) /\ EventAhms(a) \subseteq MergedCil(p, a)
           /\ MergedCil(p, a) \subseteq p.cil \cup EventAhms(a)
<1>1. EventGroupSize[p.top] = Cardinality(EventGroup(p.top))
  BY DEF EventGroupSize, EventGroup
<1>2. IsFiniteSet(EventGroup(p.top))
  BY AhmsAreFinite, FS_Subset DEF EventGroup
<1>3. CASE EventGroupSize[p.top] > Cardinality(p.cil)
  BY <1>3 DEF MergedCil
<1>4. CASE ~ (EventGroupSize[p.top] > Cardinality(p.cil))
  <2>1. /\ IsFiniteSet(p.cil) /\ Cardinality(p.cil) \in Nat
        /\ Cardinality(EventGroup(p.top)) \in Nat
        /\ Cardinality(p.cil) <= Cardinality(EventGroup(p.top))
        /\ p.cil # EventGroup(p.top) => Cardinality(p.cil) < Cardinality(EventGroup(p.top))
    BY <1>2, FS_Subset, FS_CardinalityType
  <2>2. p.cil = EventGroup(p.top)
    BY <1>1, <1>4, <2>1
  <2> QED BY <1>4, <2>2 DEF MergedCil
<1> QED BY <1>3, <1>4

\* The last symbol of a rule is what a Leo item stands before.
LEMMA TrailheadGroup ==
    ASSUME SpanInv, NEW n \in newLims
    PROVE  /\ n.base \in Item /\ Trailhead(n) \in Ahm
           /\ IsLeoCompletion(Trailhead(n)) /\ RuleOf(Trailhead(n)) \in LeoRule
           /\ LhsOf(Trailhead(n)) = LhsOf(n.base.ahm)
           /\ n.sym = LastSymbol(RuleOf(Trailhead(n)))
           /\ ~ IsCompletion(n.base.ahm) /\ PostdotIs(n.base.ahm, n.sym)
<1>1. /\ n.base \in Item /\ PostdotIs(n.base.ahm, n.sym) /\ IsLeoPenult(n.base.ahm)
  BY DEF SpanInv, InputInv, TypeInv, TypeOK, CallState
<1>2. n.base.ahm \in Ahm /\ ~ IsCompletion(n.base.ahm)
  BY <1>1, ItemTypes, PostdotType
<1>3. /\ Trailhead(n) \in Ahm /\ RuleOf(Trailhead(n)) = RuleOf(n.base.ahm)
      /\ Trailhead(n)[2] = n.base.ahm[2] + 1
  BY <1>2, NextAhmType DEF Trailhead
<1>4. IsLeoCompletion(Trailhead(n))
  BY <1>1 DEF IsLeoPenult, Trailhead
<1>5. n.base.ahm[2] + 1 = Len(Rhs(RuleOf(n.base.ahm)))
  BY <1>3, <1>4 DEF IsLeoCompletion, IsCompletion
<1>6. n.sym = LastSymbol(RuleOf(Trailhead(n)))
  BY <1>1, <1>3, <1>5 DEF PostdotIs, LastSymbol
<1> QED BY <1>1, <1>2, <1>3, <1>4, <1>6 DEF IsLeoCompletion, LhsOf

\* A Leo item that is populated has the events of its predecessor and its own.
LEMMA CilPopulate ==
    ASSUME SpanInv, LeoInv, CilInv, NEW n \in newLims, PopulateLim(n)
    PROVE  \E l :
              /\ lims' = lims \cup {l} /\ l.base = n.base /\ l.sym = n.sym /\ l.at = n.at
              /\ l.top \in Ahm /\ IsLeoCompletion(l.top)
              /\ l.sym \in RightReach(LeoRule, LhsOf(l.top))
              /\ l.cil \subseteq EventGroup(l.top)
              /\ EventAhms(Trailhead(n)) \subseteq l.cil
              /\ \A p \in PredecessorOf(n) : p.cil \subseteq l.cil
              /\ \A a \in l.cil : \/ a = Trailhead(n)
                                  \/ \E p \in PredecessorOf(n) : a \in p.cil
<1> DEFINE a == Trailhead(n)
<1>1. /\ a \in Ahm /\ IsLeoCompletion(a) /\ RuleOf(a) \in LeoRule
      /\ LhsOf(a) = LhsOf(n.base.ahm) /\ n.sym = LastSymbol(RuleOf(a))
  BY TrailheadGroup
<1>2. LeoRule \subseteq Rule
  BY DEF LeoRule
<1>3. \A x \in EventAhms(a) : x = a /\ EventAhms(a) # {}
  BY DEF EventAhms
<1>4. CASE PredecessorOf(n) = {}
  <2>1. PICK l : l = Populated(n, a, n.base.origin, EventAhms(a))
    OBVIOUS
  <2>2. lims' = lims \cup {l}
    BY <1>4, <2>1 DEF PopulateLim
  <2>3. /\ l.base = n.base /\ l.sym = n.sym /\ l.at = n.at /\ l.top = a
        /\ l.cil = EventAhms(a)
    BY <2>1 DEF Populated
  <2>4. LhsOf(a) \in RightReach(LeoRule, LhsOf(a))
    BY <1>1, LeoRulesRecur DEF LhsOf
  <2>5. n.sym \in RightReach(LeoRule, LhsOf(a))
    BY <1>1, <1>2, ReachIsLeast DEF LhsOf
  <2>6. EventAhms(a) \subseteq EventGroup(a)
    BY <1>1, <1>3, <2>4 DEF EventGroup
  <2> QED BY <1>1, <1>3, <1>4, <2>2, <2>3, <2>5, <2>6
<1>5. CASE PredecessorOf(n) # {}
  <2>1. PICK p \in PredecessorOf(n) :
            lims' = lims \cup {Populated(n, p.top, p.origin, MergedCil(p, a))}
    BY <1>5 DEF PopulateLim
  <2>2. PICK l : l = Populated(n, p.top, p.origin, MergedCil(p, a))
    OBVIOUS
  <2>3. /\ l.base = n.base /\ l.sym = n.sym /\ l.at = n.at /\ l.top = p.top
        /\ l.cil = MergedCil(p, a)
    BY <2>2 DEF Populated
  <2>4. p \in lims /\ p.at = n.base.origin /\ p.sym = LhsOf(a)
    BY <1>1 DEF PredecessorOf, LimsFor
  <2>5. \A q \in PredecessorOf(n) : q = p
    BY <2>4 DEF PredecessorOf, LimsFor, LeoInv, LimsAlone
  <2>6. /\ p.top \in Ahm /\ IsLeoCompletion(p.top) /\ p.cil \subseteq EventGroup(p.top)
        /\ LhsOf(a) \in RightReach(LeoRule, LhsOf(p.top))
    BY <2>4 DEF CilInv, LimsGrouped
  <2>7. n.sym \in RightReach(LeoRule, LhsOf(p.top))
    BY <1>1, <1>2, <2>6, ReachIsLeast DEF LhsOf
  <2>8. EventAhms(a) \subseteq EventGroup(p.top)
    BY <1>1, <1>3, <2>6 DEF EventGroup
  <2>9. /\ p.cil \subseteq MergedCil(p, a) /\ EventAhms(a) \subseteq MergedCil(p, a)
        /\ MergedCil(p, a) \subseteq p.cil \cup EventAhms(a)
    BY <1>1, <2>6, <2>8, MergedHolds
  <2>10. lims' = lims \cup {l}
    BY <2>1, <2>2
  <2> HIDE DEF a
  <2> QED BY <1>3, <2>3, <2>5, <2>6, <2>7, <2>8, <2>9, <2>10 DEF a
<1> QED BY <1>4, <1>5

\* A new recognizer has no Leo item.
LEMMA CilInit == Init => CilInv
BY DEF Init, CilInv, LimsGrouped, CilsGrow, CilsAreSound

\* Items are added and never removed.
LEMMA ItemsGrow ==
    ASSUME SpanInv, [Next]_vars PROVE items \subseteq items' /\ lims \subseteq lims'
<1>1. CASE phase = "before"
  BY <1>1 DEF SpanInv, InputInv, TypeInv, NothingBefore
<1>2. CASE phase # "before"
  BY <1>2, ChartFrozen
<1> QED BY <1>1, <1>2

\* Each step keeps CilInv.
LEMMA CilStep ==
    ASSUME SpanInv, PredictInv, LeoInv, LeoInv', CilInv, [Next]_vars PROVE CilInv'
<1>1. lims' = lims \/ \E n \in newLims : PopulateLim(n)
  BY OtherSteps, EarlemeSteps
  DEF SpanInv, InputInv, StartInput, ScanToken, CompleteByLeo, CompleteByEarley,
      PredictAndPostdot
<1>2. items \subseteq items'
  BY ItemsGrow
<1>3. CASE lims' = lims
  <2>1. LimsGrouped' /\ CilsGrow'
    BY <1>3 DEF CilInv, LimsGrouped, CilsGrow, PredecessorOf, LimsFor, Trailhead
  <2>2. CilsAreSound'
    BY <1>2, <1>3 DEF CilInv, CilsAreSound, CompletionClosed, Advance
  <2> QED BY <2>1, <2>2 DEF CilInv
<1>4. ASSUME NEW n \in newLims, PopulateLim(n) PROVE CilInv'
  <2>1. PICK l :
              /\ lims' = lims \cup {l} /\ l.base = n.base /\ l.sym = n.sym /\ l.at = n.at
              /\ l.top \in Ahm /\ IsLeoCompletion(l.top)
              /\ l.sym \in RightReach(LeoRule, LhsOf(l.top))
              /\ l.cil \subseteq EventGroup(l.top)
              /\ EventAhms(Trailhead(n)) \subseteq l.cil
              /\ \A p \in PredecessorOf(n) : p.cil \subseteq l.cil
              /\ \A a \in l.cil : \/ a = Trailhead(n)
                                  \/ \E p \in PredecessorOf(n) : a \in p.cil
    BY <1>4, CilPopulate
  <2>2. Trailhead(l) = Trailhead(n) /\ PredecessorOf(l) = PredecessorOf(n)
    BY <2>1 DEF Trailhead, PredecessorOf
  <2>3. LimsGrouped'
    BY <2>1, <2>2 DEF CilInv, LimsGrouped, Trailhead
  <2>4. PendingPredecessorOf(n) = {}
    BY <1>4, PopulatedLast
  <2>5. CilsGrow'
    <3>1. ASSUME NEW k \in lims', NEW p \in PredecessorOf(k)', p \in lims
          PROVE  p \in PredecessorOf(k)
      BY <3>1 DEF PredecessorOf, LimsFor
    <3>2. ASSUME NEW k \in lims, l \in PredecessorOf(k)', l \notin lims PROVE FALSE
      <4>1. n \in PendingPredecessorOf(k)
        BY <2>1, <3>2 DEF PredecessorOf, LimsFor, PendingPredecessorOf
      <4>2. PICK q \in PredecessorOf(k) : TRUE
        BY <4>1 DEF LeoInv, LimsFollow
      <4>3. q \in LimsFor(n.at, n.sym)
        BY <4>1, <4>2 DEF PredecessorOf, PendingPredecessorOf, LimsFor
      <4> QED BY <4>3 DEF LeoInv, NewLimsAlone
    <3>3. l \notin PredecessorOf(l)' \/ l \in lims
      <4> SUFFICES ASSUME l \in PredecessorOf(l)' PROVE FALSE
        OBVIOUS
      <4>1. n \in PendingPredecessorOf(n)
        BY <2>1 DEF PredecessorOf, LimsFor, PendingPredecessorOf
      <4> QED BY <2>4, <4>1
    <3>4. ASSUME NEW k \in lims', NEW p \in PredecessorOf(k)' PROVE p.cil \subseteq k.cil
      <4>1. p \in lims'
        BY DEF PredecessorOf, LimsFor
      <4>2. CASE p \in lims
        <5>1. p \in PredecessorOf(k)
          BY <3>1, <4>2
        <5>2. CASE k \in lims
          BY <5>1, <5>2 DEF CilInv, CilsGrow
        <5>3. CASE k = l
          BY <2>1, <2>2, <5>1, <5>3
        <5> QED BY <2>1, <5>2, <5>3
      <4>3. CASE p \notin lims
        BY <2>1, <3>2, <3>3, <4>1, <4>3
      <4> QED BY <4>2, <4>3
    <3> QED BY <3>4 DEF CilsGrow
  <2>6. CilsAreSound'
    <3> SUFFICES ASSUME NEW C, items \subseteq C, CompletionClosed(C), NEW k \in lims',
                        NEW e \in Nat, Advance(k.base, e) \in C, NEW a \in k.cil
                 PROVE  \E i \in C : i.ahm = a /\ i.at = e
      BY <1>2 DEF CilsAreSound, CompletionClosed, Advance
    <3>1. CASE k \in lims
      BY <3>1 DEF CilInv, CilsAreSound
    <3>2. CASE k = l
      <4> DEFINE c == Advance(n.base, e)
      <4>1. c \in C /\ n.base \in Item /\ ~ IsCompletion(n.base.ahm)
            /\ IsCompletion(Trailhead(n))
        BY <2>1, <3>2, TrailheadGroup DEF IsLeoCompletion
      <4>2. c.ahm = Trailhead(n) /\ c.at = e /\ c.origin = n.base.origin
            /\ LhsOf(c.ahm) = LhsOf(n.base.ahm)
        BY <4>1, AdvanceRule DEF Advance, Trailhead
      <4>3. CASE a = Trailhead(n)
        BY <4>1, <4>2, <4>3
      <4>4. ASSUME NEW p \in PredecessorOf(n), a \in p.cil
            PROVE  \E i \in C : i.ahm = a /\ i.at = e
        <5>1. /\ p \in lims /\ p.base \in C /\ p.base.at = n.base.origin
              /\ PostdotIs(p.base.ahm, LhsOf(n.base.ahm))
          BY DEF PredecessorOf, LimsFor, SpanInv, LimsSpan
        <5>2. Advance(p.base, e) \in C
          BY <4>1, <4>2, <5>1 DEF CompletionClosed
        <5> QED BY <4>4, <5>1, <5>2 DEF CilInv, CilsAreSound
      <4> QED BY <2>1, <3>2, <4>3, <4>4
    <3> QED BY <2>1, <3>1, <3>2
  <2> QED BY <2>3, <2>5, <2>6 DEF CilInv
<1> QED BY <1>1, <1>3, <1>4

-----------------------------------------------------------------------------
(***************************************************************************)
(* The Leo links: each completion that a Leo item hid something of has one.*)
(***************************************************************************)
LinksAreLeo ==
    \A k \in leoLinks :
        /\ k.cause \in items /\ IsCompletion(k.cause.ahm) /\ k.effect.at = k.cause.at
        /\ k.lim \in LimsFor(k.cause.origin, LhsOf(k.cause.ahm))
        /\ k.effect \in items
        /\ k.effect = [ahm |-> k.lim.top, origin |-> k.lim.origin, at |-> k.cause.at]

LinksAreMade ==
    \A c \in items :
        IsCompletion(c.ahm) /\ c \notin stack /\ ~ (pc = "scan" /\ c.at = current)
          /\ LimsFor(c.origin, LhsOf(c.ahm)) # {}
           => \E k \in leoLinks : k.cause = c

LinkInv == LinksAreLeo /\ LinksAreMade

\* A new recognizer has no link.
LEMMA LinkInit == Init => LinkInv
BY DEF Init, LinkInv, LinksAreLeo, LinksAreMade

\* A completion by a Leo item leaves its link.
LEMMA LeoLink ==
    ASSUME SpanInv, NEW cause \in stack, CompleteByLeo(cause)
    PROVE  \E k :
              /\ leoLinks' = leoLinks \cup {k}
              /\ k.cause = cause /\ cause \in items /\ IsCompletion(cause.ahm)
              /\ cause.at = current
              /\ k.lim \in LimsFor(cause.origin, LhsOf(cause.ahm))
              /\ k.effect = [ahm |-> k.lim.top, origin |-> k.lim.origin, at |-> current]
              /\ items' = items \cup {k.effect}
              /\ stack' = (stack \ {cause}) \cup ({k.effect} \ items)
<1>1. PICK l \in LimsFor(cause.origin, LhsOf(cause.ahm)) :
          /\ items' = items \cup {LeoEffect(l)}
          /\ stack' = (stack \ {cause}) \cup ({LeoEffect(l)} \ items)
          /\ leoLinks' = leoLinks \cup {[effect |-> LeoEffect(l), lim |-> l, cause |-> cause]}
  BY DEF CompleteByLeo
<1>2. PICK k : k = [effect |-> LeoEffect(l), lim |-> l, cause |-> cause]
  OBVIOUS
<1>3. k.effect = LeoEffect(l) /\ k.lim = l /\ k.cause = cause
  BY <1>2
<1>4. LeoEffect(l) = [ahm |-> l.top, origin |-> l.origin, at |-> current]
  BY DEF LeoEffect
<1>5. cause \in items /\ IsCompletion(cause.ahm) /\ cause.at = current
  BY CauseSpan
<1> QED BY <1>1, <1>2, <1>3, <1>4, <1>5

\* The links stay what they are, as the sets they look at do not change.
LEMMA LinksStay ==
    ASSUME SpanInv, LinksAreLeo, [Next]_vars
    PROVE  LinksAreLeo'
<1>1. items \subseteq items' /\ lims \subseteq lims'
  BY ItemsGrow
<1>2. \A e, s : LimsFor(e, s) \subseteq LimsFor(e, s)'
  BY <1>1 DEF LimsFor
<1>3. CASE leoLinks' = leoLinks
  BY <1>1, <1>2, <1>3 DEF LinksAreLeo
<1>4. ASSUME NEW cause \in stack, CompleteByLeo(cause) PROVE LinksAreLeo'
  <2>1. PICK k :
              /\ leoLinks' = leoLinks \cup {k}
              /\ k.cause = cause /\ cause \in items /\ IsCompletion(cause.ahm)
              /\ cause.at = current
              /\ k.lim \in LimsFor(cause.origin, LhsOf(cause.ahm))
              /\ k.effect = [ahm |-> k.lim.top, origin |-> k.lim.origin, at |-> current]
              /\ items' = items \cup {k.effect}
    BY <1>4, LeoLink
  <2>2. /\ k.cause \in items' /\ IsCompletion(k.cause.ahm) /\ k.effect.at = k.cause.at
        /\ k.lim \in LimsFor(k.cause.origin, LhsOf(k.cause.ahm))'
        /\ k.effect \in items'
        /\ k.effect = [ahm |-> k.lim.top, origin |-> k.lim.origin, at |-> k.cause.at]
    BY <1>1, <1>2, <2>1
  <2> QED BY <1>1, <1>2, <2>1, <2>2 DEF LinksAreLeo
<1>5. leoLinks' = leoLinks \/ \E cause \in stack : CompleteByLeo(cause)
  BY OtherSteps, EarlemeSteps
  DEF SpanInv, InputInv, StartInput, ScanToken, CompleteByEarley, PredictAndPostdot,
      PopulateLim, linkVars
<1> QED BY <1>3, <1>4, <1>5

\* A completion stays on the stack until its link is made.
LEMMA LinksMadeStep ==
    ASSUME SpanInv, SpanInv', LinkInv, [Next]_vars, phase # "before"
    PROVE  LinksAreMade'
<1> SUFFICES ASSUME NEW c \in items', IsCompletion(c.ahm), c \notin stack',
                    ~ (pc' = "scan" /\ c.at = current'),
                    LimsFor(c.origin, LhsOf(c.ahm))' # {}
             PROVE  \E k \in leoLinks' : k.cause = c
  BY DEF LinksAreMade
<1>0. TypeInv /\ ~ StartInput
  BY DEF SpanInv, InputInv, StartInput
<1>1. leoLinks \subseteq leoLinks'
  <2>1. ASSUME NEW cause \in stack, CompleteByLeo(cause) PROVE leoLinks \subseteq leoLinks'
    BY <2>1, LeoLink
  <2> QED
    BY <1>0, <2>1, OtherSteps, EarlemeSteps
    DEF SpanInv, ScanToken, CompleteByEarley, PredictAndPostdot, PopulateLim, linkVars
<1>2. ASSUME c \in items, c \notin stack, ~ (pc = "scan" /\ c.at = current)
      PROVE  \E k \in leoLinks' : k.cause = c
  <2>1. LimsFor(c.origin, LhsOf(c.ahm)) # {}
    BY <1>2, CompletedBefore, LimsFrozen
  <2> QED BY <1>1, <1>2, <2>1 DEF LinkInv, LinksAreMade
<1>3. \A i \in items' \ items : i.at = current
  BY ChartFrozen
<1>4. CASE EarlemeStep
  BY <1>2, <1>4, EarlemeSteps DEF SpanInv
<1>5. ASSUME NEW a \in alternatives, ScanToken(a) PROVE \E k \in leoLinks' : k.cause = c
  BY <1>2, <1>3, <1>5 DEF ScanToken
<1>6. ASSUME EndScan PROVE \E k \in leoLinks' : k.cause = c
  <2>1. c \in items /\ c.at # current /\ stack = {}
    BY <1>0, <1>6 DEF EndScan, AtCurrent, TypeInv, CallState
  <2> QED BY <1>2, <2>1
<1>7. ASSUME NEW cause \in stack, CompleteByLeo(cause)
      PROVE  \E k \in leoLinks' : k.cause = c
  <2>1. PICK k :
              /\ leoLinks' = leoLinks \cup {k} /\ k.cause = cause
              /\ items' = items \cup {k.effect}
              /\ stack' = (stack \ {cause}) \cup ({k.effect} \ items)
    BY <1>7, LeoLink
  <2>2. c \in items /\ pc = "complete"
    BY <1>7, <2>1 DEF CompleteByLeo
  <2>3. CASE c = cause
    BY <2>1, <2>3
  <2>4. CASE c # cause
    BY <1>2, <2>1, <2>2, <2>4
  <2> QED BY <2>3, <2>4
<1>8. ASSUME NEW cause \in stack, CompleteByEarley(cause)
      PROVE  \E k \in leoLinks' : k.cause = c
  <2>1. PICK effects :
          /\ items' = items \cup effects
          /\ stack' = (stack \ {cause}) \cup NewCompletions(effects)
          /\ LimsFor(cause.origin, LhsOf(cause.ahm)) = {}
          /\ pc = "complete"
    BY <1>8 DEF CompleteByEarley
  <2>2. c \in items
    BY <2>1 DEF NewCompletions
  <2>3. CASE c = cause
    BY <2>1, <2>2, <2>3, CompletedBefore, LimsFrozen
  <2>4. CASE c # cause
    BY <1>2, <2>1, <2>2, <2>4
  <2> QED BY <2>3, <2>4
<1>9. ASSUME PredictAndPostdot PROVE \E k \in leoLinks' : k.cause = c
  <2>1. /\ current \in Nat /\ pc = "complete" /\ stack = {}
        /\ items' = items \cup Predictions(AtCurrent, current)
    BY <1>0, <1>9, CurrentType DEF PredictAndPostdot, AtCurrent
  <2>2. \A i \in Predictions(AtCurrent, current) : ~ IsCompletion(i.ahm)
    BY <2>1, PredictionsTypes, PredictionType, FirstAhmType
  <2> QED BY <1>2, <2>1, <2>2
<1>10. ASSUME NEW n \in newLims, PopulateLim(n) PROVE \E k \in leoLinks' : k.cause = c
  BY <1>0, <1>2, <1>10 DEF PopulateLim, TypeInv, CallState
<1>11. CASE UNCHANGED <<current, items>> /\ (UNCHANGED <<pc, stack>> \/ EndEarleySet)
  BY <1>2, <1>11 DEF EndEarleySet
<1> QED
  BY <1>0, <1>4, <1>5, <1>6, <1>7, <1>8, <1>9, <1>10, <1>11, OtherSteps

\* Each step keeps LinkInv.
LEMMA LinkStep ==
    ASSUME SpanInv, SpanInv', LinkInv, [Next]_vars PROVE LinkInv'
<1>0. TypeInv
  BY DEF SpanInv, InputInv
<1>1. CASE phase = "before"
  <2>1. /\ items = {} /\ lims = {} /\ newLims = {} /\ stack = {} /\ alternatives = {}
        /\ pc = "idle"
    BY <1>0, <1>1 DEF TypeInv, NothingBefore, BuiltDuringInput
  <2>2. lims' = {}
    BY <1>0, <1>1, <2>1, OtherSteps
    DEF StartInput, EarlemeStep, CompletePastFurthest, CompleteGap, BeginEarleySet,
        PredictAndPostdot
  <2>3. \A e, s : {l \in lims' : l.at = e /\ l.sym = s} = {}
    BY <2>2
  <2>4. LinksAreMade'
    BY <2>3 DEF LinksAreMade, LimsFor
  <2> QED BY <2>4, LinksStay DEF LinkInv
<1>2. CASE phase # "before"
  BY <1>2, LinksStay, LinksMadeStep DEF LinkInv
<1> QED BY <1>1, <1>2

-----------------------------------------------------------------------------
(***************************************************************************)
(* The events of the items that the recognizer has left out.               *)
(***************************************************************************)
EventInv == RefinementInv /\ CilInv /\ LinkInv

\* The completions that the Leo links of the chart stand for: all of a chain.
Linked ==
    UNION {{Advance(m.base, k.effect.at) :
              m \in {l \in lims : /\ PredecessorOf(l) # {}
                                  /\ l.top = k.lim.top /\ l.origin = k.lim.origin
                                  /\ l.cil \subseteq k.lim.cil}} : k \in leoLinks}

(* A completion that a Leo link stands for is hidden, and its events are in the *)
(* merged list of the Leo item that the link used.                              *)
LEMMA LinkedItems ==
    ASSUME EventInv, NEW c \in Linked
    PROVE  /\ c \in Hidden
           /\ \E k \in leoLinks, m \in lims :
                 /\ PredecessorOf(m) # {} /\ c = Advance(m.base, k.effect.at)
                 /\ m.top = k.lim.top /\ m.origin = k.lim.origin /\ m.cil \subseteq k.lim.cil
<1>1. PICK k \in leoLinks, m \in lims :
                 /\ PredecessorOf(m) # {} /\ c = Advance(m.base, k.effect.at)
                 /\ m.top = k.lim.top /\ m.origin = k.lim.origin /\ m.cil \subseteq k.lim.cil
  BY DEF Linked
<1>2. k.effect \in items /\ k.effect.ahm = m.top /\ k.effect.origin = m.origin
  <2>1. /\ k.effect \in items
        /\ k.effect = [ahm |-> k.lim.top, origin |-> k.lim.origin, at |-> k.cause.at]
    BY DEF EventInv, LinkInv, LinksAreLeo
  <2> QED BY <1>1, <2>1
<1>3. c \in Skipped(m)
  BY <1>1, <1>2 DEF Skipped
<1> QED BY <1>1, <1>3 DEF Hidden

\* Where a Leo link jumps over the base of a Leo item of its chain, the completion of
\* the base is in the chart or linked.
LEMMA LinkedThere ==
    ASSUME EventInv, NEW k \in leoLinks, NEW m \in lims,
           m.top = k.lim.top, m.origin = k.lim.origin, m.cil \subseteq k.lim.cil
    PROVE  Advance(m.base, k.effect.at) \in items \cup Linked
<1>1. CASE PredecessorOf(m) # {}
  BY <1>1 DEF Linked
<1>2. CASE PredecessorOf(m) = {}
  <2>1. m.top = Trailhead(m) /\ m.origin = m.base.origin
    BY <1>2 DEF EventInv, RefinementInv, LeoInv, LimsFollow
  <2>2. /\ k.effect \in items /\ k.effect.at = k.cause.at
        /\ k.effect = [ahm |-> k.lim.top, origin |-> k.lim.origin, at |-> k.cause.at]
    BY DEF EventInv, LinkInv, LinksAreLeo
  <2> QED BY <2>1, <2>2 DEF Advance, Trailhead
<1> QED BY <1>1, <1>2

\* So the chart with the linked completions is closed.
LEMMA LinkedClosed ==
    ASSUME EventInv, pc = "idle", phase # "before"
    PROVE  EarleyClosed(items \cup Linked, ScannedTokens)
<1> DEFINE X == items \cup Linked
<1>0. /\ SpanInv /\ LimsHide /\ LeoInv /\ DoneInv /\ CilInv /\ LinkInv
      /\ items \subseteq Item /\ stack = {}
      /\ EarleyClosed(items \cup Hidden, ScannedTokens)
  BY DEF EventInv, RefinementInv, ChartIsComplete, SpanInv, InputInv, TypeInv, TypeOK, CallState
<1>1. X \subseteq items \cup Hidden
  BY LinkedItems
<1>2. \A i \in items \cup Hidden : ~ IsCompletion(i.ahm) \/ (\E s : PostdotIs(i.ahm, s)) => i \in items
  BY <1>0, HiddenItems
<1>3. \A r \in Rule, e \in Nat : ~ IsCompletion(Prediction(r, e).ahm)
  BY PredictionType, FirstAhmType
<1>4. Prediction(G.startRule, 0) \in X
  BY <1>0, <1>2, <1>3, RuleTypes DEF EarleyClosed
<1>5. ASSUME NEW i \in X, NEW r \in Rule, PostdotIs(i.ahm, Lhs(r)), i.at = 0 => r \notin G.barred
      PROVE  Prediction(r, i.at) \in X
  <2>1. i \in items /\ i.at \in Nat
    BY <1>0, <1>1, <1>2, <1>5, ItemTypes
  <2>2. Prediction(r, i.at) \in items \cup Hidden
    BY <1>0, <1>1, <1>5 DEF EarleyClosed
  <2> QED BY <1>2, <1>3, <2>1, <2>2
<1>6. ASSUME NEW i \in X, NEW t \in ScannedTokens, i.at = t.start, PostdotIs(i.ahm, t.sym)
      PROVE  Advance(i, t.end) \in X
  <2>1. i \in Pims(t.start, t.sym)
    BY <1>1, <1>2, <1>6 DEF Pims
  <2> QED BY <1>0, <2>1 DEF DoneInv, TokensProcessed
<1>7. ASSUME NEW i \in X, NEW c \in X, IsCompletion(c.ahm), i.at = c.origin,
             PostdotIs(i.ahm, LhsOf(c.ahm))
      PROVE  Advance(i, c.at) \in X
  <2>1. i \in Pims(c.origin, LhsOf(c.ahm))
    BY <1>1, <1>2, <1>7 DEF Pims
  <2>2. \A l \in LimsFor(c.origin, LhsOf(c.ahm)) : l \in lims /\ i = l.base
    BY <1>0, <2>1 DEF LimsFor, LeoInv, LimsAlone
  <2>3. CASE c \in items /\ LimsFor(c.origin, LhsOf(c.ahm)) = {}
    <3>1. Processed(c)
      BY <1>0, <1>7, <2>3 DEF DoneInv, CompletionsProcessed
    <3> QED BY <2>1, <2>3, <3>1 DEF Processed
  <2>4. CASE c \in items /\ LimsFor(c.origin, LhsOf(c.ahm)) # {}
    <3>1. PICK k \in leoLinks : k.cause = c
      BY <1>0, <1>7, <2>4 DEF LinkInv, LinksAreMade
    <3>2. k.lim \in LimsFor(c.origin, LhsOf(c.ahm)) /\ k.effect.at = c.at
      BY <1>0, <3>1 DEF LinkInv, LinksAreLeo
    <3>3. Advance(k.lim.base, k.effect.at) \in items \cup Linked
      BY <2>2, <3>2, LinkedThere
    <3> QED BY <2>2, <3>2, <3>3
  <2>5. CASE c \in Linked
    <3>1. PICK k \in leoLinks, m \in lims :
                 /\ PredecessorOf(m) # {} /\ c = Advance(m.base, k.effect.at)
                 /\ m.top = k.lim.top /\ m.origin = k.lim.origin /\ m.cil \subseteq k.lim.cil
      BY <2>5, LinkedItems
    <3>2. PICK p \in PredecessorOf(m) : m.top = p.top /\ m.origin = p.origin
      BY <1>0, <3>1 DEF LeoInv, LimsFollow
    <3>3. p \in lims /\ p.cil \subseteq k.lim.cil
      BY <1>0, <3>1, <3>2 DEF CilInv, CilsGrow, PredecessorOf, LimsFor
    <3>4. /\ m.base \in Item /\ ~ IsCompletion(m.base.ahm) /\ k.effect.at \in Nat
      <4>1. k.effect \in Item
        BY <1>0 DEF LinkInv, LinksAreLeo
      <4> QED BY <1>0, <4>1, PostdotType, ItemTypes DEF SpanInv, LimsSpan
    <3>5. /\ c.at = k.effect.at /\ c.origin = m.base.origin
          /\ LhsOf(c.ahm) = LhsOf(m.base.ahm)
      BY <3>1, <3>4, AdvanceRule DEF Advance
    <3>6. p \in LimsFor(c.origin, LhsOf(c.ahm))
      BY <3>2, <3>5 DEF PredecessorOf
    <3>7. Advance(p.base, k.effect.at) \in items \cup Linked
      BY <3>1, <3>2, <3>3, LinkedThere
    <3> QED BY <2>2, <3>5, <3>6, <3>7
  <2> QED BY <2>3, <2>4, <2>5
<1> QED BY <1>4, <1>5, <1>6, <1>7 DEF EarleyClosed

\* The events that a call looks for are those of all the dotted rules of the reference
\* chart at the current earleme.
LEMMA EventsAgree ==
    ASSUME EventInv, pc = "idle", phase # "before"
    PROVE  UNION {AhmEvents[a] : a \in EventAhmsHere}
             = UNION {AhmEvents[a] : a \in {i.ahm : i \in {j \in ReferenceChart : j.at = current}}}
<1> DEFINE Here == {i.ahm : i \in {j \in ReferenceChart : j.at = current}}
<1>0. RefinementInv /\ CilInv /\ LinkInv
  BY DEF EventInv
<1>1. items \subseteq ReferenceChart /\ ReferenceChart \subseteq items \cup Linked
  <2>1. TokensDone = ScannedTokens
    BY <1>0, TokensScanned DEF RefinementInv, SpanInv
  <2>2. current \in Nat
    BY <1>0 DEF RefinementInv, SpanInv, InputInv, TypeInv, TypeOK
  <2>3. AreTokens(ScannedTokens) /\ \A t \in ScannedTokens : t.end <= current
    BY <1>0 DEF RefinementInv, DoneInv, TokensProcessed, AreTokens
  <2>4. \A X : EarleyClosed(X, ScannedTokens) => ReferenceChart \subseteq X
    BY <2>1, <2>2, <2>3, ChartIsLeast DEF ReferenceChart
  <2> QED BY <1>0, <2>4, LinkedClosed, ChartsAgree
<1>2. CompletionClosed(ReferenceChart)
  <2>1. TokensDone = ScannedTokens
    BY <1>0, TokensScanned DEF RefinementInv, SpanInv
  <2>2. current \in Nat
    BY <1>0 DEF RefinementInv, SpanInv, InputInv, TypeInv, TypeOK
  <2>3. AreTokens(ScannedTokens) /\ \A t \in ScannedTokens : t.end <= current
    BY <1>0 DEF RefinementInv, DoneInv, TokensProcessed, AreTokens
  <2>4. EarleyClosed(ReferenceChart, ScannedTokens)
    BY <2>1, <2>2, <2>3, ChartIsLeast DEF ReferenceChart
  <2> QED BY <2>4 DEF EarleyClosed, CompletionClosed
<1>3. ASSUME NEW a \in EventAhmsHere PROVE a \in Here
  <2>1. CASE \E i \in AtCurrent : a = i.ahm
    BY <1>1, <2>1 DEF AtCurrent
  <2>2. ASSUME NEW k \in leoLinks, k.effect.at = current, a \in k.lim.cil PROVE a \in Here
    <3>1. /\ k.cause \in items /\ IsCompletion(k.cause.ahm) /\ k.cause.at = current
          /\ k.lim \in LimsFor(k.cause.origin, LhsOf(k.cause.ahm))
      BY <1>0, <2>2 DEF LinkInv, LinksAreLeo
    <3>2. /\ k.lim \in lims /\ k.lim.base \in items /\ k.lim.base.at = k.cause.origin
          /\ PostdotIs(k.lim.base.ahm, LhsOf(k.cause.ahm))
      BY <1>0, <3>1 DEF LimsFor, RefinementInv, SpanInv, LimsSpan
    <3>3. Advance(k.lim.base, current) \in ReferenceChart
      BY <1>1, <1>2, <3>1, <3>2 DEF CompletionClosed
    <3>4. current \in Nat
      BY <1>0 DEF RefinementInv, SpanInv, InputInv, TypeInv, TypeOK
    <3> QED BY <1>0, <1>1, <1>2, <2>2, <3>2, <3>3, <3>4 DEF CilInv, CilsAreSound
  <2> QED BY <2>1, <2>2 DEF EventAhmsHere
<1>4. ASSUME NEW a \in Here, AhmEvents[a] # {} PROVE a \in EventAhmsHere
  <2>1. PICK i \in ReferenceChart : i.at = current /\ a = i.ahm
    OBVIOUS
  <2>2. CASE i \in items
    BY <2>1, <2>2 DEF EventAhmsHere, AtCurrent
  <2>3. CASE i \in Linked
    <3>1. PICK k \in leoLinks, m \in lims :
              i = Advance(m.base, k.effect.at) /\ m.cil \subseteq k.lim.cil
      BY <2>3, LinkedItems
    <3>2. i.ahm = Trailhead(m) /\ k.effect.at = current
      BY <2>1, <3>1 DEF Advance, Trailhead
    <3>3. a \in EventAhms(Trailhead(m))
      BY <1>4, <2>1, <3>2 DEF EventAhms
    <3>4. a \in k.lim.cil
      BY <1>0, <3>1, <3>3 DEF CilInv, LimsGrouped
    <3> QED BY <3>2, <3>4 DEF EventAhmsHere
  <2> QED BY <1>1, <2>1, <2>2, <2>3
<1> HIDE DEF Here
<1>5. UNION {AhmEvents[a] : a \in EventAhmsHere} = UNION {AhmEvents[a] : a \in Here}
  BY <1>3, <1>4
<1> QED BY <1>5 DEF Here

\* The events of the three kinds are those found at the end of the call.
EventsFound ==
    pc = "idle" /\ ret[1] = "earleme_complete" /\ ret[2] = "NONE" /\ current \in sets =>
        {e \in events : e[1] \in EventKind} = IF activeCount > 0 THEN Triggered(EventAhmsHere) ELSE {}

\* Events of dotted rules are of the three kinds.
LEMMA TriggeredKinds ==
    ASSUME TypeOK, NEW e \in Triggered(EventAhmsHere)
    PROVE  e[1] \in EventKind /\ e[2] \in active[e[1]]
<1>1. EventAhmsHere \subseteq Ahm
  <2>1. \A i \in items : i.ahm \in Ahm
    BY ItemTypes DEF TypeOK
  <2>2. \A k \in leoLinks : k.lim.cil \subseteq Ahm
    BY DEF TypeOK, Lim
  <2> QED BY <2>1, <2>2 DEF EventAhmsHere, AtCurrent
<1>2. PICK a \in EventAhmsHere : e \in AhmEvents[a] /\ e[2] \in active[e[1]]
  BY DEF Triggered, Active
<1>3. e \in ({"completed"} \X CompletedXsys(a)) \cup ({"nulled"} \X G.nulledAt[a])
               \cup ({"predicted"} \X PredictedXsys(a))
  BY <1>1, <1>2 DEF AhmEvents
<1> QED BY <1>2, <1>3 DEF EventKind

\* Each step keeps EventsFound.
LEMMA EventsStep ==
    ASSUME TypeInv, TypeInv', SetsArePast, EventsFound, [Next]_vars PROVE EventsFound'
<1>1. CASE UNCHANGED vars
  BY <1>1 DEF vars, inputVars, chartVars, linkVars, settingVars, EventsFound, EventAhmsHere,
              Triggered, Active, AtCurrent
<1>2. CASE ret'[1] # "earleme_complete" \/ ret'[2] # "NONE" \/ pc' # "idle"
  BY <1>2 DEF EventsFound
<1>3. CASE SettingCall
  <2>1. \E call \in {"use_leo_set", "activate", "expected_symbol_event_set"} :
          \E code, value :
            Returned(call, code, value)
    <3>1. ASSUME NEW value \in BOOLEAN, UseLeoSet(value) PROVE \E code, v : Returned("use_leo_set", code, v)
      BY <3>1, Zenon DEF UseLeoSet
    <3>2. ASSUME NEW kind, NEW x, Activate(kind, x) \/ Deactivate(kind, x)
          PROVE  \E code, v : Returned("activate", code, v)
      BY <3>2, Zenon DEF Activate, Deactivate
    <3>3. ASSUME NEW x, NEW value, ExpectedEventSet(x, value)
          PROVE  \E code, v : Returned("expected_symbol_event_set", code, v)
      BY <3>3, Zenon DEF ExpectedEventSet
    <3> QED BY <1>3, <3>1, <3>2, <3>3 DEF SettingCall
  <2> QED BY <1>2, <2>1 DEF Returned
<1>4. CASE StartInput \/ StartInputAgain
  BY <1>2, <1>4 DEF StartInput, StartInputAgain, Returned
<1>5. CASE Alternative
  BY <1>2, <1>5 DEF Alternative, RefuseToken, RejectToken, InsertToken, Returned
<1>6. CASE EarlemeComplete
  <2>1. CASE CompleteRefused \/ CompletePastFurthest
    BY <1>2, <2>1 DEF CompleteRefused, CompletePastFurthest, Returned
  <2>2. CASE BeginEarleySet
    BY <1>2, <2>2 DEF BeginEarleySet
  <2>3. CASE CompleteGap
    <3>1. current' = current + 1 /\ sets' = sets /\ current \in Int /\ sets \subseteq Nat
      BY <2>3 DEF CompleteGap, TypeInv, TypeOK
    <3>2. current' \notin sets'
      BY <3>1 DEF SetsArePast
    <3> QED BY <3>2 DEF EventsFound
  <2> QED BY <1>6, <2>1, <2>2, <2>3 DEF EarlemeComplete
<1>7. CASE InternalStep /\ ~ EndEarleySet
  <2>1. pc' # "idle"
    BY <1>7 DEF InternalStep, ScanToken, EndScan, CompleteByLeo, CompleteByEarley,
                PredictAndPostdot, PopulateLim
  <2> QED BY <1>2, <2>1
<1>8. CASE EndEarleySet
  <2>1. UNCHANGED <<current, items, leoLinks, active, activeCount>>
    BY <1>8 DEF EndEarleySet, inputVars, linkVars, settingVars
  <2>2. Triggered(EventAhmsHere)' = Triggered(EventAhmsHere)
    BY <2>1 DEF Triggered, Active, EventAhmsHere, AtCurrent
  <2>3. PICK syms, exhausted, warned :
            events' = ExpectedEvents(syms)
                        \cup (IF exhausted THEN {Exhaustion} ELSE {})
                        \cup (IF warned THEN {ThresholdReached} ELSE {})
                        \cup (IF activeCount > 0 THEN Triggered(EventAhmsHere) ELSE {})
    BY <1>8, Zenon DEF EndEarleySet
  <2>4. \A e \in ExpectedEvents(syms) : e[1] \notin EventKind
    BY DEF ExpectedEvents, EventKind
  <2>5. Exhaustion[1] \notin EventKind /\ ThresholdReached[1] \notin EventKind
    BY DEF Exhaustion, ThresholdReached, EventKind
  <2>6. \A e \in Triggered(EventAhmsHere) : e[1] \in EventKind
    BY TriggeredKinds DEF TypeInv
  <2>7. {e \in events' : e[1] \in EventKind}
            = IF activeCount > 0 THEN Triggered(EventAhmsHere) ELSE {}
    BY <2>3, <2>4, <2>5, <2>6
  <2> QED BY <2>1, <2>2, <2>7 DEF EventsFound
<1> QED
  BY <1>1, <1>3, <1>4, <1>5, <1>6, <1>7, <1>8 DEF Next

\* An Earley set triggers the active events of all the dotted rules of Earley's
\* algorithm: a Leo item carries those of the completions that it skips, although it
\* stops merging them when it holds as many as there can be.
THEOREM EventsCorrect == Spec => []EventsAreThoseOfEarley
<1>1. RefinementInv => SpanInv /\ TypeInv /\ PredictInv /\ LeoInv
  BY DEF RefinementInv, SpanInv, InputInv
<1>2. Init => CilInv /\ LinkInv /\ EventsFound
  BY CilInit, LinkInit DEF Init, EventsFound
<1>3. SpanInv /\ SpanInv' /\ PredictInv /\ LeoInv /\ LeoInv' /\ CilInv /\ LinkInv /\ [Next]_vars
        => CilInv' /\ LinkInv'
  BY CilStep, LinkStep
<1>4. TypeInv /\ TypeInv' /\ ExpectedInv /\ EventsFound /\ [Next]_vars => EventsFound'
  BY EventsStep DEF ExpectedInv
<1>5. EventInv /\ EventsFound /\ ActiveEventsAreNotSkipped => EventsAreThoseOfEarley
  <2> SUFFICES ASSUME EventInv, EventsFound, ActiveEventsAreNotSkipped,
                      ret[1] = "earleme_complete", ret[2] = "NONE", pc = "idle",
                      current \in sets
               PROVE  {e \in events : e[1] \in EventKind}
                        = Triggered({i.ahm : i \in {j \in ReferenceChart : j.at = current}})
    BY DEF EventsAreThoseOfEarley
  <2>1. phase # "before" /\ TypeOK
    BY DEF EventInv, RefinementInv, CompletedDuringInput, SpanInv, InputInv, TypeInv
  <2>2. Triggered(EventAhmsHere)
          = Triggered({i.ahm : i \in {j \in ReferenceChart : j.at = current}})
    BY <2>1, EventsAgree DEF Triggered
  <2>3. CASE activeCount > 0
    BY <2>2, <2>3 DEF EventsFound
  <2>4. CASE ~ (activeCount > 0)
    <3>1. \A k \in EventKind : active[k] = {}
      BY <2>4 DEF ActiveEventsAreNotSkipped
    <3>2. Triggered(EventAhmsHere) = {}
      BY <2>1, <3>1, TriggeredKinds
    <3> QED BY <2>2, <2>4, <3>2 DEF EventsFound
  <2> QED BY <2>3, <2>4
<1> QED
  BY <1>1, <1>2, <1>3, <1>4, <1>5, RefinementInvariant, ParserInvariant, EventsAreCounted, PTL
  DEF Spec, EventInv, ParserInv
=============================================================================
