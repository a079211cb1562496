----------------------- MODULE AlternativeStackProofs -----------------------
(***************************************************************************)
(* The sorted array of alternatives, for every set of tokens: the binary   *)
(* search stays in the array and finds the only place that keeps it        *)
(* sorted, so the array implements the set of AlternativeSet.              *)
(***************************************************************************)
EXTENDS AlternativeStack, SequenceTheorems, TLAPS

-----------------------------------------------------------------------------
(***************************************************************************)
(* alternative_cmp is a strict order in which only a token equals itself.  *)
(***************************************************************************)
\* Two tokens that compare equal are one token.
LEMMA CompareEqual ==
    ASSUME NEW a \in Alternatives, NEW b \in Alternatives
    PROVE  Compare(a, b) \in Int /\ (Compare(a, b) = 0 <=> a = b)
<1>1. /\ a.sym \in Nat /\ a.start \in Nat /\ a.end \in Nat
      /\ b.sym \in Nat /\ b.start \in Nat /\ b.end \in Nat
      /\ (a.sym = b.sym /\ a.start = b.start /\ a.end = b.end) => a = b
  BY AlternativesAssumption
<1> QED BY <1>1 DEF Compare

\* Exchanging two tokens reverses the sign.
LEMMA CompareOpposite ==
    ASSUME NEW a \in Alternatives, NEW b \in Alternatives
    PROVE  Compare(a, b) < 0 <=> Compare(b, a) > 0
BY AlternativesAssumption DEF Compare

\* The order is transitive.
LEMMA CompareTransitive ==
    ASSUME NEW a \in Alternatives, NEW b \in Alternatives, NEW c \in Alternatives,
           Compare(a, b) < 0, Compare(b, c) < 0
    PROVE  Compare(a, c) < 0
BY AlternativesAssumption DEF Compare

\* A token that comes later in the order ends no later.
LEMMA LaterEndsFirst ==
    ASSUME NEW a \in Alternatives, NEW b \in Alternatives, Compare(a, b) < 0
    PROVE  b.end <= a.end
BY AlternativesAssumption DEF Compare

-----------------------------------------------------------------------------
\* p is the place of a: everything below comes before it, everything from p on after.
PlaceOf(a, p) ==
    /\ p \in 1 .. Len(array) + 1
    /\ \A i \in 1 .. p - 1 : Compare(a, array[i]) > 0
    /\ \A i \in p .. Len(array) : Compare(a, array[i]) < 0

\* alternative_insert at the place of a token keeps the array sorted and adds the token.
LEMMA PlacedKeepsOrder ==
    ASSUME TypeOK, Sorted, NEW a \in Alternatives, NEW p, PlaceOf(a, p),
           array' = Placed(a, p)
    PROVE  /\ array' \in Seq(Alternatives)
           /\ Sorted'
           /\ a \notin Tokens
           /\ Tokens' = Tokens \cup {a}
<1>1. array \in Seq(Alternatives) /\ p \in Nat /\ Len(array) \in Nat
  BY DEF TypeOK, PlaceOf
<1>2. /\ DOMAIN array' = 1 .. Len(array) + 1
      /\ \A i \in 1 .. Len(array) + 1 :
            array'[i] = IF i < p THEN array[i] ELSE IF i = p THEN a ELSE array[i - 1]
  BY <1>1 DEF Placed
<1>3. \A i \in 1 .. Len(array) + 1 : array'[i] \in Alternatives
  BY <1>1, <1>2 DEF PlaceOf
<1>4. array' \in Seq(Alternatives) /\ Len(array') = Len(array) + 1
  <2>1. array' = [i \in 1 .. Len(array) + 1 |-> array'[i]]
    BY <1>2 DEF Placed
  <2> QED BY <1>1, <1>2, <1>3, <2>1
<1>5. Sorted'
  <2> SUFFICES ASSUME NEW i \in 1 .. Len(array) + 1, NEW j \in 1 .. Len(array) + 1, i < j
               PROVE  Compare(array'[i], array'[j]) < 0
    BY <1>4 DEF Sorted, Compare
  <2>1. CASE j < p
    BY <1>1, <1>2, <2>1 DEF Sorted, PlaceOf
  <2>2. CASE j = p
    <3>1. i \in 1 .. p - 1 /\ array'[i] = array[i] /\ array'[j] = a /\ array[i] \in Alternatives
      BY <1>1, <1>2, <2>2 DEF PlaceOf
    <3> QED BY <3>1, CompareOpposite DEF PlaceOf
  <2>3. CASE i = p
    BY <1>1, <1>2, <2>3 DEF PlaceOf
  <2>4. CASE i < p /\ p < j
    BY <1>1, <1>2, <2>4 DEF Sorted, PlaceOf
  <2>5. CASE p < i
    BY <1>1, <1>2, <2>5 DEF Sorted, PlaceOf
  <2> QED BY <1>1, <2>1, <2>2, <2>3, <2>4, <2>5
<1>6. a \notin Tokens
  <2> SUFFICES ASSUME NEW i \in 1 .. Len(array), array[i] = a PROVE FALSE
    BY DEF Tokens
  <2>1. Compare(a, array[i]) = 0
    BY CompareEqual
  <2> QED BY <1>1, <2>1 DEF PlaceOf
<1>7. Tokens' = Tokens \cup {a}
  <2>1. ASSUME NEW t \in Tokens' PROVE t \in Tokens \cup {a}
    <3>1. PICK i \in 1 .. Len(array) + 1 : t = array'[i]
      BY <1>4, <2>1 DEF Tokens
    <3> QED BY <1>1, <1>2, <3>1 DEF Tokens, PlaceOf
  <2>2. ASSUME NEW t \in Tokens PROVE t \in Tokens'
    <3>1. PICK i \in 1 .. Len(array) : t = array[i]
      BY DEF Tokens
    <3>2. CASE i < p
      <4>1. i \in 1 .. Len(array') /\ array'[i] = t
        BY <1>1, <1>2, <1>4, <3>1, <3>2
      <4> QED BY <4>1 DEF Tokens
    <3>3. CASE i >= p
      <4>1. i + 1 \in 1 .. Len(array') /\ array'[i + 1] = t
        BY <1>1, <1>2, <1>4, <3>1, <3>3
      <4> QED BY <4>1 DEF Tokens
    <3> QED BY <1>1, <3>2, <3>3
  <2>3. a \in Tokens'
    <3>1. p \in 1 .. Len(array') /\ array'[p] = a
      BY <1>1, <1>2, <1>4 DEF PlaceOf
    <3> QED BY <3>1 DEF Tokens
  <2> QED BY <2>1, <2>2, <2>3
<1> QED BY <1>4, <1>5, <1>6, <1>7

-----------------------------------------------------------------------------
(***************************************************************************)
(* The invariant: types, order, and the frame of the search.  The frame    *)
(* says that the place of the token is within lo .. hi + 1; with the order *)
(* of the array it is enough to compare the token with the trial.          *)
(***************************************************************************)
StackInv == TypeOK /\ Sorted /\ SearchIsFramed

\* While it searches, the trial is within the array.
LEMMA TrialInArray ==
    ASSUME StackInv, searching
    PROVE  /\ Trial \in lo .. hi /\ Trial \in 1 .. Len(array)
           /\ array[Trial] \in Alternatives /\ new \in Alternatives
           /\ lo \in Nat /\ hi \in Nat /\ Len(array) \in Nat
           /\ Outcome \in Int
<1>1. /\ lo \in Nat /\ hi \in Nat /\ 1 <= lo /\ lo <= hi /\ hi <= Len(array)
      /\ Len(array) \in Nat /\ array \in Seq(Alternatives) /\ new \in Alternatives
  BY DEF StackInv, TypeOK, SearchIsFramed
<1>2. Trial \in lo .. hi
  BY <1>1 DEF Trial
<1>3. Trial \in 1 .. Len(array)
  BY <1>1, <1>2
<1>4. array[Trial] \in Alternatives
  BY <1>1, <1>3
<1>5. Outcome \in Int
  BY <1>1, <1>4, CompareEqual DEF Outcome
<1> QED BY <1>1, <1>2, <1>3, <1>4, <1>5

\* The tokens up to a trial that the new token is above are all below the new token.
LEMMA AboveTrial ==
    ASSUME StackInv, searching, Outcome > 0
    PROVE  \A i \in 1 .. Trial : Compare(new, array[i]) > 0
<1> SUFFICES ASSUME NEW i \in 1 .. Trial PROVE Compare(new, array[i]) > 0
  OBVIOUS
<1>1. /\ Trial \in 1 .. Len(array) /\ new \in Alternatives /\ array[Trial] \in Alternatives
      /\ array[i] \in Alternatives /\ i \in 1 .. Len(array)
  BY TrialInArray DEF StackInv, TypeOK
<1>2. Compare(array[Trial], new) < 0
  BY <1>1, CompareOpposite DEF Outcome
<1>3. i < Trial => Compare(array[i], array[Trial]) < 0
  BY <1>1 DEF StackInv, Sorted
<1>4. Compare(array[i], new) < 0
  BY <1>1, <1>2, <1>3, CompareTransitive
<1> QED BY <1>1, <1>4, CompareOpposite

\* The tokens from a trial on that the new token is below are all above the new token.
LEMMA BelowTrial ==
    ASSUME StackInv, searching, Outcome < 0
    PROVE  \A i \in Trial .. Len(array) : Compare(new, array[i]) < 0
<1> SUFFICES ASSUME NEW i \in Trial .. Len(array) PROVE Compare(new, array[i]) < 0
  OBVIOUS
<1>1. /\ Trial \in 1 .. Len(array) /\ new \in Alternatives /\ array[Trial] \in Alternatives
      /\ array[i] \in Alternatives /\ i \in 1 .. Len(array)
  BY TrialInArray DEF StackInv, TypeOK
<1>2. i > Trial => Compare(array[Trial], array[i]) < 0
  BY <1>1 DEF StackInv, Sorted
<1> QED BY <1>1, <1>2, CompareTransitive DEF Outcome

\* A search that ends above the trial ends at the place of the token.
LEMMA PlaceAbove ==
    ASSUME StackInv, searching, Outcome > 0, hi < Trial + 1
    PROVE  PlaceOf(new, Trial + 1)
BY TrialInArray, AboveTrial DEF StackInv, SearchIsFramed, PlaceOf

\* A search that ends below the trial ends at the place of the token.
LEMMA PlaceBelow ==
    ASSUME StackInv, searching, Outcome < 0, Trial - 1 < lo
    PROVE  PlaceOf(new, Trial)
BY TrialInArray, BelowTrial DEF StackInv, SearchIsFramed, PlaceOf

\* A pop takes away the last token of the array only.
LEMMA PoppedKeepsOrder ==
    ASSUME TypeOK, Sorted, array # <<>>, array' = SubSeq(array, 1, Len(array) - 1)
    PROVE  /\ array' \in Seq(Alternatives)
           /\ Sorted'
           /\ array[Len(array)] \in Tokens
           /\ \A b \in Tokens : array[Len(array)].end <= b.end
           /\ Tokens' = Tokens \ {array[Len(array)]}
<1>1. PICK n \in Nat : n = Len(array) /\ n >= 1
  BY DEF TypeOK
<1>2. /\ array \in Seq(Alternatives)
      /\ array' \in Seq(Alternatives) /\ Len(array') = n - 1
      /\ \A i \in 1 .. n - 1 : array'[i] = array[i]
  <2>1. \A i \in 1 .. n - 1 : array[i] \in Alternatives
    BY <1>1 DEF TypeOK
  <2>2. /\ SubSeq(array, 1, n - 1) \in Seq(Alternatives)
        /\ Len(SubSeq(array, 1, n - 1)) = IF 1 <= n - 1 THEN n - 1 - 1 + 1 ELSE 0
        /\ \A i \in 1 .. n - 1 - 1 + 1 : SubSeq(array, 1, n - 1)[i] = array[1 + i - 1]
    BY <1>1, <2>1, SubSeqProperties
  <2>3. (IF 1 <= n - 1 THEN n - 1 - 1 + 1 ELSE 0) = n - 1
    BY <1>1
  <2>4. ASSUME NEW i \in 1 .. n - 1 PROVE i \in 1 .. n - 1 - 1 + 1 /\ 1 + i - 1 = i
    BY <1>1
  <2> QED BY <1>1, <2>2, <2>3, <2>4 DEF TypeOK
<1>3. Sorted'
  BY <1>1, <1>2 DEF Sorted, Compare
<1>4. array[n] \in Tokens /\ array[n] \in Alternatives
  BY <1>1, <1>2 DEF Tokens
<1>5. \A i \in 1 .. n - 1 : /\ array[i] \in Alternatives
                            /\ Compare(array[i], array[n]) < 0
  BY <1>1, <1>2 DEF Sorted
<1>6. \A i \in 1 .. n - 1 : array[n].end <= array[i].end /\ array[i] # array[n]
  BY <1>4, <1>5, CompareEqual, LaterEndsFirst
<1>7. \A b \in Tokens : array[n].end <= b.end
  <2> SUFFICES ASSUME NEW i \in 1 .. n PROVE array[n].end <= array[i].end
    BY <1>1 DEF Tokens
  <2>1. array[n].end \in Nat
    BY <1>4, AlternativesAssumption
  <2> QED BY <1>1, <1>6, <2>1
<1>8. Tokens' = {array[i] : i \in 1 .. n - 1}
  BY <1>1, <1>2 DEF Tokens
<1>9. {array[i] : i \in 1 .. n - 1} = Tokens \ {array[n]}
  BY <1>1, <1>6 DEF Tokens
<1> QED BY <1>1, <1>2, <1>3, <1>4, <1>7, <1>8, <1>9

-----------------------------------------------------------------------------
(***************************************************************************)
(* Every step keeps the invariant and is a step of AlternativeSet.         *)
(***************************************************************************)
LEMMA StackInit == Init => StackInv /\ AsSet!SetInit
<1> SUFFICES ASSUME Init PROVE StackInv /\ AsSet!SetInit
  OBVIOUS
<1>1. TypeOK
  BY EmptySeq DEF Init, TypeOK
<1>2. Len(array) = 0
  BY DEF Init
<1> QED BY <1>1, <1>2 DEF Init, StackInv, Sorted, SearchIsFramed, Tokens, AsSet!SetInit

\* An insertion of new that ends at its place.
LEMMA InsertedStep ==
    ASSUME StackInv, NEW a \in Alternatives, NEW p, PlaceOf(a, p),
           array' = Placed(a, p), reply' = <<"INSERTED", a>>, searching' = FALSE,
           new' \in Alternatives \cup {NoToken}, lo' \in Nat, hi' \in Nat
    PROVE  StackInv' /\ AsSet!SetNext
<1>1. /\ array' \in Seq(Alternatives) /\ Sorted'
      /\ a \notin Tokens /\ Tokens' = Tokens \cup {a}
  BY PlacedKeepsOrder DEF StackInv
<1>2. TypeOK' /\ SearchIsFramed'
  BY <1>1 DEF TypeOK, SearchIsFramed
<1>3. AsSet!Insert(a)
  BY <1>1 DEF AsSet!Insert
<1> QED BY <1>1, <1>2, <1>3 DEF StackInv, AsSet!SetNext

\* Each turn of the search, insertion and pop keeps the array sorted and the search framed.
LEMMA StackStep ==
    StackInv /\ [Next]_vars => StackInv' /\ [AsSet!SetNext]_AsSet!setVars
<1> SUFFICES ASSUME StackInv, [Next]_vars
             PROVE  StackInv' /\ [AsSet!SetNext]_AsSet!setVars
  OBVIOUS
<1>1. TypeOK /\ array \in Seq(Alternatives) /\ Len(array) \in Nat
  BY DEF StackInv, TypeOK
<1>2. ASSUME NEW a \in Alternatives, InsertFirst(a)
      PROVE  StackInv' /\ AsSet!SetNext
  <2>1. PlaceOf(a, 1) /\ searching' = FALSE
    BY <1>1, <1>2 DEF InsertFirst, PlaceOf, TypeOK
  <2> QED BY <1>1, <1>2, <2>1, InsertedStep DEF InsertFirst, TypeOK
<1>3. ASSUME NEW a \in Alternatives, BeginSearch(a)
      PROVE  StackInv' /\ UNCHANGED AsSet!setVars
  <2>1. Len(array) >= 1
    BY <1>1, <1>3 DEF BeginSearch
  <2>2. TypeOK' /\ Sorted' /\ SearchIsFramed'
    BY <1>1, <1>3, <2>1 DEF BeginSearch, StackInv, TypeOK, Sorted, SearchIsFramed, Compare
  <2> QED BY <1>3, <2>2 DEF BeginSearch, StackInv, AsSet!setVars, Tokens
<1>4. ASSUME FoundDuplicate PROVE StackInv' /\ AsSet!SetNext
  <2>1. searching /\ Trial \in 1 .. Len(array) /\ array[Trial] \in Alternatives /\ new \in Alternatives
    BY <1>4, TrialInArray DEF FoundDuplicate
  <2>2. new = array[Trial]
    BY <1>4, <2>1, CompareEqual DEF FoundDuplicate, Outcome
  <2>3. new \in Tokens
    BY <2>1, <2>2 DEF Tokens
  <2>4. Tokens' = Tokens
    BY <1>4 DEF FoundDuplicate, Tokens
  <2>5. AsSet!Refuse(new)
    BY <1>4, <2>3, <2>4 DEF FoundDuplicate, AsSet!Refuse
  <2>6. searching' = FALSE /\ UNCHANGED <<array, new, lo, hi>>
    BY <1>4 DEF FoundDuplicate
  <2>7. TypeOK' /\ SearchIsFramed'
    BY <1>1, <2>6 DEF TypeOK, SearchIsFramed
  <2>8. Sorted'
    BY <2>6 DEF StackInv, Sorted
  <2> QED BY <2>1, <2>5, <2>7, <2>8 DEF AsSet!SetNext, StackInv
<1>5. ASSUME SearchAbove PROVE StackInv' /\ [AsSet!SetNext]_AsSet!setVars
  <2>1. /\ searching /\ Outcome > 0 /\ Trial \in lo .. hi /\ new \in Alternatives
        /\ lo \in Nat /\ hi \in Nat /\ Trial + 1 \in Nat
        /\ lo' = Trial + 1 /\ hi' = hi /\ new' = new
    BY <1>5, TrialInArray DEF SearchAbove
  <2>2. CASE hi < Trial + 1
    <3>1. PlaceOf(new, Trial + 1)
      BY <2>1, <2>2, PlaceAbove
    <3>2. searching' = FALSE /\ array' = Placed(new, Trial + 1) /\ reply' = <<"INSERTED", new>>
      BY <1>5, <2>2 DEF SearchAbove
    <3> QED BY <2>1, <3>1, <3>2, InsertedStep
  <2>3. CASE ~ (hi < Trial + 1)
    <3>1. UNCHANGED <<searching, array, reply>>
      BY <1>5, <2>3 DEF SearchAbove
    <3>2. \A i \in 1 .. lo' - 1 : Compare(new, array[i]) > 0
      BY <2>1, AboveTrial
    <3>3. TypeOK' /\ Sorted' /\ SearchIsFramed'
      BY <1>1, <2>1, <2>3, <3>1, <3>2
      DEF StackInv, TypeOK, Sorted, SearchIsFramed, Compare
    <3> QED BY <3>1, <3>3 DEF StackInv, AsSet!setVars, Tokens
  <2> QED BY <2>2, <2>3
<1>6. ASSUME SearchBelow PROVE StackInv' /\ [AsSet!SetNext]_AsSet!setVars
  <2>1. /\ searching /\ Outcome < 0 /\ Trial \in lo .. hi /\ new \in Alternatives
        /\ lo \in Nat /\ hi \in Nat /\ Trial - 1 \in Nat /\ Trial \in 1 .. Len(array)
        /\ lo' = lo /\ hi' = Trial - 1 /\ new' = new
    BY <1>6, TrialInArray DEF SearchBelow
  <2>2. CASE Trial - 1 < lo
    <3>1. PlaceOf(new, Trial)
      BY <2>1, <2>2, PlaceBelow
    <3>2. searching' = FALSE /\ array' = Placed(new, Trial) /\ reply' = <<"INSERTED", new>>
      BY <1>6, <2>2 DEF SearchBelow
    <3> QED BY <2>1, <3>1, <3>2, InsertedStep
  <2>3. CASE ~ (Trial - 1 < lo)
    <3>1. UNCHANGED <<searching, array, reply>>
      BY <1>6, <2>3 DEF SearchBelow
    <3>2. \A i \in hi' + 1 .. Len(array) : Compare(new, array[i]) < 0
      BY <2>1, BelowTrial
    <3>3. TypeOK' /\ Sorted' /\ SearchIsFramed'
      BY <1>1, <2>1, <2>3, <3>1, <3>2
      DEF StackInv, TypeOK, Sorted, SearchIsFramed, Compare
    <3> QED BY <3>1, <3>3 DEF StackInv, AsSet!setVars, Tokens
  <2> QED BY <2>2, <2>3
<1>7. ASSUME NEW e \in Earlemes, Pop(e) PROVE StackInv' /\ AsSet!SetNext
  <2>1. ~ searching /\ UNCHANGED <<searching, new, lo, hi>>
    BY <1>7 DEF Pop
  <2>2. CASE IsDue(e)
    <3>1. /\ array # <<>> /\ array[Len(array)].end <= e
          /\ array' = SubSeq(array, 1, Len(array) - 1)
          /\ reply' = <<"POP", array[Len(array)]>>
      BY <1>7, <2>2 DEF Pop, IsDue
    <3>2. /\ array' \in Seq(Alternatives)
          /\ Sorted'
          /\ array[Len(array)] \in Tokens
          /\ \A b \in Tokens : array[Len(array)].end <= b.end
          /\ Tokens' = Tokens \ {array[Len(array)]}
      BY <1>1, <3>1, PoppedKeepsOrder DEF StackInv
    <3>3. AsSet!Take(e)
      BY <3>1, <3>2 DEF AsSet!Take
    <3>4. TypeOK' /\ SearchIsFramed'
      BY <1>1, <2>1, <3>2 DEF TypeOK, SearchIsFramed
    <3> QED BY <3>2, <3>3, <3>4 DEF StackInv, AsSet!SetNext
  <2>3. CASE ~ IsDue(e)
    <3>1. array' = array /\ reply' = <<"POP", NoToken>>
      BY <1>7, <2>3 DEF Pop
    <3>2. \A a \in Tokens : a.end > e
      <4> SUFFICES ASSUME NEW i \in 1 .. Len(array) PROVE array[i].end > e
        BY DEF Tokens
      <4>1. array[i] \in Alternatives /\ array[Len(array)] \in Alternatives /\ array # <<>>
        BY <1>1
      <4>2. array[Len(array)].end > e
        BY <2>3, <4>1, AlternativesAssumption DEF IsDue
      <4>3. i < Len(array) => Compare(array[i], array[Len(array)]) < 0
        BY <1>1 DEF StackInv, Sorted
      <4>4. array[Len(array)].end <= array[i].end
        BY <1>1, <4>1, <4>3, LaterEndsFirst, AlternativesAssumption
      <4> QED BY <4>1, <4>2, <4>4, AlternativesAssumption
    <3>3. AsSet!TakeNothing(e)
      BY <3>1, <3>2 DEF AsSet!TakeNothing, Tokens
    <3>4. StackInv'
      BY <1>1, <2>1, <3>1 DEF StackInv, TypeOK, Sorted, SearchIsFramed, Compare
    <3> QED BY <3>3, <3>4 DEF AsSet!SetNext
  <2> QED BY <2>2, <2>3
<1>8. CASE UNCHANGED vars
  BY <1>1, <1>8 DEF vars, StackInv, TypeOK, Sorted, SearchIsFramed, Compare, AsSet!setVars, Tokens
<1> QED BY <1>2, <1>3, <1>4, <1>5, <1>6, <1>7, <1>8 DEF Next, Search

-----------------------------------------------------------------------------
\* StackInv holds in every reachable state.
LEMMA StackCorrect == Spec => []StackInv
<1>1. Init => StackInv
  BY StackInit
<1>2. StackInv /\ [Next]_vars => StackInv'
  BY StackStep
<1> QED BY <1>1, <1>2, PTL DEF Spec

\* alternative_insert and alternative_pop keep the array strictly sorted: a token is
\* never in it twice and the top ends first.
THEOREM ArrayIsSorted == Spec => []Sorted
<1>1. StackInv => Sorted
  BY DEF StackInv
<1> QED BY <1>1, StackCorrect, PTL

\* alternative_insertion_point never reads outside of the array, and what it has
\* excluded is never the place of the token.
THEOREM SearchStaysFramed == Spec => []SearchIsFramed
<1>1. StackInv => SearchIsFramed
  BY DEF StackInv
<1> QED BY <1>1, StackCorrect, PTL

\* The array of alternatives implements the set of tokens of the recognizer: a token is
\* refused exactly when it is there, and a pop gives one that ends first, if it is due.
THEOREM ArrayImplementsSet == Spec => ImplementsSet
<1>1. Init => AsSet!SetInit
  BY StackInit
<1>2. StackInv /\ [Next]_vars => [AsSet!SetNext]_AsSet!setVars
  BY StackStep
<1> QED BY <1>1, <1>2, StackCorrect, PTL DEF Spec, ImplementsSet, AsSet!SetSpec
=============================================================================
