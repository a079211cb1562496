-------------------------- MODULE LifecycleProofs --------------------------
(***************************************************************************)
(* Proofs about the lifetimes of the objects, for every set of addresses   *)
(* and whatever the bounds of the model.                                   *)
(***************************************************************************)
EXTENDS Lifecycle, FiniteSetTheorems, TLAPS

-----------------------------------------------------------------------------
(***************************************************************************)
(* The inductive invariant.                                                *)
(***************************************************************************)
\* A free address holds nothing.
FreeIsClear ==
    \A x \in Object : class[x] = "none" =>
        /\ maker[x] = NoObject /\ count[x] = 0 /\ pauses[x] = 0 /\ handles[x] = 0
        /\ x \notin lost

\* What an object refers to is there, of the right class; a grammar refers to none.
MakersLive ==
    \A y \in Living :
        IF class[y] = "g" THEN maker[y] = NoObject
        ELSE maker[y] \in Living /\ class[maker[y]] = ClassOfMaker[class[y]]

ReleasingLives == releasing # NoObject => releasing \in Living

One(holds) == IF holds THEN 1 ELSE 0

\* t_ref_count is one for each reference of the application, one for each object that
\* was made of this one, one for the reference that is given back by the call that is
\* being executed, and one for the reference that nobody has.
CountsAreExact ==
    \A x \in Living :
        /\ count[x] > 0
        /\ count[x] = handles[x] + Cardinality(Users(x)) + One(x = releasing) + One(x \in lost)

\* What was lost is not found again.
LostStayLost ==
    \A x \in lost : class[x] = "b" /\ handles[x] = 0 /\ Users(x) = {} /\ x # releasing

PausesAreExact ==
    \A t \in Living :
        /\ pauses[t] = Cardinality(Valuators(t))
        /\ Valuators(t) # {} => phase[t] = "tree"

LifecycleInv ==
    /\ LifecycleTypeOK
    /\ IsFiniteSet(Living)
    /\ FreeIsClear /\ MakersLive /\ ReleasingLives
    /\ CountsAreExact /\ LostStayLost /\ PausesAreExact

-----------------------------------------------------------------------------
(***************************************************************************)
(* Facts that the steps need.                                              *)
(***************************************************************************)

\* The users of an object can be counted.
LEMMA UsersAreFinite ==
    ASSUME IsFiniteSet(Living), NEW x
    PROVE  /\ IsFiniteSet(Users(x)) /\ Cardinality(Users(x)) \in Nat
           /\ IsFiniteSet(Valuators(x)) /\ Cardinality(Valuators(x)) \in Nat
           /\ Cardinality(Valuators(x)) <= Cardinality(Users(x))
<1>1. Users(x) \in SUBSET Living
  BY DEF Users
<1>2. Valuators(x) \in SUBSET Users(x)
  BY DEF Valuators
<1>3. IsFiniteSet(Users(x))
  BY <1>1, FS_Subset
<1>4. IsFiniteSet(Valuators(x)) /\ Cardinality(Valuators(x)) <= Cardinality(Users(x))
  BY <1>2, <1>3, FS_Subset
<1> QED
  BY <1>3, <1>4, FS_CardinalityType

\* An object that the application has a reference to is there and is not lost.
LEMMA HeldLives ==
    ASSUME LifecycleInv, NEW x \in Object, IsHeld(x)
    PROVE  x \in Living /\ x \notin lost
BY DEF LifecycleInv, LifecycleTypeOK, FreeIsClear, LostStayLost, Living, IsHeld

\* Before the first call there is no object.
LEMMA LifecycleInit == Init => LifecycleInv
<1> SUFFICES ASSUME Init PROVE LifecycleInv
  OBVIOUS
<1>1. LifecycleTypeOK
  BY DEF Init, LifecycleTypeOK
<1>2. Living = {}
  BY DEF Init, Living
<1>3. IsFiniteSet(Living)
  BY <1>2, FS_EmptySet
<1> QED
  BY <1>1, <1>2, <1>3 DEF Init, LifecycleInv, FreeIsClear, MakersLive, ReleasingLives,
     CountsAreExact, LostStayLost, PausesAreExact

-----------------------------------------------------------------------------
(***************************************************************************)
(* The calls that make an object.                                          *)
(***************************************************************************)

\* A new object that is made of m; it is owned by the application, or lost.
LEMMA MadeFrom ==
    ASSUME LifecycleInv, releasing = NoObject,
           NEW x \in Object, NEW c \in DOMAIN ClassOfMaker, NEW owned \in {0, 1},
           NEW m \in Living \ lost, class[m] = ClassOfMaker[c],
           Made(x, c, m, owned), Counted(x, m),
           lost' = (IF owned = 1 THEN lost ELSE lost \cup {x}),
           owned = 0 => c = "b",
           IF c = "v" THEN TreePause(m) /\ phase[m] = "tree" ELSE UNCHANGED pauses
    PROVE  LifecycleInv'
<1> USE DEF LifecycleInv
<1>1. x \notin Living /\ m \in Object /\ x # m /\ c \in Class /\ c # "none" /\ c # "g"
  BY DEF Living, Made, Class, ClassOfMaker
<1>2. LifecycleTypeOK'
  BY <1>1 DEF LifecycleTypeOK, Made, Counted, TreePause
<1>3. Living' = Living \cup {x}
  BY <1>1 DEF Living, Made, LifecycleTypeOK
<1>4. IsFiniteSet(Living')
  BY <1>3, FS_AddElement
<1>5. maker'[x] = m /\ \A y \in Living : maker'[y] = maker[y] /\ y # x
  BY <1>1 DEF Made, LifecycleTypeOK, Living
<1>6. class'[x] = c /\ \A y \in Living : class'[y] = class[y]
  BY <1>1, <1>5 DEF Made, LifecycleTypeOK, Living
<1>7. Users(m)' = Users(m) \cup {x} /\ \A y : y # m => Users(y)' = Users(y)
  BY <1>1, <1>3, <1>5 DEF Users
<1>8. Users(x) = {}
  BY <1>1, LifecycleAssumption DEF Users, MakersLive
<1>9. FreeIsClear'
  BY <1>1, <1>2 DEF FreeIsClear, Made, Counted, LifecycleTypeOK, Living, TreePause
<1>10. MakersLive'
  BY <1>1, <1>3, <1>5, <1>6 DEF MakersLive
<1>11. ReleasingLives'
  BY DEF ReleasingLives, Made
<1>12. Cardinality(Users(m)') = Cardinality(Users(m)) + 1
  <2>1. x \notin Users(m)
    BY <1>1 DEF Users
  <2> QED
    BY <1>7, <2>1, UsersAreFinite, FS_AddElement
<1>13. CountsAreExact'
  <2>1. ASSUME NEW y \in Living, y # m
        PROVE  /\ count'[y] = count[y] /\ handles'[y] = handles[y]
               /\ (y \in lost' <=> y \in lost)
    BY <1>1, <2>1 DEF Made, Counted, LifecycleTypeOK, Living
  <2>2. /\ count'[m] = count[m] + 1 /\ handles'[m] = handles[m]
        /\ (m \in lost' <=> m \in lost)
    BY <1>1 DEF Made, Counted, LifecycleTypeOK, Living
  <2>3. /\ count'[x] = 1 /\ handles'[x] = owned /\ (x \in lost' <=> owned = 0)
        /\ Cardinality(Users(x)') = 0
    <3>1. count'[x] = 1 /\ handles'[x] = owned
      BY <1>1 DEF Made, Counted, LifecycleTypeOK
    <3>2. x \in lost' <=> owned = 0
      BY <1>1 DEF FreeIsClear, Living
    <3>3. Users(x)' = {}
      BY <1>1, <1>7, <1>8
    <3> QED
      BY <3>1, <3>2, <3>3, FS_EmptySet
  <2>4. releasing' = NoObject /\ NoObject \notin Object
    BY LifecycleAssumption DEF Made
  <2>5. \A y \in Living : count[y] \in Nat /\ handles[y] \in Nat /\ Cardinality(Users(y)) \in Nat
    BY UsersAreFinite DEF LifecycleTypeOK, Living
  <2>6. ASSUME NEW y \in Living, y # m
        PROVE  /\ count'[y] > 0
               /\ count'[y] = handles'[y] + Cardinality(Users(y)') + One(y = releasing') + One(y \in lost')
    BY <1>7, <2>1, <2>4, <2>6 DEF CountsAreExact, One, Living
  <2>7. /\ count'[m] > 0
        /\ count'[m] = handles'[m] + Cardinality(Users(m)') + One(m = releasing') + One(m \in lost')
    BY <1>12, <2>2, <2>4, <2>5 DEF CountsAreExact, One, Living
  <2>8. /\ count'[x] > 0
        /\ count'[x] = handles'[x] + Cardinality(Users(x)') + One(x = releasing') + One(x \in lost')
    BY <2>3, <2>4 DEF One
  <2> QED
    BY <1>3, <2>6, <2>7, <2>8 DEF CountsAreExact
<1>14. LostStayLost'
  <2>1. releasing' = NoObject /\ NoObject \notin Object
    BY LifecycleAssumption DEF Made
  <2>2. ASSUME NEW y \in lost
        PROVE  class'[y] = "b" /\ handles'[y] = 0 /\ Users(y)' = {} /\ y # releasing'
    <3>1. y \in Living /\ y # m /\ y # x
      BY <1>1 DEF LostStayLost, Living, LifecycleTypeOK
    <3> QED
      BY <1>6, <1>7, <2>1, <3>1 DEF LostStayLost, Made, LifecycleTypeOK, Living
  <2>3. owned = 0 => class'[x] = "b" /\ handles'[x] = 0 /\ Users(x)' = {} /\ x # releasing'
    BY <1>1, <1>6, <1>7, <1>8, <2>1 DEF Made, LifecycleTypeOK
  <2> QED
    BY <2>2, <2>3 DEF LostStayLost
<1>15. PausesAreExact'
  <2> USE DEF TreePause
  <2>1. x # m /\ Valuators(x)' = {} /\ pauses'[x] = 0
    BY <1>1, <1>7, <1>8 DEF Valuators, FreeIsClear, LifecycleTypeOK, Living
  <2>2. \A y \in Living : y # m => Valuators(y)' = Valuators(y) /\ pauses'[y] = pauses[y]
    BY <1>6, <1>7 DEF Valuators, Users, LifecycleTypeOK, Living
  <2>3. Valuators(m)' = IF c = "v" THEN Valuators(m) \cup {x} ELSE Valuators(m)
    BY <1>1, <1>6, <1>7 DEF Valuators, Users
  <2>4. pauses'[m] = Cardinality(Valuators(m)')
    <3>1. x \notin Valuators(m)
      BY <1>1 DEF Valuators, Users
    <3>2. c = "v" => Cardinality(Valuators(m)') = Cardinality(Valuators(m)) + 1
      BY <2>3, <3>1, UsersAreFinite, FS_AddElement
    <3> QED
      BY <1>1, <2>3, <3>2 DEF PausesAreExact, LifecycleTypeOK
  <2>5. \A y \in Living : phase'[y] = phase[y]
    BY <1>1, <1>5 DEF Made, LifecycleTypeOK, Living
  <2> QED
    BY <1>3, <2>1, <2>2, <2>3, <2>4, <2>5, FS_EmptySet DEF PausesAreExact
<1> QED
  BY <1>2, <1>4, <1>9, <1>10, <1>11, <1>13, <1>14, <1>15

\* A new grammar, which is made of nothing.
LEMMA GrammarMade ==
    ASSUME LifecycleInv, NEW x \in Object, GrammarNew(x)
    PROVE  LifecycleInv'
<1> USE DEF LifecycleInv
<1>1. x \notin Living /\ releasing = NoObject /\ releasing' = NoObject /\ NoObject \notin Object
  BY LifecycleAssumption DEF Living, Made, GrammarNew
<1>2. LifecycleTypeOK'
  BY DEF LifecycleTypeOK, Made, GrammarNew, Class, ClassOfMaker
<1>3. Living' = Living \cup {x}
  BY DEF Living, Made, LifecycleTypeOK, GrammarNew
<1>4. IsFiniteSet(Living')
  BY <1>3, FS_AddElement
<1>5. \A y \in Living : /\ maker'[y] = maker[y] /\ class'[y] = class[y] /\ phase'[y] = phase[y]
                        /\ count'[y] = count[y] /\ handles'[y] = handles[y] /\ y # x
  BY <1>1 DEF Made, LifecycleTypeOK, Living, GrammarNew
<1>6. class'[x] = "g" /\ maker'[x] = NoObject /\ count'[x] = 1 /\ handles'[x] = 1
  BY DEF Made, LifecycleTypeOK, GrammarNew
<1>7. \A y \in Object : Users(y)' = Users(y)
  BY <1>1, <1>3, <1>5, <1>6 DEF Users
<1>8. Users(x) = {} /\ pauses[x] = 0 /\ x \notin lost
  BY <1>1 DEF Users, MakersLive, FreeIsClear, Living
<1>9. \A y \in Object : Valuators(y)' = Valuators(y)
  BY <1>5, <1>7 DEF Valuators, Users
<1>10. FreeIsClear'
  BY <1>2 DEF FreeIsClear, Made, LifecycleTypeOK, GrammarNew
<1>11. MakersLive'
  BY <1>3, <1>5, <1>6 DEF MakersLive
<1>12. CountsAreExact'
  <2>1. Living' \subseteq Object /\ Users(x)' = {}
    BY <1>7, <1>8 DEF Living
  <2> QED
    BY <1>1, <1>3, <1>5, <1>6, <1>7, <1>8, <2>1, FS_EmptySet DEF CountsAreExact, One, GrammarNew
<1>13. LostStayLost'
  <2>1. lost' = lost /\ lost \subseteq Object /\ \A y \in lost : y # releasing'
    BY <1>1 DEF LifecycleTypeOK, GrammarNew
  <2>2. \A y \in lost : y \in Living
    BY <2>1 DEF LostStayLost, Living
  <2> QED
    BY <1>5, <1>7, <2>1, <2>2 DEF LostStayLost
<1>14. PausesAreExact'
  <2>1. Living \subseteq Object /\ pauses' = pauses /\ Valuators(x) = {}
    BY <1>8 DEF Living, GrammarNew, Valuators
  <2> QED
    BY <1>3, <1>5, <1>8, <1>9, <2>1, FS_EmptySet DEF PausesAreExact
<1> QED
  BY <1>1, <1>2, <1>4, <1>10, <1>11, <1>12, <1>13, <1>14 DEF ReleasingLives

\* Each of the calls that make an object of another.
LEMMA MakeFromStep ==
    ASSUME LifecycleInv, NEW x \in Object, NEW m \in Object, MakeFrom(x, m)
    PROVE  LifecycleInv'
<1> USE DEF ClassOfMaker, InUse
<1>1. CASE RecognizerNew(x, m)
  <2>1. m \in Living \ lost /\ class[m] = "g"
    BY <1>1, HeldLives DEF RecognizerNew
  <2> QED
    BY <1>1, <2>1, MadeFrom DEF RecognizerNew
<1>2. CASE OrderNew(x, m)
  <2>1. m \in Living \ lost /\ class[m] = "b"
    BY <1>2, HeldLives DEF OrderNew
  <2> QED
    BY <1>2, <2>1, MadeFrom DEF OrderNew
<1>3. CASE TreeNew(x, m)
  <2>1. m \in Living \ lost /\ class[m] = "o"
    BY <1>3, HeldLives DEF TreeNew
  <2> QED
    BY <1>3, <2>1, MadeFrom DEF TreeNew
<1>4. CASE ValueNew(x, m)
  <2>1. m \in Living \ lost /\ class[m] = "t"
    BY <1>4, HeldLives DEF ValueNew
  <2> QED
    BY <1>4, <2>1, MadeFrom DEF ValueNew
<1>5. CASE BocageNew(x, m) \/ BocageInvalidLocation(x, m)
  <2>1. m \in Living /\ class[m] = "r"
    BY <1>5, HeldLives DEF BocageNew, BocageInvalidLocation
  <2>2. maker[m] \in Living \ lost /\ class[maker[m]] = "g"
    BY <2>1 DEF LifecycleInv, MakersLive, LostStayLost
  <2>3. CASE BocageNew(x, m)
    BY <2>2, <2>3, MadeFrom DEF BocageNew
  <2>4. CASE BocageInvalidLocation(x, m)
    BY <2>2, <2>4, MadeFrom DEF BocageInvalidLocation
  <2> QED
    BY <1>5, <2>3, <2>4
<1> QED
  BY <1>1, <1>2, <1>3, <1>4, <1>5 DEF MakeFrom

-----------------------------------------------------------------------------
(***************************************************************************)
(* The calls that only move an object on.                                  *)
(***************************************************************************)

\* A phase may change where no valuator walks the tree, or to that of a tree.
LEMMA MovedKeeps ==
    ASSUME LifecycleInv, NEW x \in Object, NEW to, Moved(x, to),
           to # "tree" => Valuators(x) = {}
    PROVE  LifecycleInv'
<1> USE DEF LifecycleInv, Moved
<1>1. Living' = Living /\ \A y : Users(y)' = Users(y) /\ Valuators(y)' = Valuators(y)
  BY DEF Living, Users, Valuators
<1>2. PausesAreExact'
  <2>1. \A y \in Living : phase'[y] = phase[y] \/ (y = x /\ phase'[y] = to)
                            \/ phase' # [phase EXCEPT ![x] = to]
    OBVIOUS
  <2> QED
    BY <1>1, <2>1 DEF PausesAreExact
<1> QED
  BY <1>1, <1>2 DEF LifecycleTypeOK, FreeIsClear, MakersLive, ReleasingLives,
     CountsAreExact, LostStayLost

\* Only a tree has valuators.
LEMMA OnlyTreesHaveValuators ==
    ASSUME LifecycleInv, NEW x, class[x] # "t"
    PROVE  Valuators(x) = {}
BY DEF LifecycleInv, MakersLive, Valuators, Users, ClassOfMaker

\* A tree that is not paused has no valuator.
LEMMA PausedByValuators ==
    ASSUME LifecycleInv, NEW t \in Living, pauses[t] = 0
    PROVE  Valuators(t) = {}
<1>1. Cardinality(Valuators(t)) = 0 /\ IsFiniteSet(Valuators(t))
  BY UsersAreFinite DEF LifecycleInv, PausesAreExact
<1> QED
  BY <1>1, FS_EmptySet

(* Calls that change what an object does and no count. *)
LEMMA MoveStep ==
    ASSUME LifecycleInv, NEW x \in Object, Precompute(x) \/ StartInput(x) \/ TreeNext(x)
    PROVE  LifecycleInv'
<1>1. CASE Precompute(x)
  BY <1>1, MovedKeeps, OnlyTreesHaveValuators DEF Precompute, InUse
<1>2. CASE StartInput(x)
  BY <1>2, MovedKeeps, OnlyTreesHaveValuators DEF StartInput, InUse
<1>3. CASE TreeNext(x)
  <2>1. Valuators(x) = {}
    BY <1>3, HeldLives, PausedByValuators DEF TreeNext, InUse
  <2> QED
    BY <1>3, <2>1, MovedKeeps DEF TreeNext
<1> QED
  BY <1>1, <1>2, <1>3

-----------------------------------------------------------------------------
(***************************************************************************)
(* References.                                                             *)
(***************************************************************************)

\* A reference that is taken or given up by the application, or given back to x by the
\* call that is being executed, keeps the counts exact.
LEMMA RecountKeeps ==
    ASSUME LifecycleInv, LifecycleTypeOK', NEW x \in Living \ lost,
           UNCHANGED <<class, maker, pauses, phase, lost>>,
           releasing' \in {NoObject, x}, releasing \in {NoObject, x},
           \A y \in Living : y # x => count'[y] = count[y] /\ handles'[y] = handles[y],
           count'[x] > 0,
           count'[x] - handles'[x] - One(x = releasing')
                = count[x] - handles[x] - One(x = releasing),
           \A y \in Object : class[y] = "none" => count'[y] = 0 /\ handles'[y] = 0
    PROVE  LifecycleInv'
<1> USE DEF LifecycleInv
<1>1. Living' = Living /\ \A y : Users(y)' = Users(y) /\ Valuators(y)' = Valuators(y)
  BY DEF Living, Users, Valuators
<1>2. FreeIsClear' /\ MakersLive' /\ ReleasingLives' /\ PausesAreExact'
  BY <1>1 DEF FreeIsClear, MakersLive, ReleasingLives, PausesAreExact
<1>3. x # NoObject /\ Living \subseteq Object /\ NoObject \notin Living
  BY LifecycleAssumption DEF Living
<1>4. CountsAreExact'
  <2>1. ASSUME NEW y \in Living, y # x
        PROVE  /\ count'[y] > 0
               /\ count'[y] = handles'[y] + Cardinality(Users(y)) + One(y = releasing') + One(y \in lost')
    BY <1>3, <2>1 DEF CountsAreExact, One
  <2>2. count'[x] = handles'[x] + Cardinality(Users(x)) + One(x = releasing') + One(x \in lost')
    <3>1. /\ count[x] \in Nat /\ handles[x] \in Nat /\ Cardinality(Users(x)) \in Nat
          /\ count'[x] \in Nat /\ handles'[x] \in Nat
          /\ One(x = releasing) \in {0, 1} /\ One(x = releasing') \in {0, 1}
      BY <1>3, UsersAreFinite DEF LifecycleTypeOK, One
    <3>2. count[x] = handles[x] + Cardinality(Users(x)) + One(x = releasing)
      BY <3>1 DEF CountsAreExact, One
    <3>3. count'[x] = handles'[x] + Cardinality(Users(x)) + One(x = releasing')
      BY <3>1, <3>2
    <3> QED
      BY <3>1, <3>3 DEF One
  <2> QED
    BY <1>1, <2>1, <2>2 DEF CountsAreExact
<1>5. LostStayLost'
  <2>1. \A y \in lost : y \in Living /\ y # x /\ y # NoObject
    BY <1>3 DEF LostStayLost, Living, LifecycleTypeOK
  <2> QED
    BY <1>1, <2>1 DEF LostStayLost
<1> QED
  BY <1>1, <1>2, <1>4, <1>5

(* A reference more or less, and each step of the cascade of a free. *)
LEMMA ReferenceStep ==
    ASSUME LifecycleInv, NEW x \in Object, Ref(x) \/ Unref(x) \/ BocageNoParse(x) \/ Release(x)
    PROVE  LifecycleInv'
<1> USE DEF LifecycleInv, LifecycleTypeOK, FreeIsClear
<1>0. x # NoObject
  BY LifecycleAssumption
<1>1. CASE Ref(x)
  <2>1. x \in Living \ lost
    BY <1>1, HeldLives DEF Ref
  <2> QED
    BY <1>1, <2>1, RecountKeeps DEF Ref, Living
<1>2. CASE Unref(x)
  <2>1. x \in Living \ lost /\ count[x] > 0
    BY <1>2, HeldLives DEF Unref, CountsAreExact
  <2> QED
    BY <1>0, <1>2, <2>1, RecountKeeps DEF Unref, Living, One, IsHeld
<1>3. CASE BocageNoParse(x)
  <2>1. x \in Living /\ class[x] = "r"
    BY <1>3, HeldLives DEF BocageNoParse, InUse
  <2>2. maker[x] \in Living \ lost
    BY <2>1 DEF MakersLive, LostStayLost, ClassOfMaker
  <2> QED
    BY <1>3, <2>2, RecountKeeps, LifecycleAssumption DEF BocageNoParse, InUse, Living, One
<1>4. CASE Release(x)
  <2>1. x \in Living \ lost
    BY <1>0, <1>4 DEF Release, ReleasingLives, LostStayLost
  <2> QED
    BY <1>0, <1>4, <2>1, RecountKeeps DEF Release, Living, One
<1> QED
  BY <1>1, <1>2, <1>3, <1>4

-----------------------------------------------------------------------------
(***************************************************************************)
(* The last reference.                                                     *)
(***************************************************************************)

\* An object whose last reference is given back is not in use: neither the application
\* nor another object has one.
LEMMA FreedIsUnused ==
    ASSUME LifecycleInv, NEW x \in Object, Free(x)
    PROVE  x \in Living \ lost /\ handles[x] = 0 /\ Users(x) = {}
<1> USE DEF LifecycleInv
<1>1. x \in Living \ lost
  BY LifecycleAssumption DEF Free, ReleasingLives, LostStayLost
<1>2. handles[x] \in Nat /\ Cardinality(Users(x)) \in Nat /\ IsFiniteSet(Users(x))
  BY UsersAreFinite DEF LifecycleTypeOK
<1>3. 1 = handles[x] + Cardinality(Users(x)) + 1
  BY <1>1, <1>2 DEF Free, CountsAreExact, One
<1>4. handles[x] = 0 /\ Cardinality(Users(x)) = 0
  BY <1>2, <1>3
<1> QED
  BY <1>1, <1>2, <1>4, FS_EmptySet

\* What is freed gives its reference, and its pause, back to its maker.
LEMMA FreeStep ==
    ASSUME LifecycleInv, NEW x \in Object, Free(x)
    PROVE  LifecycleInv'
<1> USE DEF LifecycleInv
<1>0. PICK m : m = maker[x]
  OBVIOUS
<1>1. x \in Living \ lost /\ handles[x] = 0 /\ Users(x) = {} /\ NoObject \notin Object
  BY FreedIsUnused, LifecycleAssumption
<1>2. releasing = x /\ releasing' = m /\ handles' = handles /\ lost' = lost
  BY <1>0 DEF Free, NextReleased
<1>3. IF class[x] = "g" THEN m = NoObject
      ELSE m \in Living /\ m # x /\ class[m] = ClassOfMaker[class[x]]
  BY <1>0, <1>1 DEF MakersLive, ClassOfMaker, Users
<1>4. Living' = Living \ {x}
  BY <1>1 DEF Living, Free, LifecycleTypeOK
<1>5. \A y \in Living' : /\ class'[y] = class[y] /\ maker'[y] = maker[y] /\ y # x
                         /\ count'[y] = count[y] /\ phase'[y] = phase[y] /\ y \in Object
                         /\ y \in Living
  BY <1>4 DEF Free, LifecycleTypeOK, Living
<1>6. IsFiniteSet(Living')
  BY <1>4, FS_RemoveElement
<1>7. /\ Users(m)' = Users(m) \ {x} /\ x \in Users(m)
      /\ \A y : y # m => Users(y)' = Users(y)
  <2>1. \A y : Users(y)' = Users(y) \ {x}
    BY <1>4, <1>5 DEF Users
  <2>2. \A y : x \in Users(y) <=> y = m
    BY <1>0, <1>1 DEF Users
  <2> QED
    BY <2>1, <2>2
<1>8. Valuators(m)' = Valuators(m) \ {x} /\ \A y : y # m => Valuators(y)' = Valuators(y)
  BY <1>5, <1>7 DEF Valuators, Users
<1>9. class[x] = "v" => x \in Valuators(m) /\ m \in Living
  BY <1>0, <1>1, <1>3 DEF Valuators, Users
<1>10. class[x] = "v" => pauses[m] \in Nat /\ pauses[m] > 0
  <2> SUFFICES ASSUME class[x] = "v" PROVE pauses[m] \in Nat /\ pauses[m] > 0
    OBVIOUS
  <2>1. IsFiniteSet(Valuators(m)) /\ Cardinality(Valuators(m)) \in Nat
    BY UsersAreFinite
  <2>2. Cardinality(Valuators(m)) # 0
    BY <1>9, <2>1, FS_EmptySet
  <2>3. pauses[m] = Cardinality(Valuators(m))
    BY <1>9 DEF PausesAreExact
  <2> QED
    BY <2>1, <2>2, <2>3
<1>11. LifecycleTypeOK'
  <2>1. pauses' \in [Object -> Nat]
    BY <1>0, <1>3, <1>10 DEF Free, LifecycleTypeOK, Living
  <2>2. m \in Object \cup {NoObject}
    BY <1>0 DEF LifecycleTypeOK
  <2> QED
    BY <1>2, <2>1, <2>2 DEF LifecycleTypeOK, Free
<1>12. FreeIsClear'
  <2>1. pauses[x] = 0
    <3>1. Valuators(x) = {}
      BY <1>1 DEF Valuators
    <3> QED
      BY <1>1, <3>1, FS_EmptySet DEF PausesAreExact
  <2>2. \A y \in Object : y # m => pauses'[y] = pauses[y]
    BY <1>0 DEF Free, LifecycleTypeOK
  <2>3. m \in Object => class'[m] # "none"
    BY <1>1, <1>3, <1>4 DEF Living
  <2>4. x # m
    BY <1>1, <1>3
  <2>5. \A y \in Object : class'[y] = "none" => pauses'[y] = 0
    BY <1>0, <2>1, <2>2, <2>3, <2>4 DEF Free, FreeIsClear, LifecycleTypeOK
  <2> QED
    BY <1>1, <1>2, <2>5 DEF Free, FreeIsClear, LifecycleTypeOK
<1>13. MakersLive'
  <2>1. \A y \in Living' : maker[y] # x
    BY <1>1, <1>5 DEF Users
  <2> QED
    BY <1>4, <1>5, <2>1 DEF MakersLive
<1>14. ReleasingLives'
  BY <1>1, <1>2, <1>3, <1>4 DEF ReleasingLives
<1>15. CountsAreExact'
  <2>1. ASSUME NEW y \in Living', y # m
        PROVE  /\ count'[y] > 0
               /\ count'[y] = handles'[y] + Cardinality(Users(y)') + One(y = releasing') + One(y \in lost')
    BY <1>2, <1>5, <1>7, <2>1 DEF CountsAreExact, One
  <2>2. ASSUME m \in Living'
        PROVE  /\ count'[m] > 0
               /\ count'[m] = handles'[m] + Cardinality(Users(m)') + One(m = releasing') + One(m \in lost')
    <3>1. Cardinality(Users(m)') = Cardinality(Users(m)) - 1
      BY <1>5, <1>7, <2>2, UsersAreFinite, FS_RemoveElement
    <3>2. count'[m] = count[m] /\ m # x
      BY <1>5, <2>2
    <3>3. Cardinality(Users(m)) \in Nat /\ handles[m] \in Nat
      BY <1>5, <2>2, UsersAreFinite DEF LifecycleTypeOK
    <3> QED
      BY <1>2, <1>5, <2>2, <3>1, <3>2, <3>3 DEF CountsAreExact, One
  <2> QED
    BY <2>1, <2>2 DEF CountsAreExact
<1>16. LostStayLost'
  <2>1. \A y \in lost : y \in Living' /\ y # m
    <3>1. \A y \in lost : y \in Living /\ y # x
      BY <1>1 DEF LostStayLost, Living, LifecycleTypeOK
    <3>2. m \notin lost
      BY <1>1, <1>7 DEF LostStayLost, LifecycleTypeOK
    <3> QED
      BY <1>4, <3>1, <3>2
  <2> QED
    BY <1>2, <1>5, <1>7, <2>1 DEF LostStayLost
<1>17. PausesAreExact'
  <2>1. ASSUME NEW t \in Living', t # m
        PROVE  /\ pauses'[t] = Cardinality(Valuators(t)')
               /\ Valuators(t)' # {} => phase'[t] = "tree"
    BY <1>0, <1>5, <1>8, <2>1 DEF PausesAreExact, Free, LifecycleTypeOK
  <2>2. ASSUME m \in Living'
        PROVE  /\ pauses'[m] = Cardinality(Valuators(m)')
               /\ Valuators(m)' # {} => phase'[m] = "tree"
    <3>1. CASE class[x] = "v"
      <4>1. Cardinality(Valuators(m)') = Cardinality(Valuators(m)) - 1
        BY <1>8, <1>9, <3>1, UsersAreFinite, FS_RemoveElement
      <4>2. pauses'[m] = pauses[m] - 1
        BY <1>0, <1>5, <2>2, <3>1 DEF Free, LifecycleTypeOK
      <4> QED
        BY <1>5, <1>8, <2>2, <4>1, <4>2 DEF PausesAreExact
    <3>2. CASE class[x] # "v"
      <4>1. Valuators(m)' = Valuators(m) /\ pauses'[m] = pauses[m]
        BY <1>0, <1>8, <3>2 DEF Valuators, Users, Free
      <4> QED
        BY <1>5, <2>2, <4>1 DEF PausesAreExact
    <3> QED
      BY <3>1, <3>2
  <2> QED
    BY <2>1, <2>2 DEF PausesAreExact
<1> QED
  BY <1>6, <1>11, <1>12, <1>13, <1>14, <1>15, <1>16, <1>17

-----------------------------------------------------------------------------
(***************************************************************************)
(* The theorems.                                                           *)
(***************************************************************************)

(* Every call keeps the invariant. *)
LEMMA LifecycleStep ==
    ASSUME LifecycleInv, [Next]_lifecycleVars
    PROVE  LifecycleInv'
<1>1. CASE UNCHANGED lifecycleVars
  <2>1. Living' = Living /\ \A y : Users(y)' = Users(y) /\ Valuators(y)' = Valuators(y)
    BY <1>1 DEF Living, Users, Valuators, lifecycleVars
  <2> QED
    BY <1>1, <2>1 DEF LifecycleInv, LifecycleTypeOK, FreeIsClear, MakersLive, ReleasingLives,
       CountsAreExact, LostStayLost, PausesAreExact, lifecycleVars
<1>2. ASSUME NEW x \in Object, Call(x) PROVE LifecycleInv'
  BY <1>2, GrammarMade, MakeFromStep, MoveStep, ReferenceStep DEF Call
<1>3. ASSUME NEW x \in Object, Release(x) \/ Free(x) PROVE LifecycleInv'
  BY <1>3, ReferenceStep, FreeStep
<1> QED
  BY <1>1, <1>2, <1>3 DEF Next

(* The counts are right in every state. *)
LEMMA LifecycleInvariant == Spec => []LifecycleInv
BY LifecycleInit, LifecycleStep, PTL DEF Spec

\* The types, and no object without the one that it was made of.
THEOREM LifecycleTypeCorrect == Spec => []LifecycleTypeOK
<1>1. LifecycleInv => LifecycleTypeOK
  BY DEF LifecycleInv
<1> QED
  BY <1>1, LifecycleInvariant, PTL

\* Whatever objects the application makes and in whatever order it takes and gives back
\* references, nothing is freed that it owns or that another object uses
\* (the ..._unref functions, 2861, 5664, 15344 and on).
THEOREM NothingInUseFreed == Spec => []NothingInUseIsFreed
<1>1. LifecycleInv => NothingInUseIsFreed
  BY HeldLives DEF LifecycleInv, NothingInUseIsFreed, MakersLive, ReleasingLives, Living, IsHeld,
     FreeIsClear, LifecycleTypeOK
<1> QED
  BY <1>1, LifecycleInvariant, PTL

\* Between calls everything that is left is owned or used, except for the bocages that
\* marpa_b_new has lost: a cascade of frees stops nowhere too early.
THEOREM NothingUnusedKept == Spec => []NothingUnusedIsKept
<1>1. ASSUME LifecycleInv PROVE NothingUnusedIsKept
  <2>1. ASSUME releasing = NoObject, NEW x \in Living \ lost, ~ IsHeld(x), Users(x) = {}
        PROVE  FALSE
    <3>1. handles[x] = 0 /\ x # NoObject
      BY <1>1, <2>1, LifecycleAssumption DEF IsHeld, LifecycleInv, LifecycleTypeOK, Living
    <3>2. Cardinality(Users(x)) = 0
      BY <2>1, FS_EmptySet
    <3> QED
      BY <1>1, <2>1, <3>1, <3>2 DEF LifecycleInv, CountsAreExact, One
  <2> QED
    BY <2>1 DEF NothingUnusedIsKept
<1> QED
  BY <1>1, LifecycleInvariant, PTL

\* A tree is paused once for each of its valuators, each pause has a reference behind it,
\* and a tree with a valuator stays where it is (tree_pause, tree_unpause and
\* marpa_t_next).
THEOREM TreesAreHeld == Spec => []ValuatorsHoldTheirTree
<1>1. ASSUME LifecycleInv, NEW t \in Living
      PROVE  pauses[t] <= count[t]
  <2>1. /\ Cardinality(Valuators(t)) \in Nat /\ Cardinality(Users(t)) \in Nat
        /\ Cardinality(Valuators(t)) <= Cardinality(Users(t))
    BY <1>1, UsersAreFinite DEF LifecycleInv
  <2>2. handles[t] \in Nat /\ One(t = releasing) \in Nat /\ One(t \in lost) \in Nat
    BY <1>1 DEF LifecycleInv, LifecycleTypeOK, Living, One
  <2>3. pauses[t] = Cardinality(Valuators(t))
    BY <1>1 DEF LifecycleInv, PausesAreExact
  <2>4. count[t] = handles[t] + Cardinality(Users(t)) + One(t = releasing) + One(t \in lost)
    BY <1>1 DEF LifecycleInv, CountsAreExact
  <2> QED
    BY <2>1, <2>2, <2>3, <2>4
<1>2. LifecycleInv => ValuatorsHoldTheirTree
  BY <1>1 DEF LifecycleInv, PausesAreExact, ValuatorsHoldTheirTree
<1> QED
  BY <1>2, LifecycleInvariant, PTL
=============================================================================
