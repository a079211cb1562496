----------------------------- MODULE Lifecycle -----------------------------
(***************************************************************************)
(* The lifetimes of the objects of Libmarpa, of its six classes: grammar,  *)
(* recognizer, bocage, order, tree and valuator.  An object is made with   *)
(* one reference, which the application owns, and takes a reference on     *)
(* another object, here its maker; it is freed with its last reference,    *)
(* and gives its own back.  A valuator also pauses its tree.               *)
(*                                                                         *)
(* A bocage holds its grammar and not its recognizer, of which it keeps    *)
(* nothing.  The calls are those of an application that uses the objects   *)
(* it has a reference to.  One call of ..._unref is several steps, one for *)
(* each count that goes down: releasing is the object of the next one.     *)
(***************************************************************************)
EXTENDS Naturals, FiniteSets

CONSTANTS
    Object,         \* the addresses that an allocation may return
    NoObject,       \* NULL
    MaxHandles,     \* bound: references of the application to one object
    MaxShared,      \* bound: objects to which it has more than one
    MaxLost         \* bound: bocages lost

ASSUME LifecycleAssumption ==
    /\ NoObject \notin Object
    /\ MaxHandles \in Nat \ {0}
    /\ MaxShared \in Nat /\ MaxLost \in Nat

VARIABLES
    class,      \* the class of each object, "none" for a free address
    maker,      \* the object that it has taken a reference on
    count,      \* t_ref_count
    pauses,     \* t_pause_counter
    phase,      \* how far it is: t_is_precomputed, t_input_phase, the state of a tree
    handles,    \* history: how many references the application owns
    lost,       \* history: the bocages that no call has returned
    releasing   \* the object whose count goes down next, NoObject between calls

lifecycleVars == <<class, maker, count, pauses, phase, handles, lost, releasing>>

ClassOfMaker == [r |-> "g", b |-> "g", o |-> "b", t |-> "o", v |-> "t"]
Class == {"g"} \cup DOMAIN ClassOfMaker
FirstPhase == [g |-> "open", r |-> "before", b |-> "made", o |-> "made", t |-> "before", v |-> "made"]

Living == {x \in Object : class[x] # "none"}
Users(x) == {y \in Living : maker[y] = x}
Valuators(x) == {y \in Users(x) : class[y] = "v"}

IsHeld(x) == handles[x] > 0
Shared == {x \in Object : handles[x] > 1}
InUse(x, c) == releasing = NoObject /\ class[x] = c /\ IsHeld(x)

-----------------------------------------------------------------------------
(***************************************************************************)
(* The calls that make an object.                                          *)
(***************************************************************************)
\* The new object x of class c is returned to the application, or lost.
Made(x, c, m, owned) ==
    /\ class[x] = "none"
    /\ class' = [class EXCEPT ![x] = c]
    /\ maker' = [maker EXCEPT ![x] = m]
    /\ phase' = [phase EXCEPT ![x] = FirstPhase[c]]
    /\ handles' = [handles EXCEPT ![x] = owned]
    /\ UNCHANGED releasing

\* A mutant of Counted: the new object does not count as a user of its maker.
NotCounted(x, m) == count' = [count EXCEPT ![x] = 1]
Counted(x, m) == count' = [count EXCEPT ![x] = 1, ![m] = @ + 1]

GrammarNew(x) ==
    /\ releasing = NoObject
    /\ Made(x, "g", NoObject, 1)
    /\ count' = [count EXCEPT ![x] = 1]
    /\ UNCHANGED <<pauses, lost>>

RecognizerNew(x, g) ==
    /\ InUse(g, "g") /\ phase[g] = "precomputed"
    /\ Made(x, "r", g, 1) /\ Counted(x, g)
    /\ UNCHANGED <<pauses, lost>>

\* The recognizer has a parse up to a valid location.
BocageNew(x, r) ==
    /\ InUse(r, "r") /\ phase[r] = "reading"
    /\ Made(x, "b", maker[r], 1) /\ Counted(x, maker[r])
    /\ UNCHANGED <<pauses, lost>>

\* There is no parse: what was made, with its reference to the grammar, is taken back.
BocageNoParse(r) ==
    /\ InUse(r, "r") /\ phase[r] = "reading"
    /\ count' = [count EXCEPT ![maker[r]] = @ + 1]
    /\ releasing' = maker[r]
    /\ UNCHANGED <<class, maker, pauses, phase, handles, lost>>

\* There is no such location: marpa_b_new returns NULL, and what was made remains.
BocageInvalidLocation(x, r) ==
    /\ InUse(r, "r") /\ phase[r] = "reading"
    /\ Cardinality(lost) < MaxLost
    /\ Made(x, "b", maker[r], 0) /\ Counted(x, maker[r])
    /\ lost' = lost \cup {x}
    /\ UNCHANGED pauses

OrderNew(x, b) ==
    /\ InUse(b, "b")
    /\ Made(x, "o", b, 1) /\ Counted(x, b)
    /\ UNCHANGED <<pauses, lost>>

TreeNew(x, o) ==
    /\ InUse(o, "o")
    /\ Made(x, "t", o, 1) /\ Counted(x, o)
    /\ UNCHANGED <<pauses, lost>>

NotPaused(t) == UNCHANGED pauses    \* a mutant of TreePause
TreePause(t) == pauses' = [pauses EXCEPT ![t] = @ + 1]

\* Refused before the first tree and after the last one.
ValueNew(x, t) ==
    /\ InUse(t, "t") /\ phase[t] = "tree"
    /\ Made(x, "v", t, 1) /\ Counted(x, t)
    /\ TreePause(t)
    /\ UNCHANGED lost

-----------------------------------------------------------------------------
(***************************************************************************)
(* The calls that the others depend on.                                    *)
(***************************************************************************)
Moved(x, to) ==
    /\ phase' = [phase EXCEPT ![x] = to]
    /\ UNCHANGED <<class, maker, count, pauses, handles, lost, releasing>>

Precompute(g) == InUse(g, "g") /\ phase[g] = "open" /\ Moved(g, "precomputed")
StartInput(r) == InUse(r, "r") /\ phase[r] = "before" /\ Moved(r, "reading")

\* marpa_t_next is refused on a paused tree.  The first call may find no tree.
TreeNext(t) ==
    /\ InUse(t, "t") /\ pauses[t] = 0
    /\ \/ phase[t] = "before" /\ Moved(t, "tree")
       \/ phase[t] # "exhausted" /\ Moved(t, "exhausted")

-----------------------------------------------------------------------------
(***************************************************************************)
(* References.                                                             *)
(***************************************************************************)
Ref(x) ==
    /\ releasing = NoObject /\ IsHeld(x) /\ handles[x] < MaxHandles
    /\ Cardinality(Shared \cup {x}) <= MaxShared
    /\ count' = [count EXCEPT ![x] = @ + 1]
    /\ handles' = [handles EXCEPT ![x] = @ + 1]
    /\ UNCHANGED <<class, maker, pauses, phase, lost, releasing>>

Unref(x) ==
    /\ releasing = NoObject /\ IsHeld(x)
    /\ handles' = [handles EXCEPT ![x] = @ - 1]
    /\ releasing' = x
    /\ UNCHANGED <<class, maker, count, pauses, phase, lost>>

\* Another reference is left.
Release(x) ==
    /\ releasing = x /\ count[x] > 1
    /\ count' = [count EXCEPT ![x] = @ - 1]
    /\ releasing' = NoObject
    /\ UNCHANGED <<class, maker, pauses, phase, handles, lost>>

NoneAfter(x) == NoObject    \* a mutant of NextReleased: what x refers to is kept
NextReleased(x) == maker[x]

\* The last reference: grammar_free, recce_free and the others give back their own,
\* a valuator with the pause of its tree.
Free(x) ==
    /\ releasing = x /\ count[x] = 1
    /\ class' = [class EXCEPT ![x] = "none"]
    /\ maker' = [maker EXCEPT ![x] = NoObject]
    /\ count' = [count EXCEPT ![x] = 0]
    /\ phase' = [phase EXCEPT ![x] = "none"]
    /\ pauses' = IF class[x] = "v" THEN [pauses EXCEPT ![maker[x]] = @ - 1] ELSE pauses
    /\ releasing' = NextReleased(x)
    /\ UNCHANGED <<handles, lost>>

-----------------------------------------------------------------------------
Init ==
    /\ class = [x \in Object |-> "none"]
    /\ maker = [x \in Object |-> NoObject]
    /\ count = [x \in Object |-> 0]
    /\ pauses = [x \in Object |-> 0]
    /\ phase = [x \in Object |-> "none"]
    /\ handles = [x \in Object |-> 0]
    /\ lost = {} /\ releasing = NoObject

MakeFrom(x, m) ==
    \/ RecognizerNew(x, m) \/ BocageNew(x, m) \/ BocageInvalidLocation(x, m)
    \/ OrderNew(x, m) \/ TreeNew(x, m) \/ ValueNew(x, m)

Call(x) ==
    \/ GrammarNew(x) \/ Precompute(x) \/ StartInput(x) \/ BocageNoParse(x) \/ TreeNext(x)
    \/ Ref(x) \/ Unref(x)
    \/ \E m \in Object : MakeFrom(x, m)

Next == \E x \in Object : Call(x) \/ Release(x) \/ Free(x)

Spec == Init /\ [][Next]_lifecycleVars

-----------------------------------------------------------------------------
(***************************************************************************)
(* Properties.                                                             *)
(***************************************************************************)
LifecycleTypeOK ==
    /\ class \in [Object -> Class \cup {"none"}]
    /\ maker \in [Object -> Object \cup {NoObject}]
    /\ count \in [Object -> Nat] /\ pauses \in [Object -> Nat] /\ handles \in [Object -> Nat]
    /\ lost \subseteq Object
    /\ releasing \in Object \cup {NoObject}

\* No object is freed while the application owns a reference to it or while another
\* object uses it, in the middle of a cascade of frees too, whatever the order in which
\* the application gives back its references.
NothingInUseIsFreed ==
    /\ \A x \in Object : IsHeld(x) => class[x] # "none"
    /\ \A y \in Living : class[y] # "g" => maker[y] \in Living /\ class[maker[y]] = ClassOfMaker[class[y]]
    /\ releasing # NoObject => releasing \in Living

\* When no call is being executed, what is neither owned by the application nor used by
\* another object is freed, except for a bocage that marpa_b_new has lost.
NothingUnusedIsKept ==
    releasing = NoObject =>
        \A x \in Living \ lost : IsHeld(x) \/ Users(x) # {}

\* A valuator walks the nooks of its tree: as long as there is one the tree is paused,
\* once for each, and so is neither advanced nor exhausted; and a pause is always backed
\* by a reference, as tree_pause and tree_unpause assert.
ValuatorsHoldTheirTree ==
    \A t \in Living :
        /\ pauses[t] = Cardinality(Valuators(t)) /\ pauses[t] <= count[t]
        /\ Valuators(t) # {} => phase[t] = "tree"

\* "The application can rely on Libmarpa objects being cleaned up properly as part of
\* Perl's usual garbage collection" (Thin.pod): a bocage that marpa_b_new has not
\* returned is not.
EverythingIsCleanedUp ==
    releasing = NoObject /\ (\A x \in Object : ~ IsHeld(x)) => Living = {}
=============================================================================
