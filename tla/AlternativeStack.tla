-------------------------- MODULE AlternativeStack --------------------------
(***************************************************************************)
(* The sorted array t_alternatives of a recognizer: alternative_insert     *)
(* finds the place of a token by binary search, one action per turn of the *)
(* loop, and moves the tokens above it up; alternative_pop takes the top.  *)
(* Indices begin at 1, and hi and lo stand one above those of the code.    *)
(***************************************************************************)
EXTENDS Integers, Sequences

CONSTANTS
    Alternatives,   \* the tokens, records with sym, start and end
    Earlemes,       \* the earlemes at which tokens are popped
    NoToken         \* what a pop returns when it pops nothing

ASSUME AlternativesAssumption ==
    /\ Alternatives \subseteq [sym : Nat, start : Nat, end : Nat]
    /\ Earlemes \subseteq Nat

VARIABLES
    array,      \* t_alternatives, the top last
    searching,  \* alternative_insertion_point is running
    new,        \* the token to insert
    lo, hi,     \* the part of the array still to be searched
    reply       \* the operation that returned last, and its token

vars == <<array, searching, new, lo, hi, reply>>

\* A mutant of Compare: the start is left out.
CompareWithoutStart(a, b) ==
    IF a.end # b.end THEN b.end - a.end ELSE a.sym - b.sym

\* alternative_cmp: the token that ends last first, then by symbol and start.
Compare(a, b) ==
    IF a.end # b.end THEN b.end - a.end
    ELSE IF a.sym # b.sym THEN a.sym - b.sym
    ELSE a.start - b.start

Init ==
    /\ array = <<>>
    /\ searching = FALSE /\ new = NoToken /\ lo = 1 /\ hi = 0
    /\ reply = <<"POP", NoToken>>

\* The array with a at place p and the tokens from p on moved up.
Placed(a, p) ==
    [i \in 1 .. Len(array) + 1 |->
        IF i < p THEN array[i] ELSE IF i = p THEN a ELSE array[i - 1]]

InsertFirst(a) ==
    /\ ~ searching /\ array = <<>>
    /\ array' = Placed(a, 1)
    /\ reply' = <<"INSERTED", a>>
    /\ UNCHANGED <<searching, new, lo, hi>>

BeginSearch(a) ==
    /\ ~ searching /\ array # <<>>
    /\ searching' = TRUE
    /\ new' = a /\ lo' = 1 /\ hi' = Len(array)
    /\ UNCHANGED <<array, reply>>

Trial == lo + (hi - lo) \div 2
Outcome == Compare(new, array[Trial])

FoundDuplicate ==
    /\ searching /\ Outcome = 0
    /\ searching' = FALSE
    /\ reply' = <<"DUPLICATE", new>>
    /\ UNCHANGED <<array, new, lo, hi>>

\* A mutant of SearchAbove: the token takes the place of the trial.
SearchAboveAtTrial ==
    /\ searching /\ Outcome > 0
    /\ lo' = Trial + 1 /\ hi' = hi
    /\ IF hi < Trial + 1
         THEN /\ searching' = FALSE
              /\ array' = Placed(new, Trial)
              /\ reply' = <<"INSERTED", new>>
         ELSE UNCHANGED <<searching, array, reply>>
    /\ UNCHANGED new

\* A mutant of SearchBelow: hi stays at the trial.
SearchBelowFromTrial ==
    /\ searching /\ Outcome < 0
    /\ lo' = lo /\ hi' = Trial
    /\ IF Trial < lo
         THEN /\ searching' = FALSE
              /\ array' = Placed(new, Trial)
              /\ reply' = <<"INSERTED", new>>
         ELSE UNCHANGED <<searching, array, reply>>
    /\ UNCHANGED new

\* The token belongs above the trial, or below it.
SearchAbove ==
    /\ searching /\ Outcome > 0
    /\ lo' = Trial + 1 /\ hi' = hi
    /\ IF hi < Trial + 1
         THEN /\ searching' = FALSE
              /\ array' = Placed(new, Trial + 1)
              /\ reply' = <<"INSERTED", new>>
         ELSE UNCHANGED <<searching, array, reply>>
    /\ UNCHANGED new

SearchBelow ==
    /\ searching /\ Outcome < 0
    /\ lo' = lo /\ hi' = Trial - 1
    /\ IF Trial - 1 < lo
         THEN /\ searching' = FALSE
              /\ array' = Placed(new, Trial)
              /\ reply' = <<"INSERTED", new>>
         ELSE UNCHANGED <<searching, array, reply>>
    /\ UNCHANGED new

IsDue(e) == array # <<>> /\ array[Len(array)].end <= e

Pop(e) ==
    /\ ~ searching
    /\ IF IsDue(e)
         THEN /\ array' = SubSeq(array, 1, Len(array) - 1)
              /\ reply' = <<"POP", array[Len(array)]>>
         ELSE /\ array' = array
              /\ reply' = <<"POP", NoToken>>
    /\ UNCHANGED <<searching, new, lo, hi>>

Search == FoundDuplicate \/ SearchAbove \/ SearchBelow

Next ==
    \/ \E a \in Alternatives : InsertFirst(a) \/ BeginSearch(a)
    \/ Search
    \/ \E e \in Earlemes : Pop(e)

Spec == Init /\ [][Next]_vars /\ WF_vars(Search)

-----------------------------------------------------------------------------
(***************************************************************************)
(* Properties.                                                             *)
(***************************************************************************)
TypeOK ==
    /\ array \in Seq(Alternatives)
    /\ searching \in BOOLEAN
    /\ new \in Alternatives \cup {NoToken}
    /\ searching => new \in Alternatives
    /\ lo \in Nat /\ hi \in Nat

\* The array is strictly sorted, so its top ends first and no token is in it twice.
Sorted == \A i, j \in 1 .. Len(array) : i < j => Compare(array[i], array[j]) < 0

\* The binary search never looks outside of the array, and the place of the token
\* is neither below lo nor above hi + 1.
SearchIsFramed ==
    searching =>
        /\ 1 <= lo /\ lo <= hi /\ hi <= Len(array)
        /\ \A i \in 1 .. lo - 1 : Compare(new, array[i]) > 0
        /\ \A i \in hi + 1 .. Len(array) : Compare(new, array[i]) < 0

\* The search ends.
SearchEnds == searching ~> ~ searching

\* The array is the set of tokens that the recognizer takes it for.
Tokens == {array[i] : i \in 1 .. Len(array)}
AsSet == INSTANCE AlternativeSet WITH pending <- Tokens
ImplementsSet == AsSet!SetSpec
=============================================================================
