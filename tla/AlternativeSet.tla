--------------------------- MODULE AlternativeSet ---------------------------
(***************************************************************************)
(* What the recognizer asks of its alternatives: a set of tokens to which  *)
(* a token is added once, and from which one that ends first is taken, if  *)
(* it ends at or before the given earleme.                                 *)
(***************************************************************************)
EXTENDS Integers

CONSTANTS
    Alternatives,   \* the tokens, records with sym, start and end
    Earlemes,       \* the earlemes at which tokens are taken
    NoToken         \* what a take returns when no token is due

VARIABLES
    pending,    \* the set of tokens
    reply       \* the operation that returned last, and its token

setVars == <<pending, reply>>

SetInit == pending = {} /\ reply = <<"POP", NoToken>>

Insert(a) ==
    /\ a \notin pending
    /\ pending' = pending \cup {a}
    /\ reply' = <<"INSERTED", a>>

Refuse(a) ==
    /\ a \in pending
    /\ reply' = <<"DUPLICATE", a>>
    /\ UNCHANGED pending

Take(e) ==
    \E a \in pending :
        /\ a.end <= e
        /\ \A b \in pending : a.end <= b.end
        /\ pending' = pending \ {a}
        /\ reply' = <<"POP", a>>

TakeNothing(e) ==
    /\ \A a \in pending : a.end > e
    /\ reply' = <<"POP", NoToken>>
    /\ UNCHANGED pending

SetNext ==
    \/ \E a \in Alternatives : Insert(a) \/ Refuse(a)
    \/ \E e \in Earlemes : Take(e) \/ TakeNothing(e)

SetSpec == SetInit /\ [][SetNext]_setVars
=============================================================================
