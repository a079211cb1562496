----------------------------- MODULE EarleyChart -----------------------------
(***************************************************************************)
(* The reference: Earley's algorithm without Leo items, as the least chart *)
(* that holds the start item and is closed under prediction, scanning and  *)
(* completion.  It has no code of its own; the recognizer is compared with *)
(* it.                                                                     *)
(***************************************************************************)
EXTENDS EarleyGrammar

PredictItem(r, e) == [ahm |-> FirstAhm(r), origin |-> e, at |-> e]
Shift(i, e) == [ahm |-> NextAhm(i.ahm), origin |-> i.origin, at |-> e]

\* One round of prediction and completion at earleme e.
Round(C, e) ==
    LET here == {i \in C : i.at = e}
        done == {c \in here : IsCompletion(c.ahm)}
    IN C \cup {PredictItem(r, e) :
                  r \in {q \in Rule : /\ \E i \in here : PostdotIs(i.ahm, Lhs(q))
                                      /\ e = 0 => q \notin G.barred}}
         \cup UNION {{Shift(i, e) :
                         i \in {j \in C : /\ j.at = c.origin
                                          /\ PostdotIs(j.ahm, LhsOf(c.ahm))}} : c \in done}

ItemsUpTo(e) == [ahm : Ahm, origin : 0 .. e, at : 0 .. e]

\* Rounds at earleme e until one adds nothing.
Saturate(C, e) ==
    LET saturated[D \in SUBSET ItemsUpTo(e)] ==
          LET more == Round(D, e) IN IF more = D THEN D ELSE saturated[more]
    IN saturated[C]

\* The items that the tokens T that end at e move the dot of.
Scanned(C, T, e) ==
    UNION {{Shift(i, e) : i \in {j \in C : j.at = t.start /\ PostdotIs(j.ahm, t.sym)}} :
           t \in {u \in T : u.end = e}}

\* The chart of earlemes 0 .. e, for the tokens T.
Chart(T, e) ==
    LET chart[k \in 0 .. e] ==
          IF k = 0 THEN Saturate({PredictItem(G.startRule, 0)}, 0)
          ELSE LET before == chart[k - 1]
               IN Saturate(before \cup Scanned(before, T, k), k)
    IN chart[e]

ExpectedIn(C, e) ==
    {sym \in TerminalNsy : \E i \in C : i.at = e /\ PostdotIs(i.ahm, sym)}
=============================================================================
