------------------------ MODULE RecognizerRefinement ------------------------
(***************************************************************************)
(* The recognizer with Leo items implements the parser without them.       *)
(***************************************************************************)
EXTENDS Recognizer, EarleyChart

TokensDone ==
    {k.token : k \in tokenLinks} \cup {a \in alternatives : a.end <= current}

Parser == INSTANCE EarleyParser WITH
    busy    <- pc # "idle",
    pending <- {a \in alternatives : a.end > current},
    read    <- TokensDone

\* What the recognizer shows of itself is what Earley's algorithm without Leo
\* items shows: tokens are taken when expected, the terminals expected are the
\* same and the parse is exhausted at the same earleme.
ImplementsParser == Parser!ParserSpec

ReferenceChart == Chart(TokensDone, current)

\* An Earley item of the recognizer is one of Earley's algorithm; Leo items leave
\* out items, but never a completion of the start rule.
ItemsAreEarley ==
    pc = "idle" /\ ret[1] = "earleme_complete" /\ ret[2] = "NONE" =>
        /\ items \subseteq ReferenceChart
        /\ \A i \in ReferenceChart \ items :
              IsCompletion(i.ahm) /\ RuleOf(i.ahm) # G.startRule

\* A call that ends with an Earley set triggers the active events of all the
\* dotted rules of Earley's algorithm there, those that Leo items skip included.
EventsAreThoseOfEarley ==
    ret[1] = "earleme_complete" /\ ret[2] = "NONE" /\ pc = "idle" /\ current \in sets =>
        {e \in events : e[1] \in EventKind} =
            Triggered({i.ahm : i \in {j \in ReferenceChart : j.at = current}})
=============================================================================
