----------------------------- MODULE Recognizer -----------------------------
(***************************************************************************)
(* The libmarpa recognizer: marpa_r_start_input, marpa_r_alternative,      *)
(* marpa_r_earleme_complete and the settings that change what they do.     *)
(*                                                                         *)
(* A call that only reads tables is one action.  marpa_r_earleme_complete  *)
(* is one action per turn of its loops (a token scanned, a completion      *)
(* taken from the stack, a Leo item populated), with pc saying where the   *)
(* call is; no other call can begin before it returns (pc = "idle").       *)
(*                                                                         *)
(* Abstractions.  Sets stand for the work stack, the postdot chains and    *)
(* the completion stack: the order of the links of an Earley item is left  *)
(* out and the loops take their elements in any order.  The alternatives   *)
(* are a set with its top; module AlternativeStack has the sorted array.   *)
(* A grammar has at least one IRL (the trivial grammar is not modelled).   *)
(***************************************************************************)
EXTENDS EarleyGrammar, Integers

CONSTANTS
    EarlemeThreshold,   \* JEARLEME_THRESHOLD, the first earleme out of range
    WarningThreshold,   \* earley items that make an Earley set worth an event
    Lengths,            \* the token lengths tried, in and out of range
    TokenValues,        \* the token values tried, among 0 (unvalued) and 1
    Activations,        \* the <<kind, xsy>> whose activation is switched
    ExpectationXsys     \* the symbols whose expected event is switched

ASSUME RecognizerAssumption ==
    /\ EarlemeThreshold \in Nat \ {0}
    /\ WarningThreshold \in Nat
    /\ Lengths \subseteq Int
    /\ TokenValues \subseteq {0, 1}
    /\ Activations \subseteq EventKind \X (Xsy \cup {NoSymbol})
    /\ ExpectationXsys \subseteq Xsy \cup {NoSymbol}

VARIABLES
    phase,          \* t_input_phase; "after" is also t_is_exhausted
    pc,             \* where marpa_r_earleme_complete is, "idle" between calls
    current,        \* t_current_earleme
    furthest,       \* t_furthest_earleme
    alternatives,   \* t_alternatives: the tokens accepted and not yet scanned
    sets,           \* the earlemes that have an Earley set
    items,          \* the Earley items of all the sets
    stack,          \* t_completion_stack
    lims,           \* the populated Leo items
    newLims,        \* the Leo items of the current set with no origin yet
    useLeo,         \* t_use_leo_flag
    expected,       \* t_bv_nsyid_is_expected
    tokenLinks,     \* source links: [effect, pred, token]
    completionLinks,\* source links: [effect, pred, cause]
    leoLinks,       \* source links: [effect, lim, cause]
    locked,         \* t_valued_locked
    canBeValued,    \* t_valued_terminal
    canBeUnvalued,  \* t_unvalued_terminal
    active,         \* the three bit vectors of active events, by kind
    activeCount,    \* t_active_event_count
    expectedEvent,  \* t_nsy_expected_is_event
    events,         \* the events of the last call that cleared them
    ret             \* <<call, error code, value>> of the last call that returned

inputVars    == <<current, furthest, alternatives>>
chartVars    == <<sets, items, stack, lims, newLims, expected>>
linkVars     == <<tokenLinks, completionLinks, leoLinks>>
valueVars    == <<locked, canBeValued, canBeUnvalued>>
settingVars  == <<useLeo, active, activeCount, expectedEvent>>
vars == <<phase, pc, inputVars, chartVars, linkVars, valueVars, settingVars,
          events, ret>>

-----------------------------------------------------------------------------
Item  == [ahm : Ahm, origin : Nat, at : Nat]
Token == [sym : Symbol, start : Nat, end : Nat, value : {0, 1}]
Lim   == [sym : Symbol, at : Nat, base : Item, top : Ahm, origin : Nat,
          cil : SUBSET Ahm]
NewLim == [sym : Symbol, at : Nat, base : Item]

Returned(call, code, value) == ret' = <<call, code, value>>

\* The postdot items (PIMs) of an Earley set: its items with the dot before sym.
Pims(e, sym) == {i \in items : i.at = e /\ PostdotIs(i.ahm, sym)}

\* The populated Leo item of a set and symbol, if there is one (first in its chain).
LimsFor(e, sym) == {l \in lims : l.at = e /\ l.sym = sym}

AtCurrent == {i \in items : i.at = current}
\* A mutant of Advance: the new item begins in the new set.
AdvanceFromHere(i, e) == [ahm |-> NextAhm(i.ahm), origin |-> e, at |-> e]
Advance(i, e) == [ahm |-> NextAhm(i.ahm), origin |-> i.origin, at |-> e]
Prediction(r, e) == [ahm |-> FirstAhm(r), origin |-> e, at |-> e]

\* A token at the top of the stack of alternatives: none ends earlier.
IsTop(a) == a \in alternatives /\ \A b \in alternatives : a.end <= b.end

-----------------------------------------------------------------------------
(***************************************************************************)
(* marpa_r_new: the events that start active are active, but the count is  *)
(* that of the declared ones.                                              *)
(***************************************************************************)
DeclaredCount ==
    Cardinality(G.declared["completed"]) + Cardinality(G.declared["nulled"])
      + Cardinality(G.declared["predicted"])

Init ==
    /\ phase = "before" /\ pc = "idle"
    /\ current = -1 /\ furthest = 0 /\ alternatives = {}
    /\ sets = {} /\ items = {} /\ stack = {} /\ lims = {} /\ newLims = {}
    /\ expected = {}
    /\ tokenLinks = {} /\ completionLinks = {} /\ leoLinks = {}
    /\ locked = {} /\ canBeValued = {} /\ canBeUnvalued = {}
    /\ useLeo = TRUE
    /\ active = G.startsActive /\ activeCount = DeclaredCount
    /\ expectedEvent = {}
    /\ events = {}
    /\ ret = <<"new", "NONE", 0>>

-----------------------------------------------------------------------------
(***************************************************************************)
(* Settings.                                                               *)
(***************************************************************************)
UseLeoSet(value) ==
    /\ pc = "idle"
    /\ IF phase = "before"
         THEN useLeo' = value /\ Returned("use_leo_set", "NONE", IF value THEN 1 ELSE 0)
         ELSE useLeo' = useLeo /\ Returned("use_leo_set", "RECCE_STARTED", -2)
    /\ UNCHANGED <<phase, pc, inputVars, chartVars, linkVars, valueVars, active,
                   activeCount, expectedEvent, events>>

Deactivate(kind, x) ==
    /\ pc = "idle" /\ x \in Xsy
    /\ active' = [active EXCEPT ![kind] = @ \ {x}]
    /\ activeCount' = activeCount - Cardinality(active[kind] \cap {x})
    /\ Returned("activate", "NONE", 0)
    /\ UNCHANGED <<phase, pc, inputVars, chartVars, linkVars, valueVars, useLeo,
                   expectedEvent, events>>

\* A mutant of Activate: the count is not raised.
ActivateUncounted(kind, x) ==
    /\ pc = "idle" /\ x \in Xsy
    /\ active' = [active EXCEPT ![kind] = @ \cup {x}]
    /\ Returned("activate", IF x \in G.declared[kind] THEN "NONE" ELSE "NOT_DECLARED", 1)
    /\ UNCHANGED <<phase, pc, inputVars, chartVars, linkVars, valueVars, useLeo,
                   activeCount, expectedEvent, events>>

\* An undeclared event sets the error code and is activated all the same.
Activate(kind, x) ==
    /\ pc = "idle" /\ x \in Xsy
    /\ active' = [active EXCEPT ![kind] = @ \cup {x}]
    /\ activeCount' = activeCount + Cardinality({x} \ active[kind])
    /\ Returned("activate", IF x \in G.declared[kind] THEN "NONE" ELSE "NOT_DECLARED", 1)
    /\ UNCHANGED <<phase, pc, inputVars, chartVars, linkVars, valueVars, useLeo,
                   expectedEvent, events>>

ExpectedEventSet(x, value) ==
    /\ pc = "idle" /\ x \in Xsy
    /\ IF G.nsyOf[x] = NoSymbol
         THEN /\ expectedEvent' = expectedEvent
              /\ Returned("expected_symbol_event_set", "SYMBOL_IS_UNUSED", -2)
         ELSE /\ expectedEvent' = IF value THEN expectedEvent \cup {G.nsyOf[x]}
                                           ELSE expectedEvent \ {G.nsyOf[x]}
              /\ Returned("expected_symbol_event_set", "NONE", IF value THEN 1 ELSE 0)
    /\ UNCHANGED <<phase, pc, inputVars, chartVars, linkVars, valueVars, useLeo,
                   active, activeCount, events>>

-----------------------------------------------------------------------------
(***************************************************************************)
(* What an Earley set expects, and the events it triggers.                 *)
(***************************************************************************)
PostdotSymbols(I) == {sym \in Symbol : \E i \in I : PostdotIs(i.ahm, sym)}

ExpectedEvents(syms) == {"expected"} \X (syms \cap expectedEvent)
Exhaustion == <<"exhausted", NoSymbol>>
ThresholdReached == <<"threshold", NoSymbol>>

Active(E) == {e \in E : e[2] \in active[e[1]]}
Triggered(ahms) == Active(UNION {AhmEvents[a] : a \in ahms})

(***************************************************************************)
(* marpa_r_start_input builds Earley set 0 in one go: the start item and   *)
(* the rules reached from it through rules that no zero-width assertion    *)
(* bars.  t_is_using_leo is set after the postdot items of set 0 are made, *)
(* so set 0 never has a Leo item.                                          *)
(***************************************************************************)
\* A mutant of InitialRules: a barred rule is left out, what it predicts is not.
InitialRulesPastBars ==
    {r \in Rule \ G.barred : Lhs(r) \in PredictedSymbols[FirstSymbol(G.startRule)]}

InitialRules ==
    LET Predicts(R, r) == \/ Lhs(r) = FirstSymbol(G.startRule)
                          \/ \E q \in R : Lhs(r) = FirstSymbol(q)
    IN {r \in Rule : \A R \in SUBSET Rule :
           (\A q \in Rule \ G.barred : Predicts(R, q) => q \in R) => r \in R}

StartItems == {Prediction(r, 0) : r \in InitialRules \cup {G.startRule}}

StartInput ==
    /\ pc = "idle" /\ phase = "before"
    /\ phase' = "during" /\ current' = 0
    /\ sets' = {0} /\ items' = StartItems
    /\ expected' = PostdotSymbols(StartItems) \cap TerminalNsy
    /\ events' = ExpectedEvents(PostdotSymbols(StartItems))
                   \cup Triggered({i.ahm : i \in StartItems})
                   \cup Active({"nulled"} \X G.nulledAtStart)
    /\ locked' = G.valuedLocked
    /\ canBeValued' = G.terminal \cap G.valued
    /\ canBeUnvalued' = G.terminal \ G.valued
    /\ Returned("start_input", "NONE", 1)
    /\ UNCHANGED <<pc, furthest, alternatives, stack, lims, newLims, linkVars,
                   settingVars>>

StartInputAgain ==
    /\ pc = "idle" /\ phase # "before"
    /\ Returned("start_input", "RECCE_STARTED", -2)
    /\ UNCHANGED <<phase, pc, inputVars, chartVars, linkVars, valueVars,
                   settingVars, events>>

-----------------------------------------------------------------------------
(***************************************************************************)
(* marpa_r_alternative.  The checks come in the order of the code: those   *)
(* of Refusal before the symbol is marked as valued or unvalued, those of  *)
(* Rejection after, so a rejected token leaves its mark.                   *)
(***************************************************************************)
CanHave(value) == IF value = 1 THEN canBeValued ELSE canBeUnvalued

\* A mutant of Refusal: the kind of a symbol that is locked is not tested.
RefusalWithoutLock(x, value, length) ==
    IF phase # "during"              THEN "RECCE_NOT_ACCEPTING_INPUT"
    ELSE IF x \notin Xsy             THEN "NO_SUCH_SYMBOL_ID"
    ELSE IF length <= 0              THEN "TOKEN_LENGTH_LE_ZERO"
    ELSE IF length >= EarlemeThreshold THEN "TOKEN_TOO_LONG"
    ELSE IF x \notin G.terminal      THEN "TOKEN_IS_NOT_TERMINAL"
    ELSE "NONE"

Refusal(x, value, length) ==
    IF phase # "during"              THEN "RECCE_NOT_ACCEPTING_INPUT"
    ELSE IF x \notin Xsy             THEN "NO_SUCH_SYMBOL_ID"
    ELSE IF length <= 0              THEN "TOKEN_LENGTH_LE_ZERO"
    ELSE IF length >= EarlemeThreshold THEN "TOKEN_TOO_LONG"
    ELSE IF x \in CanHave(value)     THEN "NONE"
    ELSE IF x \notin G.terminal      THEN "TOKEN_IS_NOT_TERMINAL"
    ELSE IF x \in locked             THEN "SYMBOL_VALUED_CONFLICT"
    ELSE "NONE"

\* A mutant of Rejection: a parse may be one earleme too long.
RejectionOffByOne(x, length) ==
    IF G.nsyOf[x] = NoSymbol                     THEN "INACCESSIBLE_TOKEN"
    ELSE IF current \notin sets                  THEN "NO_TOKEN_EXPECTED_HERE"
    ELSE IF Pims(current, G.nsyOf[x]) = {}       THEN "UNEXPECTED_TOKEN_ID"
    ELSE IF current + length > EarlemeThreshold  THEN "PARSE_TOO_LONG"
    ELSE "NONE"

Rejection(x, length) ==
    IF G.nsyOf[x] = NoSymbol                     THEN "INACCESSIBLE_TOKEN"
    ELSE IF current \notin sets                  THEN "NO_TOKEN_EXPECTED_HERE"
    ELSE IF Pims(current, G.nsyOf[x]) = {}       THEN "UNEXPECTED_TOKEN_ID"
    ELSE IF current + length >= EarlemeThreshold THEN "PARSE_TOO_LONG"
    ELSE "NONE"

\* A token of a kind not seen yet, of a symbol that is not locked, locks it.
MarkValue(x, value) ==
    /\ locked' = IF x \in CanHave(value) THEN locked ELSE locked \cup {x}
    /\ canBeValued' = IF value = 1 THEN canBeValued \cup {x} ELSE canBeValued
    /\ canBeUnvalued' = IF value = 0 THEN canBeUnvalued \cup {x} ELSE canBeUnvalued

TokenOf(x, value, length) ==
    [sym |-> G.nsyOf[x], start |-> current, end |-> current + length, value |-> value]

\* alternative_cmp leaves the value out: two tokens that differ only in it are one.
SameSymbolAndStart(a, b) == a.sym = b.sym /\ a.start = b.start   \* a mutant of it
SameToken(a, b) == a.sym = b.sym /\ a.start = b.start /\ a.end = b.end

RefuseToken(x, value, length) ==
    /\ pc = "idle"
    /\ Refusal(x, value, length) # "NONE"
    /\ Returned("alternative", Refusal(x, value, length), 0)
    /\ UNCHANGED <<phase, pc, inputVars, chartVars, linkVars, valueVars,
                   settingVars, events>>

RejectToken(x, value, length) ==
    /\ pc = "idle"
    /\ Refusal(x, value, length) = "NONE"
    /\ Rejection(x, length) # "NONE"
    /\ MarkValue(x, value)
    /\ Returned("alternative", Rejection(x, length), 0)
    /\ UNCHANGED <<phase, pc, inputVars, chartVars, linkVars, settingVars, events>>

\* The furthest earleme is raised before the insertion finds out a duplicate.
InsertToken(x, value, length) ==
    /\ pc = "idle"
    /\ Refusal(x, value, length) = "NONE"
    /\ Rejection(x, length) = "NONE"
    /\ MarkValue(x, value)
    /\ furthest' = IF furthest < current + length THEN current + length ELSE furthest
    /\ LET token == TokenOf(x, value, length)
       IN IF \E a \in alternatives : SameToken(a, token)
            THEN /\ alternatives' = alternatives
                 /\ Returned("alternative", "DUPLICATE_TOKEN", 0)
            ELSE /\ alternatives' = alternatives \cup {token}
                 /\ Returned("alternative", "NONE", 0)
    /\ UNCHANGED <<phase, pc, current, chartVars, linkVars, settingVars, events>>

-----------------------------------------------------------------------------
(***************************************************************************)
(* marpa_r_earleme_complete: the entry.                                    *)
(***************************************************************************)
CompleteRefused ==
    /\ pc = "idle" /\ phase # "during"
    /\ Returned("earleme_complete", "RECCE_NOT_ACCEPTING_INPUT", -2)
    /\ UNCHANGED <<phase, pc, inputVars, chartVars, linkVars, valueVars,
                   settingVars, events>>

EarlemeIsDue == \E a \in alternatives : IsTop(a) /\ a.end = current + 1

\* The earleme is past the last token: the parse is exhausted, and the call fails.
CompletePastFurthest ==
    /\ pc = "idle" /\ phase = "during"
    /\ current + 1 > furthest
    /\ current' = current + 1
    /\ expected' = {}
    /\ phase' = "after"
    /\ events' = {Exhaustion}
    /\ Returned("earleme_complete", "PARSE_EXHAUSTED", -2)
    /\ UNCHANGED <<pc, furthest, alternatives, sets, items, stack, lims, newLims,
                   linkVars, valueVars, settingVars>>

\* A mutant of CompleteGap: what was expected before is not cleared.
CompleteGapKeepingExpected ==
    /\ pc = "idle" /\ phase = "during"
    /\ current + 1 <= furthest
    /\ ~ EarlemeIsDue
    /\ current' = current + 1
    /\ events' = {}
    /\ Returned("earleme_complete", "NONE", 0)
    /\ UNCHANGED <<phase, pc, furthest, alternatives, sets, items, stack, lims,
                   newLims, expected, linkVars, valueVars, settingVars>>

\* No token ends here: there will be no Earley set at this earleme.
CompleteGap ==
    /\ pc = "idle" /\ phase = "during"
    /\ current + 1 <= furthest
    /\ ~ EarlemeIsDue
    /\ current' = current + 1
    /\ expected' = {}
    /\ events' = {}
    /\ Returned("earleme_complete", "NONE", 0)
    /\ UNCHANGED <<phase, pc, furthest, alternatives, sets, items, stack, lims,
                   newLims, linkVars, valueVars, settingVars>>

BeginEarleySet ==
    /\ pc = "idle" /\ phase = "during"
    /\ current + 1 <= furthest
    /\ EarlemeIsDue
    /\ pc' = "scan"
    /\ current' = current + 1
    /\ sets' = sets \cup {current + 1}
    /\ expected' = {}
    /\ events' = {}
    /\ UNCHANGED <<phase, furthest, alternatives, items, stack, lims, newLims,
                   linkVars, valueVars, settingVars, ret>>

-----------------------------------------------------------------------------
(***************************************************************************)
(* The scan: each token that ends here advances the items that wait for it.*)
(***************************************************************************)
ScanToken(a) ==
    /\ pc = "scan"
    /\ IsTop(a) /\ a.end <= current
    /\ alternatives' = alternatives \ {a}
    /\ LET preds == Pims(a.start, a.sym)
       IN /\ items' = items \cup {Advance(i, current) : i \in preds}
          /\ tokenLinks' = tokenLinks \cup
                {[effect |-> Advance(i, current), pred |-> i, token |-> a] : i \in preds}
    /\ UNCHANGED <<phase, pc, current, furthest, sets, stack, lims, newLims,
                   expected, completionLinks, leoLinks, valueVars, settingVars,
                   events, ret>>

\* No more tokens: the completed items of the work stack are to be processed.
EndScan ==
    /\ pc = "scan"
    /\ ~ \E a \in alternatives : IsTop(a) /\ a.end <= current
    /\ pc' = "complete"
    /\ stack' = {i \in AtCurrent : IsCompletion(i.ahm)}
    /\ UNCHANGED <<phase, inputVars, sets, items, lims, newLims, expected,
                   linkVars, valueVars, settingVars, events, ret>>

(***************************************************************************)
(* The completion of a cause taken from the stack.  A Leo item hides the   *)
(* postdot item behind it: the cause then has one effect, the top of the   *)
(* chain.  An effect that is new and complete goes on the stack.           *)
(***************************************************************************)
\* Mutants of NewCompletions: what is not new is pushed again, or nothing is.
AllCompletions(effects) == {i \in effects : IsCompletion(i.ahm)}
NoCompletions(effects) == {}
NewCompletions(effects) == {i \in effects \ items : IsCompletion(i.ahm)}

LeoEffect(l) == [ahm |-> l.top, origin |-> l.origin, at |-> current]

CompleteByLeo(cause) ==
    /\ pc = "complete" /\ cause \in stack
    /\ \E l \in LimsFor(cause.origin, LhsOf(cause.ahm)) :
          /\ items' = items \cup {LeoEffect(l)}
          /\ stack' = (stack \ {cause}) \cup ({LeoEffect(l)} \ items)
          /\ leoLinks' = leoLinks \cup
                {[effect |-> LeoEffect(l), lim |-> l, cause |-> cause]}
    /\ UNCHANGED <<phase, pc, inputVars, sets, lims, newLims, expected, tokenLinks,
                   completionLinks, valueVars, settingVars, events, ret>>

CompleteByEarley(cause) ==
    /\ pc = "complete" /\ cause \in stack
    /\ LimsFor(cause.origin, LhsOf(cause.ahm)) = {}
    /\ LET preds == Pims(cause.origin, LhsOf(cause.ahm))
           effects == {Advance(i, current) : i \in preds}
       IN /\ items' = items \cup effects
          /\ stack' = (stack \ {cause}) \cup NewCompletions(effects)
          /\ completionLinks' = completionLinks \cup
                {[effect |-> Advance(i, current), pred |-> i, cause |-> cause] : i \in preds}
    /\ UNCHANGED <<phase, pc, inputVars, sets, lims, newLims, expected, tokenLinks,
                   leoLinks, valueVars, settingVars, events, ret>>

(***************************************************************************)
(* The stack is empty: the items scanned and completed so far predict, and *)
(* postdot_items_create makes the postdot items and, for each right        *)
(* recursive symbol that one item only waits for, an unpopulated Leo item. *)
(***************************************************************************)
Predictions(I, e) ==
    {Prediction(r, e) : r \in UNION {PredictedRules[sym] : sym \in PostdotSymbols(I)}}

LeoEligible(I, e, sym) ==
    {[sym |-> sym, at |-> e, base |-> i] :
        i \in {b \in I : /\ PostdotIs(b.ahm, sym)
                         /\ IsLeoPenult(b.ahm)
                         /\ \A c \in I : PostdotIs(c.ahm, sym) => c = b}}

PredictAndPostdot ==
    /\ pc = "complete" /\ stack = {}
    /\ pc' = "leo"
    /\ LET here == AtCurrent \cup Predictions(AtCurrent, current)
       IN /\ items' = items \cup here
          /\ newLims' = IF useLeo
                          THEN UNION {LeoEligible(here, current, sym) : sym \in Symbol}
                          ELSE {}
    /\ UNCHANGED <<phase, inputVars, sets, stack, lims, expected, linkVars,
                   valueVars, settingVars, events, ret>>

(***************************************************************************)
(* The population of a Leo item, from the end of its chain.  The           *)
(* predecessor is the Leo item for the left side of the base in the set    *)
(* where the base began, which may be the current set.                     *)
(***************************************************************************)
Trailhead(n) == NextAhm(n.base.ahm)
PredecessorOf(n) == LimsFor(n.base.origin, LhsOf(n.base.ahm))
PendingPredecessorOf(n) ==
    {m \in newLims : m.at = n.base.origin /\ m.sym = LhsOf(n.base.ahm)}

\* The walk down the chain stops at a Leo item whose predecessor is populated or
\* is none; bv_ok_for_chain stops it as well where the chain meets itself.
ChainEndsAnywhere(n) == TRUE    \* a mutant of it: the chain is not walked
ChainEnds(n) ==
    \/ PendingPredecessorOf(n) = {}
    \/ \A m \in newLims : PendingPredecessorOf(m) # {}

\* The events of the chain are those of the predecessor and, unless these can be
\* no more, that of the trailhead.
CilOfPredecessor(p, ahm) == p.cil   \* a mutant of it: nothing is merged
MergedCil(p, ahm) ==
    IF EventGroupSize[p.top] > Cardinality(p.cil) THEN p.cil \cup EventAhms(ahm) ELSE p.cil

\* A mutant of Populated: the origin of the base for that of the chain.
PopulatedFromBase(n, top, origin, cil) ==
    [sym |-> n.sym, at |-> n.at, base |-> n.base, top |-> top,
     origin |-> n.base.origin, cil |-> cil]

Populated(n, top, origin, cil) ==
    [sym |-> n.sym, at |-> n.at, base |-> n.base, top |-> top, origin |-> origin,
     cil |-> cil]

PopulateLim(n) ==
    /\ pc = "leo" /\ n \in newLims /\ ChainEnds(n)
    /\ newLims' = newLims \ {n}
    /\ \/ \E p \in PredecessorOf(n) :
             lims' = lims \cup {Populated(n, p.top, p.origin, MergedCil(p, Trailhead(n)))}
       \/ /\ PredecessorOf(n) = {}
          /\ lims' = lims \cup
                {Populated(n, Trailhead(n), n.base.origin, EventAhms(Trailhead(n)))}
    /\ UNCHANGED <<phase, pc, inputVars, sets, items, stack, expected, linkVars,
                   valueVars, settingVars, events, ret>>

(***************************************************************************)
(* The end of the call: what is expected, whether the parse is exhausted,  *)
(* and the events.  The events of the completions that Leo items skip are  *)
(* found through the Leo links of the items of the set.                    *)
(***************************************************************************)
EventAhmsHere ==
    {i.ahm : i \in AtCurrent}
       \cup UNION {k.lim.cil : k \in {j \in leoLinks : j.effect.at = current}}

NothingExpected(terminals) == terminals = {}     \* a mutant of it: tokens may be pending
NothingLeft(terminals) == terminals = {} /\ alternatives = {}

EndEarleySet ==
    /\ pc = "leo" /\ newLims = {}
    /\ pc' = "idle"
    /\ expected' = PostdotSymbols(AtCurrent) \cap TerminalNsy
    /\ LET exhausted == NothingLeft(PostdotSymbols(AtCurrent) \cap TerminalNsy)
       IN /\ phase' = IF exhausted THEN "after" ELSE phase
          /\ events' =
                ExpectedEvents(PostdotSymbols(AtCurrent))
                  \cup (IF exhausted THEN {Exhaustion} ELSE {})
                  \cup (IF Cardinality(AtCurrent) >= WarningThreshold
                          THEN {ThresholdReached} ELSE {})
                  \cup (IF activeCount > 0 THEN Triggered(EventAhmsHere) ELSE {})
    /\ Returned("earleme_complete", "NONE", Cardinality(events'))
    /\ UNCHANGED <<inputVars, sets, items, stack, lims, newLims, linkVars,
                   valueVars, settingVars>>

-----------------------------------------------------------------------------
SettingCall ==
    \/ \E value \in BOOLEAN : UseLeoSet(value)
    \/ \E a \in Activations : Deactivate(a[1], a[2]) \/ Activate(a[1], a[2])
    \/ \E x \in ExpectationXsys, value \in BOOLEAN : ExpectedEventSet(x, value)

Alternative ==
    \E x \in Xsy \cup {NoSymbol}, value \in TokenValues, length \in Lengths :
        \/ RefuseToken(x, value, length)
        \/ RejectToken(x, value, length)
        \/ InsertToken(x, value, length)

EarlemeComplete ==
    CompleteRefused \/ CompletePastFurthest \/ CompleteGap \/ BeginEarleySet

\* The steps of marpa_r_earleme_complete after its entry.
InternalStep ==
    \/ \E a \in alternatives : ScanToken(a)
    \/ EndScan
    \/ \E cause \in stack : CompleteByLeo(cause) \/ CompleteByEarley(cause)
    \/ PredictAndPostdot
    \/ \E n \in newLims : PopulateLim(n)
    \/ EndEarleySet

Next ==
    \/ SettingCall
    \/ StartInput \/ StartInputAgain
    \/ Alternative
    \/ EarlemeComplete
    \/ InternalStep

\* A call that has begun runs to its end; nothing makes the application call.
Spec == Init /\ [][Next]_vars /\ WF_vars(InternalStep)

-----------------------------------------------------------------------------
(***************************************************************************)
(* Properties.                                                             *)
(***************************************************************************)

\* The types of the state of the recognizer (marpa_r_new and every call).
TypeOK ==
    /\ phase \in {"before", "during", "after"}
    /\ pc \in {"idle", "scan", "complete", "leo"}
    /\ current \in Int /\ furthest \in Nat
    /\ (phase = "before") = (current = -1)
    /\ current >= -1
    /\ alternatives \subseteq Token
    /\ sets \subseteq Nat
    /\ items \subseteq Item /\ stack \subseteq items
    /\ lims \subseteq Lim /\ newLims \subseteq NewLim
    /\ expected \subseteq Symbol
    /\ tokenLinks \subseteq [effect : Item, pred : Item, token : Token]
    /\ completionLinks \subseteq [effect : Item, pred : Item, cause : Item]
    /\ leoLinks \subseteq [effect : Item, lim : Lim, cause : Item]
    /\ locked \subseteq Xsy /\ canBeValued \subseteq Xsy /\ canBeUnvalued \subseteq Xsy
    /\ useLeo \in BOOLEAN
    /\ active \in [EventKind -> SUBSET Xsy]
    /\ activeCount \in Int
    /\ expectedEvent \subseteq Symbol

\* A pending token lies ahead of the current earleme and within range, begins at
\* an Earley set that waits for its symbol, and no other pending token is the
\* same: alternative_pop would otherwise scan it late, never, twice or for nothing.
PendingTokens ==
    \A a \in alternatives :
        /\ a.start \in sets /\ Pims(a.start, a.sym) # {}
        /\ a.start < a.end
        /\ IF pc = "scan" THEN a.end >= current ELSE a.end > current
        /\ a.end <= furthest /\ a.end < EarlemeThreshold
        /\ \A b \in alternatives : SameToken(a, b) => a = b

\* While the furthest earleme is ahead, a pending token ends there, so that a run
\* of earleme_complete calls ends with an Earley set and not with an idle gap.
FurthestIsBacked ==
    phase = "during" /\ furthest > current => \E a \in alternatives : a.end = furthest

\* Between calls the parse is exhausted exactly when it can go no further: no
\* pending token, no expected terminal.  A grammar with barred rules may begin
\* with nothing to expect and is not exhausted until the next call.
ExhaustionIsExact ==
    pc = "idle" /\ phase # "before" /\ current > 0 =>
        (phase = "after" <=> alternatives = {} /\ expected = {})

\* Every item but those of the start rule began where some item waits for its
\* left side: the lookup of the predecessor of a Leo item, which dereferences the
\* postdot item without a test, always finds one.
PredecessorExists ==
    \A i \in items : RuleOf(i.ahm) # G.startRule => Pims(i.origin, LhsOf(i.ahm)) # {}

\* A completed item spans at least one earleme, so completing it looks only into
\* sets whose postdot items are already made.
CompletionsSpanInput ==
    \A i \in items : i.origin <= i.at /\ (IsCompletion(i.ahm) => i.origin < i.at)

\* A populated Leo item stands for the one item that waits for its symbol in its
\* set, never in set 0, and carries the top and the origin of its predecessor, if
\* the set where its base began has one, and of its own trailhead otherwise.
LeoItemsAreFaithful ==
    \A l \in lims :
        /\ Pims(l.at, l.sym) = {l.base} /\ l.at > 0
        /\ \A m \in LimsFor(l.at, l.sym) : m = l
        /\ \/ /\ PredecessorOf(l) = {}
              /\ l.top = Trailhead(l) /\ l.origin = l.base.origin
           \/ \E p \in PredecessorOf(l) : l.top = p.top /\ l.origin = p.origin

\* What Earley's algorithm requires of a chart C for the tokens T: the start item,
\* and whatever prediction, scanning and completion make of its items.
EarleyClosed(C, T) ==
    /\ Prediction(G.startRule, 0) \in C
    /\ \A i \in C, r \in Rule :
          PostdotIs(i.ahm, Lhs(r)) /\ (i.at = 0 => r \notin G.barred)
             => Prediction(r, i.at) \in C
    /\ \A i \in C, t \in T :
          i.at = t.start /\ PostdotIs(i.ahm, t.sym) => Advance(i, t.end) \in C
    /\ \A i \in C, c \in C :
          IsCompletion(c.ahm) /\ i.at = c.origin /\ PostdotIs(i.ahm, LhsOf(c.ahm))
             => Advance(i, c.at) \in C

ScannedTokens == {k.token : k \in tokenLinks}

\* The completions that a Leo item may hide: between an item and its top.
Skipped(l) ==
    {Advance(l.base, i.at) : i \in {j \in items : j.ahm = l.top /\ j.origin = l.origin}}
Hidden == UNION {Skipped(l) : l \in {m \in lims : PredecessorOf(m) # {}}}

\* Between calls the chart lacks nothing that Earley's algorithm has for the tokens
\* scanned, but completions inside the chain of a Leo item whose top is there.
ChartIsComplete ==
    pc = "idle" /\ phase # "before" => EarleyClosed(items \cup Hidden, ScannedTokens)

\* While some event is active, earleme_complete does not skip trigger_events.
ActiveEventsAreNotSkipped ==
    (\E k \in EventKind : active[k] # {}) => activeCount > 0

\* A prediction event of a symbol triggers where the symbol is acceptable, the
\* definition Event.pod gives of it.
PredictedOnlyWhenAcceptable ==
    \A e \in events : e[1] = "predicted" /\ pc = "idle" =>
        G.nsyOf[e[2]] \in PostdotSymbols(AtCurrent)

TokensRead == alternatives \cup {k.token : k \in tokenLinks}

\* A symbol that the grammar locks as valued (marpa_g_force_valued) or unvalued has
\* tokens of that kind only, whatever calls were refused before.
LockedSymbolsKeepTheirKind ==
    \A x \in G.valuedLocked, a \in TokensRead :
        a.sym = G.nsyOf[x] => (a.value = 1) = (x \in G.valued)

\* Items and Leo items are only added to the set of the current earleme, while a
\* call builds it, and are never removed; links as well.
SetsAreFrozen ==
    [][/\ items \subseteq items' /\ lims \subseteq lims'
       /\ \A i \in items' \ items :
             i.at = current' /\ (pc # "idle" \/ phase = "before")
       /\ \A l \in lims' \ lims : l.at = current /\ pc = "leo"]_vars

\* A token that is not accepted changes neither the furthest earleme nor the
\* pending tokens, although the code raises the one before it knows.
RejectionIsHarmless ==
    [][pc = "idle" /\ pc' = "idle" /\ ret'[1] = "alternative" /\ ret'[2] # "NONE"
         => UNCHANGED <<inputVars, chartVars>>]_vars

\* A call of earleme_complete that begins an Earley set returns.
CallsReturn == pc # "idle" ~> pc = "idle"
=============================================================================
