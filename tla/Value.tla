------------------------------- MODULE Value -------------------------------
(***************************************************************************)
(* The valuator: marpa_v_new and marpa_v_step, which walks the nooks of a  *)
(* tree from the last to the first and tells the application, at each      *)
(* step, what to evaluate and where on a stack its arguments are, and the  *)
(* settings of which symbols have values.                                  *)
(*                                                                         *)
(* One valuator at a time: several of one tree share nothing but its pause *)
(* counter.  An Earley set is named by its earleme, not by its ordinal.    *)
(***************************************************************************)
EXTENDS Tree

CONSTANTS
    SettableXsys,   \* the symbols that marpa_v_symbol_is_valued_set is called with
    SettableRules,  \* the rules that marpa_v_rule_is_valued_set is called with
    NoValuator      \* there is no valuator

NoRule == "none"    \* -1 as a rule ID

ASSUME ValueAssumption ==
    /\ SettableXsys \subseteq Xsy
    /\ SettableRules \subseteq G.xrl
    /\ G.xrlLhs \in [G.xrl -> Xsy]
    /\ NoRule \notin G.xrl

VARIABLES
    valuator,   \* the valuator, or NoValuator
    slots,      \* history: the step whose value the application has put in each
                \* place of its stack, all but the last step
    trail       \* history: the steps taken, <<type, nook>>

valueStepVars == <<valuator, slots, trail>>
valuatorVars == <<allVars, valueStepVars>>

\* The bit vectors of the recognizer as marpa_b_new has cloned them.
ValuedInBocage == canBeValued \cup G.valued

NewValuator ==
    [next |-> "INITIAL", step |-> "INITIAL", nook |-> 0, rule |-> NoRule, xsy |-> NoSymbol,
     token |-> "dummy", value |-> -1, arg0 |-> -1, argN |-> -1, result |-> -1,
     tokenStart |-> -1, ruleStart |-> -1, at |-> -1, pop |-> TRUE, virtual |-> <<>>,
     valued |-> ValuedInBocage, locked |-> locked, xrlValued |-> {},
     trace |-> FALSE, nulling |-> bocage.nulling]

IsActive(v) == v.next # "INACTIVE"

-----------------------------------------------------------------------------
(***************************************************************************)
(* One turn of the loop of STEP_GET_DATA: the next nook is visited.        *)
(***************************************************************************)
PositionOf(o) == Position(o.rule, o.dot, o.nulls)
XsyBefore(o) == G.rhsXsys[o.rule][PositionOf(o)]
IsWholeRule(o) == PositionOf(o) = Len(G.rhsXsys[o.rule])
IsRealRule(o) == IsWholeRule(o) /\ o.rule \notin G.virtualLhs

\* A mutant of Popped: the arguments of a rule stay where they are.
Unpopped(v) == v
Popped(v) == IF v.pop THEN [v EXCEPT !.argN = v.arg0, !.pop = FALSE] ELSE v

\* A mutant of TokenVisited: a nulling symbol without a value gets no place.
TokenVisitedIfValued(v, nook) ==
    LET o == nook.or
        cause == AndOf(nook).cause
        pred == AndOf(nook).pred
    IN IF cause.type = "token" /\ G.sourceXsy[cause.sym] \in ValuedInBocage
         THEN [v EXCEPT !.token = "valued", !.argN = @ + 1, !.arg0 = v.argN + 1,
                        !.xsy = G.sourceXsy[cause.sym], !.value = cause.value,
                        !.tokenStart = IF pred = NoOr THEN o.origin ELSE pred.at]
       ELSE IF cause.type = "nulling" /\ XsyBefore(o) \in v.valued
         THEN [v EXCEPT !.token = "nulling", !.argN = @ + 1, !.arg0 = v.argN + 1,
                        !.xsy = XsyBefore(o), !.tokenStart = o.at]
       ELSE [v EXCEPT !.token = "dummy"]

\* A valued token or a nulling symbol gets a place on the stack; a nulling symbol
\* without a value keeps it empty.  A token without a value gets none.
TokenVisited(v, nook) ==
    LET o == nook.or
        cause == AndOf(nook).cause
        pred == AndOf(nook).pred
        placed == [v EXCEPT !.argN = @ + 1, !.arg0 = v.argN + 1]
    IN IF cause.type = "token" /\ G.sourceXsy[cause.sym] \in ValuedInBocage
         THEN [placed EXCEPT !.token = "valued", !.xsy = G.sourceXsy[cause.sym],
                             !.value = cause.value,
                             !.tokenStart = IF pred = NoOr THEN o.origin ELSE pred.at]
       ELSE IF cause.type = "nulling" /\ XsyBefore(o) \in v.valued
         THEN [placed EXCEPT !.token = "nulling", !.xsy = XsyBefore(o), !.tokenStart = o.at]
       ELSE IF cause.type = "nulling"
         THEN [placed EXCEPT !.token = "dummy"]
       ELSE [v EXCEPT !.token = "dummy"]

\* A virtual rule adds its symbols to those of the rule that it is a part of.
RuleVisited(v, o) ==
    LET r == o.rule
        below == IF r \in G.virtualRhs THEN Last(v.virtual) ELSE 0
        virtual == IF r \in G.virtualRhs THEN Front(v.virtual) ELSE v.virtual
        count == IF r \in G.virtualLhs \cup G.virtualRhs
                   THEN G.realCount[r] + below
                   ELSE Len(G.rhsXsys[r])
    IN IF ~ IsWholeRule(o)       THEN v
       ELSE IF r \in G.virtualLhs THEN [v EXCEPT !.virtual = Append(virtual, count)]
       ELSE [v EXCEPT !.virtual = virtual, !.arg0 = v.argN - count + 1, !.pop = TRUE,
                      !.rule = IF G.source[r] \in v.xrlValued THEN G.source[r] ELSE NoRule,
                      !.ruleStart = IF G.source[r] \in v.xrlValued THEN o.origin ELSE @]

Visited(v) ==
    LET w == [v EXCEPT !.nook = @ - 1, !.value = -1, !.rule = NoRule]
        nook == nooks[w.nook]
        at == [Popped(w) EXCEPT !.at = nook.or.at]
    IN IF w.nook < 1 THEN [w EXCEPT !.next = "INACTIVE"]
       ELSE RuleVisited(TokenVisited(at, nook), nook.or)

IsFound(v) == ~ IsActive(v) \/ v.rule # NoRule \/ v.token # "dummy" \/ v.trace

\* The nooks are visited until there is something to tell.
Found(v) ==
    LET begun == [v EXCEPT !.pop = TRUE,
                           !.nook = IF @ < 1 THEN Len(nooks) + 1 ELSE @]
        visits[n \in 0 .. Len(nooks)] ==
          IF n = 0 THEN Visited(begun)
          ELSE IF IsFound(visits[n - 1]) THEN visits[n - 1]
          ELSE Visited(visits[n - 1])
    IN visits[Len(nooks)]

-----------------------------------------------------------------------------
(***************************************************************************)
(* marpa_v_step: from where the last step ended, up to the next return.    *)
(***************************************************************************)
Inactive(v) == [v EXCEPT !.next = "INACTIVE", !.step = "INACTIVE"]

SymbolsSettled(v) == [v EXCEPT !.locked = Xsy]  \* a mutant of Begun: no rules
Begun(v) ==
    [v EXCEPT !.locked = Xsy, !.xrlValued = {x \in G.xrl : G.xrlLhs[x] \in v.valued}]

TraceTold(v) == [v EXCEPT !.next = "GET_DATA", !.step = "TRACE"]
RuleTold(v) == [v EXCEPT !.next = "TRACE", !.step = "RULE", !.result = v.arg0]

\* A mutant of Told: the rule that the nook of a token completes is passed over.
ToldOnce(v) ==
    IF ~ IsActive(v) THEN Inactive(v)
    ELSE IF v.token # "dummy"
      THEN [v EXCEPT !.next = "TRACE", !.result = v.argN,
                     !.step = IF v.token = "nulling" THEN "NULLING_SYMBOL" ELSE "TOKEN"]
    ELSE IF v.rule # NoRule THEN RuleTold(v)
    ELSE TraceTold(v)

Told(v) ==
    IF ~ IsActive(v) THEN Inactive(v)
    ELSE IF v.token # "dummy"
      THEN [v EXCEPT !.next = "RULE", !.result = v.argN,
                     !.step = IF v.token = "nulling" THEN "NULLING_SYMBOL" ELSE "TOKEN"]
    ELSE IF v.rule # NoRule THEN RuleTold(v)
    ELSE TraceTold(v)

AfterRule(v) == IF v.trace THEN TraceTold(v) ELSE Told(Found(v))

\* The tree without nooks: its start symbol is the only step, if it has a value.
NullingStep(v) ==
    LET isFirst == v.next = "INITIAL" /\ StartXsy \in v.valued
    IN [v EXCEPT !.xsy = StartXsy, !.tokenStart = 0, !.at = 0,
                 !.result = 0, !.arg0 = 0, !.argN = 0,
                 !.step = IF isFirst THEN "NULLING_SYMBOL" ELSE "INACTIVE",
                 !.next = "INACTIVE"]

Stepped(v) ==
    IF v.nulling                 THEN NullingStep(v)
    ELSE IF ~ IsActive(v)        THEN Inactive(v)
    ELSE IF v.next = "INITIAL"   THEN Told(Found(Begun(v)))
    ELSE IF v.next = "GET_DATA"  THEN Told(Found(v))
    ELSE IF v.next = "RULE" /\ v.rule # NoRule THEN RuleTold(v)
    ELSE AfterRule(v)

HasValuator == turn = "idle" /\ valuator # NoValuator
TreeUnchanged == ForestUnchanged /\ UNCHANGED <<orderVars, treeVars>>

IsValueStep(v) == v.step \in {"RULE", "TOKEN", "NULLING_SYMBOL"}

\* The stack of the application with the value of a step in one of its places.
Put(places, place, step) ==
    [k \in DOMAIN places \cup {place} |-> IF k = place THEN step ELSE places[k]]

\* Before each step the application writes the value of the last one at its result.
ValueStep ==
    /\ HasValuator
    /\ slots' = IF IsValueStep(valuator) THEN Put(slots, valuator.result, Last(trail)) ELSE slots
    /\ LET v == Stepped(valuator)
       IN /\ valuator' = v
          /\ trail' = IF IsValueStep(v) THEN Append(trail, <<v.step, v.nook>>) ELSE trail
    /\ TreeUnchanged /\ UNCHANGED ret

-----------------------------------------------------------------------------
(***************************************************************************)
(* Which symbols have values.  A symbol is locked once this is said of it, *)
(* or read as a token; a conflict is a failure without an error code.      *)
(* What the calls return is left out: it tells nothing that the valuator   *)
(* does not hold.                                                          *)
(***************************************************************************)
Conflicts(x, value) == (x \in valuator.valued) # value /\ x \in valuator.locked

\* A mutant of SymbolSet: the lock is not looked at.
SymbolSetAnyway(x, value) ==
    valuator' = [valuator EXCEPT !.locked = @ \cup {x},
                                 !.valued = IF value THEN @ \cup {x} ELSE @ \ {x}]

\* symbol_is_valued_set
SymbolSet(x, value) ==
    valuator' = IF Conflicts(x, value) THEN valuator
                ELSE [valuator EXCEPT !.locked = @ \cup {x},
                                      !.valued = IF value THEN @ \cup {x} ELSE @ \ {x}]

SettingUnchanged == TreeUnchanged /\ UNCHANGED <<slots, trail, ret>>

SymbolIsValuedSet(x, value) == HasValuator /\ SymbolSet(x, value) /\ SettingUnchanged

\* A rule is set by its left side.
RuleIsValuedSet(xrl, value) ==
    HasValuator /\ SymbolSet(G.xrlLhs[xrl], value) /\ SettingUnchanged

\* marpa_v_valued_force: the symbols before the first that is locked without a value
\* are set even so, in the order of their IDs, which is any order here.
ValuedForce ==
    /\ HasValuator
    /\ LET refused == valuator.locked \ valuator.valued
       IN \E forced \in IF refused = {} THEN {Xsy} ELSE SUBSET (Xsy \ refused) :
             valuator' = [valuator EXCEPT !.locked = @ \cup forced, !.valued = @ \cup forced]
    /\ SettingUnchanged

TraceSet(flag) ==
    /\ HasValuator /\ IsActive(valuator)
    /\ valuator' = [valuator EXCEPT !.trace = flag]
    /\ SettingUnchanged

-----------------------------------------------------------------------------
ValuatorNew ==
    /\ valuator = NoValuator /\ ValueNew /\ pauses' > pauses
    /\ valuator' = NewValuator /\ slots' = <<>> /\ trail' = <<>>

ValuatorFree ==
    /\ valuator # NoValuator /\ ValueFree
    /\ valuator' = NoValuator /\ slots' = <<>> /\ trail' = <<>>

\* The calls on the order are left out: a tree freezes it, and the order of the
\* and-nodes is any order here.  So are calls on a paused tree, which are refused.
ForestCall ==
    /\ valuator = NoValuator
    /\ \/ order = NoOrder /\ BocageNext /\ UNCHANGED <<orderVars, treeVars>>
       \/ OrderNew /\ UNCHANGED treeVars
       \/ TreeNew \/ TreeNext \/ Turn
    /\ UNCHANGED valueStepVars

Setting ==
    \/ \E value \in BOOLEAN : \/ \E x \in SettableXsys : SymbolIsValuedSet(x, value)
                              \/ \E xrl \in SettableRules : RuleIsValuedSet(xrl, value)
    \/ ValuedForce
    \/ \E flag \in BOOLEAN : TraceSet(flag)

ValueInit ==
    /\ TreeInit
    /\ valuator = NoValuator /\ slots = <<>> /\ trail = <<>>

ValueNext == ForestCall \/ ValuatorNew \/ ValuatorFree \/ ValueStep \/ Setting

ValueSpec == ValueInit /\ [][ValueNext]_valuatorVars

-----------------------------------------------------------------------------
(***************************************************************************)
(* The evaluation of a tree, from its structure.                           *)
(***************************************************************************)
NookOf(parent, isCause) ==
    {i \in DOMAIN nooks : nooks[i].parent = parent /\ nooks[i].isCause = isCause}

CauseOf(i) == AndOf(nooks[i]).cause
TokenXsy(i) == IF CauseOf(i).type = "token" THEN G.sourceXsy[CauseOf(i).sym] ELSE XsyBefore(nooks[i].or)

\* A token read when its symbol had no value stays without one.
IsUnvaluedToken(i) == CauseOf(i).type = "token" /\ TokenXsy(i) \notin ValuedInBocage
IsPlaced(i) == CauseOf(i).type # "or" /\ ~ IsUnvaluedToken(i)

\* The steps that give the value of a token or nulling symbol, and of a rule.
TokenStep(i) == <<IF CauseOf(i).type = "token" THEN "TOKEN" ELSE "NULLING_SYMBOL", i>>
RuleStep(i) == <<"RULE", i>>

\* The steps that give the children of the rule that the nooks up to i are a part of,
\* those of a virtual rule instead of the rule itself.
Arguments ==
    LET arguments[i \in DOMAIN nooks] ==
          LET before == UNION {{arguments[j]} : j \in NookOf(i, FALSE)}
              child == NookOf(i, TRUE)
              last == IF child = {} THEN {<<TokenStep(i)>>}
                      ELSE {IF IsRealRule(nooks[j].or) THEN <<RuleStep(j)>> ELSE arguments[j] :
                               j \in child}
          IN FlattenSeq(SetToSeq(before)) \o FlattenSeq(SetToSeq(last))
    IN arguments

\* The steps of the nook i itself.  A token read when its symbol had a value has a step,
\* whatever is said of its symbol later; a nulling symbol has one if it is valued.
OwnToken(v, i) ==
    IF IsPlaced(i) /\ (CauseOf(i).type = "token" \/ TokenXsy(i) \in v.valued)
      THEN <<TokenStep(i)>> ELSE <<>>
OwnRule(v, i) ==
    IF IsRealRule(nooks[i].or) /\ G.source[nooks[i].or.rule] \in v.xrlValued
      THEN <<RuleStep(i)>> ELSE <<>>
Own(v, i) == OwnToken(v, i) \o OwnRule(v, i)

\* The steps of the nook i and those below it: its predecessor, its cause, itself.
Evaluation(v) ==
    LET steps[i \in DOMAIN nooks] ==
          LET Of(isCause) == FlattenSeq(SetToSeq({steps[j] : j \in NookOf(i, isCause)}))
          IN Of(FALSE) \o Of(TRUE) \o Own(v, i)
    IN steps[1]

-----------------------------------------------------------------------------
(***************************************************************************)
(* Properties.                                                             *)
(***************************************************************************)
\* The steps of marpa_v_step are those of the tree, each rule after its children and
\* these from left to right, and nothing is left out before it becomes inactive; a
\* token is one that was read, with that value, where the valuator says it is.
StepsValueTheTree ==
    valuator # NoValuator /\ ~ valuator.nulling /\ valuator.next # "INITIAL" =>
        /\ IsPrefix(trail, Evaluation(valuator))
        /\ ~ IsActive(valuator) => trail = Evaluation(valuator)
        /\ valuator.step = "TOKEN" =>
              [sym |-> G.nsyOf[valuator.xsy], start |-> valuator.tokenStart,
               end |-> valuator.at, value |-> valuator.value] \in ScannedTokens

\* At a rule, the places from arg_0 to arg_n hold the values of its children, as many
\* as the external rule has, whatever virtual rules are between, and the result goes
\* into the first of them.  (A token without a value, which is deprecated, gets no
\* place on the stack but is counted as a child: then this does not hold.)
ArgumentsAreTheChildren ==
    valuator # NoValuator /\ valuator.step = "RULE" /\ valuator.next = "TRACE"
      /\ (\A i \in DOMAIN nooks : ~ IsUnvaluedToken(i)) =>
        LET children == Arguments[valuator.nook]
        IN /\ valuator.result = valuator.arg0 /\ valuator.arg0 >= 0
           /\ valuator.argN - valuator.arg0 + 1 = Len(children)
           /\ \A k \in DOMAIN children :
                 children[k] \in Range(trail) => slots[valuator.arg0 + k - 1] = children[k]

\* Which symbols have values is settled for each symbol by its first use, and for all
\* of them and their rules by the first step: later settings are refused.
ValuedIsKept ==
    valuator # NoValuator /\ valuator' # NoValuator =>
        /\ valuator.locked \subseteq valuator'.locked
        /\ \A x \in valuator.locked : (x \in valuator.valued) = (x \in valuator'.valued)
        /\ valuator.next # "INITIAL" /\ ~ valuator.nulling =>
              /\ valuator'.valued = valuator.valued
              /\ valuator'.xrlValued = {x \in G.xrl : G.xrlLhs[x] \in valuator.valued}

ValuedIsSettled == [][ValuedIsKept]_valuatorVars
=============================================================================
