---------------------------- MODULE EarleyParser ----------------------------
(***************************************************************************)
(* What the recognizer promises its caller, with no Leo items, no postdot  *)
(* tables and no furthest earleme: a token is taken exactly when its       *)
(* symbol is expected; an earleme where tokens end gets the terminals of   *)
(* Earley's algorithm; the parse is exhausted when no token is pending and *)
(* nothing is expected.                                                    *)
(***************************************************************************)
EXTENDS EarleyChart, Integers

VARIABLES
    phase,      \* "before", "during", "after"
    busy,       \* an Earley set is being built
    current,    \* the current earleme
    pending,    \* tokens that end after the current earleme
    read,       \* tokens that end at or before it
    expected    \* the terminals expected at the current earleme

parserVars == <<phase, busy, current, pending, read, expected>>

ParserInit ==
    /\ phase = "before" /\ busy = FALSE /\ current = -1
    /\ pending = {} /\ read = {} /\ expected = {}

Start ==
    /\ phase = "before"
    /\ phase' = "during" /\ current' = 0
    /\ expected' = ExpectedIn(Chart({}, 0), 0)
    /\ UNCHANGED <<busy, pending, read>>

Read(token) ==
    /\ phase = "during" /\ ~ busy
    /\ token.start = current /\ token.end > current /\ token.sym \in expected
    /\ pending' = pending \cup {token}
    /\ UNCHANGED <<phase, busy, current, read, expected>>

Due == {t \in pending : t.end = current + 1}

\* No token ends at the next earleme; with none pending there is no next earleme.
Pass ==
    /\ phase = "during" /\ ~ busy
    /\ Due = {}
    /\ current' = current + 1 /\ expected' = {}
    /\ phase' = IF pending = {} THEN "after" ELSE "during"
    /\ UNCHANGED <<busy, pending, read>>

Begin ==
    /\ phase = "during" /\ ~ busy
    /\ Due # {}
    /\ busy' = TRUE
    /\ current' = current + 1 /\ expected' = {}
    /\ pending' = pending \ Due /\ read' = read \cup Due
    /\ UNCHANGED phase

Finish ==
    /\ busy
    /\ busy' = FALSE
    /\ expected' = ExpectedIn(Chart(read, current), current)
    /\ phase' = IF pending = {} /\ expected' = {} THEN "after" ELSE "during"
    /\ UNCHANGED <<current, pending, read>>

ParserNext ==
    Start \/ (\E token \in pending' : Read(token)) \/ Pass \/ Begin \/ Finish

ParserSpec == ParserInit /\ [][ParserNext]_parserVars
=============================================================================
