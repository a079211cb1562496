-------------------------- MODULE GrammarBuilding --------------------------
(***************************************************************************)
(* Grammars as the calls of an application build them, for the instances.  *)
(***************************************************************************)
EXTENDS GrammarPrecompute

\* n symbols, the first of them the start symbol.
Bare(n) ==
    LET upTo[k \in 0 .. n] == IF k = 0 THEN NewGrammar ELSE WithSymbol(upTo[k - 1])
    IN  [upTo[n] EXCEPT !.start = 1]

\* A grammar with the rules of a sequence of left and right sides added.
WithRules(h, rules) ==
    LET upTo[k \in 0 .. Len(rules)] ==
            IF k = 0 THEN h ELSE WithRule(upTo[k - 1], rules[k][1], rules[k][2])
    IN  upTo[Len(rules)]
=============================================================================
