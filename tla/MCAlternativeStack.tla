------------------------- MODULE MCAlternativeStack -------------------------
EXTENDS AlternativeStack

\* Tokens of two symbols that begin at two earlemes, some of them of length 2 and 3.
SmallAlternatives ==
    {a \in [sym : 1 .. 2, start : 0 .. 1, end : 1 .. 3] :
        a.start < a.end /\ (a.end = 3 => a.sym = 1)}
=============================================================================
