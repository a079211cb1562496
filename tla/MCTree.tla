------------------------------- MODULE MCTree -------------------------------
(***************************************************************************)
(* Instances of the tree iterator.                                         *)
(***************************************************************************)
EXTENDS TreeReference

LOCAL Sample == INSTANCE Grammars

Twofold == Sample!Twofold

TwofoldActivations == {<<"completed", "A">>}
Current == {-1}

NullCounts == G.nullCount
Ranks == G.rank
=============================================================================
