------------------------------ MODULE MCValue ------------------------------
(***************************************************************************)
(* Instances of the valuator.                                              *)
(***************************************************************************)
EXTENDS Value, BocageReference

LOCAL Sample == INSTANCE Grammars

Listing == Sample!Listing

NoActivations == {}
Current == {-1}

NullCounts == G.nullCount
Ranks == G.rank
=============================================================================
