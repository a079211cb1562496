------------------------------ MODULE MCBocage ------------------------------
(***************************************************************************)
(* Instances of the bocage.  A call that changes nothing but what other    *)
(* runs check (settings, refused tokens) is kept out by the constants.     *)
(***************************************************************************)
EXTENDS BocageReference, ProgressReport

LOCAL Sample == INSTANCE Grammars

Merging      == Sample!Merging
TrailingNull == Sample!TrailingNull

NoActivations == {}

NullCounts == G.nullCount

Current == {-1}
Several == {-2, -1, 1, 5}
=============================================================================
