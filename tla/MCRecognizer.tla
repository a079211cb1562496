---------------------------- MODULE MCRecognizer ----------------------------
(***************************************************************************)
(* Instances of the recognizer: the grammars and the calls that TLC tries. *)
(***************************************************************************)
EXTENDS ProgressReport

LOCAL Sample == INSTANCE Grammars

Nullable    == Sample!Nullable
Barred      == Sample!Barred
RightPieces == Sample!RightPieces

NoActivations == {}
=============================================================================
