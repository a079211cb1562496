---------------------------- MODULE MCLifecycle ----------------------------
(***************************************************************************)
(* Six objects: a chain of one of each class but the recognizer, with one  *)
(* to spare, for a second valuator of the tree or a lost bocage.           *)
(***************************************************************************)
EXTENDS Lifecycle, TLC

Permuted == Permutations(Object)
=============================================================================
