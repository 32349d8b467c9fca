----------------------------- MODULE MCLifecycle -----------------------------
(***************************************************************************)
(* Lifecycle for TLC.                                                      *)
(***************************************************************************)
EXTENDS Lifecycle, TLC

CONSTANTS o1, o2

TwoObservers == {o1, o2}
ObserverSymmetry == Permutations(TwoObservers)
=============================================================================
