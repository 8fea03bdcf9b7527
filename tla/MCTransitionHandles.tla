-------------------------- MODULE MCTransitionHandles --------------------------
(***************************************************************************)
(* TransitionHandles for TLC.  Addresses and handles are interchangeable:  *)
(* no definition or invariant names one.                                   *)
(***************************************************************************)
EXTENDS TransitionHandles, TLC

MCSymmetry == Permutations(Transition) \union Permutations(Block) \union Permutations(Handle)
=============================================================================
