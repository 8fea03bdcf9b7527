----------------------------- MODULE BoundFinder -----------------------------
(***************************************************************************)
(* What find_bound_max (src/spaction/src/spotcheck.cc) promises, whatever  *)
(* its strategy: from the values the words of the model give to the cost   *)
(* formula, one answer, given once.  MaxSearch details the CEGAR loop and  *)
(* the direct exploration, and implements this module.                     *)
(***************************************************************************)
CONSTANTS
  Bounds,      \* the numbers the search can return
  NoAnswer     \* the search has not returned; not one of Bounds

VARIABLES
  bound,       \* the bound of the formula over the model
  answer       \* what the search returned, or NoAnswer

Init ==
  /\ bound \in Bounds
  /\ answer = NoAnswer

(* The search returns the bound. *)
Return ==
  /\ answer = NoAnswer
  /\ answer' = bound
  /\ UNCHANGED bound

Spec == Init /\ [][Return]_<<bound, answer>>
=============================================================================
