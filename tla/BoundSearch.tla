----------------------------- MODULE BoundSearch -----------------------------
(***************************************************************************)
(* find_bound_min_dichoto and find_bound_max_dichoto                       *)
(* (src/spaction/src/spotcheck.cc): doubling, then bisection, over bounds  *)
(* held in an unsigned int.  Each probe of a bound n instantiates the      *)
(* formula at n and runs a whole model check, spot_dve_check, which is     *)
(* true iff no execution of the model satisfies the instance.              *)
(*                                                                         *)
(* Instances of a CLTL[<=] formula get weaker as n grows, instances of a   *)
(* CLTL[>] formula stronger: over one model the check changes its answer   *)
(* at one bound only, the threshold.  The two functions are the same       *)
(* search, the second with every answer negated; but only spot_check_inf   *)
(* rewrites the quotes of the propositions into those that spot reads, so  *)
(* on a formula with a proposition the second exits at its first probe.    *)
(***************************************************************************)
EXTENDS Integers

CONSTANT Wrap  \* the number of values of unsigned int, 2^32 in the build

(* Every proper divisor of a power of two can be doubled and still divides. *)
PowerOfTwo(n) == \A d \in 1 .. n-1 : n % d = 0 => n % (2 * d) = 0

ASSUME WrapAssumption == Wrap \in Nat /\ Wrap >= 2 /\ PowerOfTwo(Wrap)

Half == Wrap \div 2
UInt == 0 .. Wrap-1

VARIABLES
  strategy,   \* which of the two functions runs: "inf" or "sup"
  propositions, \* the formula has atomic propositions
  threshold,  \* the first bound where the check answers otherwise; Wrap if none
  pc,         \* "zero", "grow", "bisect"; "done", or "exited": exit(1)
  min, max,   \* the variables of the function
  result      \* what it returned

vars == <<strategy, propositions, threshold, pc, min, max, result>>
frozen == <<strategy, propositions, threshold>>

(* What spot parses: dump() puts propositions between single quotes, which *)
(* spot_check_inf replaces by double ones and spot_check_sup does not.     *)
Readable == strategy = "inf" \/ ~propositions

(* spot_check_inf, spot_check_sup of what spot parses: no execution        *)
(* satisfies the instance.                                                 *)
Check(n) == IF strategy = "inf" THEN n < threshold ELSE n >= threshold

(* The condition of the loops: the check itself, or its negation. *)
GoesOn(n) == IF strategy = "inf" THEN Check(n) ELSE ~Check(n)

(* Without propositions every position is like every other: all instances  *)
(* are the same constant.                                                  *)
Init ==
  /\ strategy \in {"inf", "sup"}
  /\ propositions \in BOOLEAN
  /\ threshold \in IF propositions THEN 0 .. Wrap ELSE {0, Wrap}
  /\ pc = "zero"
  /\ min = 0 /\ max = 0 /\ result = 0

(* spot_dve_check meets parse errors at the first probe and exits. *)
Exit ==
  /\ pc = "zero"
  /\ ~Readable
  /\ pc' = "exited"
  /\ UNCHANGED <<frozen, min, max, result>>

(* The test of bound 0, and the early return. *)
ProbeZero ==
  /\ pc = "zero"
  /\ Readable
  /\ \/ GoesOn(max) /\ pc' = "grow" /\ UNCHANGED result
     \/ ~GoesOn(max) /\ pc' = "done" /\ result' = max
  /\ UNCHANGED <<frozen, min, max>>

(* Variants with a bug: the doubling in a wider type; 0 is never left.     *)
DoubledWide(n) == IF n = 0 THEN 1 ELSE 2 * n
DoubledOnly(n) == (2 * n) % Wrap

Doubled(n) == IF n = 0 THEN 1 ELSE (2 * n) % Wrap

(* Variant with a bug: the last bound before the doubling wraps is taken   *)
(* for the answer.                                                         *)
GrowGivesUp ==
  /\ pc = "grow"
  /\ max' = Doubled(max)
  /\ \/ max' < max /\ pc' = "done" /\ result' = max /\ UNCHANGED min
     \/ max' > max /\ GoesOn(max') /\ UNCHANGED <<pc, min, result>>
     \/ ~GoesOn(max') /\ pc' = "bisect" /\ min' = max' \div 2 /\ UNCHANGED result
  /\ UNCHANGED frozen

(* One turn of the do-while: double, probe, and leave the loop with min. *)
Grow ==
  /\ pc = "grow"
  /\ max' = Doubled(max)
  /\ \/ GoesOn(max') /\ UNCHANGED <<pc, min>>
     \/ ~GoesOn(max') /\ pc' = "bisect" /\ min' = max' \div 2
  /\ UNCHANGED <<frozen, result>>

Middle == ((min + max) % Wrap) \div 2

(* Variant with a bug: the ends are swapped.                               *)
BisectSwapped ==
  /\ pc = "bisect" /\ min + 1 # max
  /\ \/ GoesOn(Middle) /\ max' = Middle /\ UNCHANGED min
     \/ ~GoesOn(Middle) /\ min' = Middle /\ UNCHANGED max
  /\ UNCHANGED <<frozen, pc, result>>

(* One turn of the while: probe the middle and move one end there. *)
Bisect ==
  /\ pc = "bisect"
  /\ min + 1 # max
  /\ \/ GoesOn(Middle) /\ min' = Middle /\ UNCHANGED max
     \/ ~GoesOn(Middle) /\ max' = Middle /\ UNCHANGED min
  /\ UNCHANGED <<frozen, pc, result>>

(* Variant with a bug: the other end is returned.                          *)
ReturnMax ==
  /\ pc = "bisect" /\ min + 1 = max
  /\ pc' = "done" /\ result' = max
  /\ UNCHANGED <<frozen, min, max>>

Return ==
  /\ pc = "bisect"
  /\ min + 1 = max
  /\ pc' = "done"
  /\ result' = min
  /\ UNCHANGED <<frozen, min, max>>

(* The function has returned, or the program has exited. *)
Terminated == pc \in {"done", "exited"} /\ UNCHANGED vars

Next == Exit \/ ProbeZero \/ Grow \/ Bisect \/ Return \/ Terminated

(* One thread, which always takes its next step: no external event stops it. *)
Spec == Init /\ [][Next]_vars /\ WF_vars(Next)

-----------------------------------------------------------------------------
(* The types of the variables of the function. *)
TypeOK ==
  /\ strategy \in {"inf", "sup"}
  /\ propositions \in BOOLEAN
  /\ threshold \in 0 .. Wrap
  /\ pc \in {"zero", "grow", "bisect", "done", "exited"}
  /\ min \in UInt /\ max \in UInt /\ result \in UInt

(* While it bisects, the search has the threshold between its ends, min on *)
(* one side and max on the other, though neither loop compares the two.    *)
Bracket == pc = "bisect" => min < threshold /\ threshold <= max

(* What is returned is where the check changes its answer, as the comment  *)
(* on min and max says (spotcheck.cc:139-140): the search went on with     *)
(* that number and not with the next, or it never went on.  That this      *)
(* number is the bound of the formula is not claimed: the infimum is the   *)
(* next one.                                                               *)
ResultExact ==
  pc = "done" => \/ result = 0 /\ ~GoesOn(0)
                 \/ GoesOn(result) /\ ~GoesOn(result + 1)

(* The sum of the two ends never wraps in the middle of the bisection.     *)
MiddleExact == pc = "bisect" => min + max < Wrap

(* The search returns only when the threshold fits half the range of       *)
(* unsigned int: past it the doubling wraps to 0 and starts again.         *)
ReturnsBelowHalf == pc = "done" => threshold <= Half

(* Below half the range the search returns, if spot can parse what it is   *)
(* given; else the program exits.                                          *)
Terminates ==
  /\ Readable /\ threshold <= Half => <>(pc = "done")
  /\ ~Readable => <>(pc = "exited")
=============================================================================
