------------------------------ MODULE MaxSearch -------------------------------
(***************************************************************************)
(* find_bound_max (src/spaction/src/spotcheck.cc): the supremum of a       *)
(* CLTL[>] formula over the words of a model.  The direct strategy takes   *)
(* it from one exploration, the CEGAR strategy from counterexamples: as    *)
(* long as a word satisfies the formula and its instance above the value   *)
(* known, the value of that word is the next one.                          *)
(*                                                                         *)
(* A word is what its accepting runs give: the values that are finite, and *)
(* whether a run gives no bound.  It satisfies the instance at n iff a run *)
(* gives n or more.  What explores is SupremumFinder, taken at its word:   *)
(* AnswerExact in SupremumFinder.tla.                                      *)
(***************************************************************************)
EXTENDS Integers

CONSTANTS
  Wrap,      \* the number of values of unsigned int
  Worlds     \* a formula and a model: records of the set World

UInt == 0 .. Wrap-1
Word == [values : SUBSET UInt, infinite : BOOLEAN]

World == [words : SUBSET Word,
          bound : UInt,         \* |model| x |automaton|, an unsigned product
          unbounded : BOOLEAN,  \* words have values greater than any number
          repeats : BOOLEAN]    \* an until of the formula is in its instance

ASSUME MaxSearchAssumption ==
  Wrap \in Nat /\ Wrap >= 2 /\ Worlds \subseteq World

VARIABLES
  world, strategy, debug,
  pc,        \* "search", "refine", "done"; "thrown" or "aborted"
  required,  \* what phi requires a word to reach
  first,     \* first_pass
  run,       \* the counterexample
  res        \* the result: [infinite, value]

vars == <<world, strategy, debug, pc, required, first, run, res>>

Result == [infinite : BOOLEAN, value : UInt]
Finite(v) == [infinite |-> FALSE, value |-> v]
Infinite == [infinite |-> TRUE, value |-> 0]
NoRun == [values |-> {}, infinite |-> FALSE]

(* find_supremum over the runs of some words: a value beyond the bound is  *)
(* returned where it is met; else, infinite if a run has no bound, or the  *)
(* greatest value, 0 if there is none.                                     *)
Values(words) == UNION {w.values : w \in words}
SomeInfinite(words) == \E w \in words : w.infinite

Supremum(words, bound) ==
  {Finite(v) : v \in {x \in Values(words) : x > bound}} \cup
  IF SomeInfinite(words) THEN {Infinite}
  ELSE {Finite(v) : v \in {x \in Values(words) \cup {0} :
                             \A y \in Values(words) : y <= x /\ y <= bound}}

(* The words that satisfy the formula, and its instance at n.              *)
Reaches(w, n) == w.infinite \/ \E v \in w.values : v >= n
Satisfying(n) == {w \in world.words : Reaches(w, n)}

Init ==
  /\ world \in Worlds
  /\ strategy \in {"CEGAR", "DIRECT"}
  /\ debug \in BOOLEAN
  /\ pc = "search" /\ required = 0 /\ first = TRUE
  /\ run = NoRun /\ res = Finite(0)

(* find_max_direct. *)
Direct ==
  /\ strategy = "DIRECT" /\ pc = "search"
  /\ res' \in Supremum(world.words, world.bound)
  /\ pc' = "done"
  /\ UNCHANGED <<world, strategy, debug, required, first, run>>

(* The emptiness check of a pass of find_max_cegar.  The translator throws *)
(* on an until that is twice in its formula, as in the conjunction of the  *)
(* formula and an instance that shares it.                                 *)
Translates == first \/ ~world.repeats

Check ==
  /\ strategy = "CEGAR" /\ pc = "search" /\ Translates
  /\ \/ Satisfying(required) = {} /\ pc' = "done" /\ UNCHANGED run
     \/ pc' = "refine" /\ run' \in Satisfying(required)
  /\ UNCHANGED <<world, strategy, debug, required, first, res>>

Throw ==
  /\ strategy = "CEGAR" /\ pc = "search" /\ ~Translates
  /\ pc' = "thrown"
  /\ UNCHANGED <<world, strategy, debug, required, first, run, res>>

(* Variants with a bug: phi asks for the value known, or for two more.     *)
SameRequired(value) == value
RequiredTooHigh(value) == (value + 2) % Wrap

(* The value of the counterexample, and the formula of the next pass.      *)
NextRequired(value) == (value + 1) % Wrap

Refine ==
  /\ pc = "refine"
  /\ \E v \in Supremum({run}, world.bound) :
       \/ v.infinite /\ pc' = "done" /\ res' = v /\ UNCHANGED required
       \/ /\ ~v.infinite /\ (~debug \/ first \/ res.value < v.value)
          /\ pc' = "search" /\ res' = v /\ required' = NextRequired(v.value)
       \/ /\ ~v.infinite /\ debug /\ ~first /\ res.value >= v.value
          /\ pc' = "aborted" /\ UNCHANGED <<res, required>>
  /\ first' = FALSE
  /\ UNCHANGED <<world, strategy, debug, run>>

Stopped == pc \in {"done", "thrown", "aborted"} /\ UNCHANGED vars

Next == Direct \/ Check \/ Throw \/ Refine \/ Stopped

(* One thread: it always takes its next step.                              *)
Spec == Init /\ [][Next]_vars /\ WF_vars(Next)
-----------------------------------------------------------------------------
(* The variables have their types.                                         *)
TypeOK ==
  /\ world \in Worlds /\ strategy \in {"CEGAR", "DIRECT"}
  /\ debug \in BOOLEAN /\ first \in BOOLEAN
  /\ pc \in {"search", "refine", "done", "thrown", "aborted"}
  /\ required \in UInt /\ run \in Word /\ res \in Result

(* A model the bound is right for: no value is beyond it, and it is not    *)
(* the last unsigned int.                                                  *)
Bounded(w) ==
  ~w.unbounded /\ w.bound < Wrap-1 /\ \A v \in Values(w.words) : v <= w.bound

IsSupremum(r, words) ==
  /\ r.infinite <=> SomeInfinite(words)
  /\ ~r.infinite => /\ r.value \in Values(words) \cup {0}
                    /\ \A v \in Values(words) : v <= r.value

(* Both strategies return the supremum of the formula over the model when  *)
(* the bound is right for it: no word the CEGAR loop has not looked at     *)
(* goes beyond the last one it has.                                        *)
SupremumExact == pc = "done" /\ Bounded(world) => IsSupremum(res, world.words)

(* The assertion of the CEGAR loop, that each pass raises the value, fails *)
(* only past the bound, where the exploration stops at any value it meets. *)
AbortsBeyondBound ==
  pc = "aborted" /\ world.bound < Wrap-1 => res.value > world.bound

(* Up to the bound, a pass that goes on has raised the value.              *)
Raises ==
  [][pc = "refine" /\ ~first /\ pc' = "search" /\ res'.value <= world.bound
       => res.value < res'.value \/ res.value = Wrap-1]_vars

(* What find_bound_max returns: -1 for infinity.                           *)
Returned(r) == IF r.infinite THEN Wrap-1 ELSE r.value

Finder == INSTANCE BoundFinder WITH
  Bounds <- UInt, NoAnswer <- -1,
  bound <- IF world.unbounded \/ SomeInfinite(world.words) THEN Wrap-1
           ELSE CHOOSE v \in Values(world.words) \cup {0} :
                  \A x \in Values(world.words) : x <= v,
  answer <- IF pc = "done" /\ Bounded(world) THEN Returned(res) ELSE -1

(* The search is a finder of the supremum: one answer, given once.         *)
AnswersOnce == Finder!Spec

Ended == pc \in {"done", "thrown", "aborted"}

(* Within the bound the search ends.                                       *)
Terminates == Bounded(world) ~> Ended

(* The search ends with an answer, as the caller of find_bound_max expects *)
(* (spotcheck.h:56): not so.                                               *)
NeverThrows == pc # "thrown"
=============================================================================
