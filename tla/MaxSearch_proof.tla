--------------------------- MODULE MaxSearch_proof ----------------------------
(***************************************************************************)
(* What MaxSearch promises, proved for every model and every width of      *)
(* unsigned int: the types, the supremum within the bound, and that the    *)
(* assertion of the CEGAR loop fails only past it.                         *)
(***************************************************************************)
EXTENDS MaxSearch, NatLemmas

(* Before the first counterexample nothing is known and nothing required.  *)
AtStart ==
  first /\ pc \in {"search", "refine"} => res = Finite(0) /\ required = 0

(* After it, the value known is one of the model, and more is required.    *)
Later ==
  ~first /\ pc \in {"search", "refine"} =>
    /\ ~res.infinite /\ res.value \in Values(world.words)
    /\ required = NextRequired(res.value)

(* The counterexample is a word of the model that has what was required.   *)
AtRefine == pc = "refine" => strategy = "CEGAR" /\ run \in Satisfying(required)

Inv == TypeOK /\ AtStart /\ Later /\ AtRefine /\ SupremumExact /\ AbortsBeyondBound

LEMMA WorldFacts ==
  ASSUME NEW w \in Worlds
  PROVE  /\ w \in World /\ w.words \subseteq Word /\ w.bound \in UInt
         /\ Values(w.words) \subseteq UInt
<1>1. w \in World
  BY MaxSearchAssumption
<1>2. w.words \subseteq Word /\ w.bound \in UInt
  BY <1>1 DEF World
<1>3. QED
  BY <1>1, <1>2 DEF Values, Word

(* The exploration returns a result: the value of a run, or 0 where there  *)
(* is none.                                                                *)
LEMMA SupremumType ==
  ASSUME NEW W \in SUBSET Word, NEW b, NEW r \in Supremum(W, b)
  PROVE  /\ r \in Result
         /\ ~r.infinite => r.value \in Values(W) \cup {0}
         /\ r.infinite => SomeInfinite(W)
<1>1. Values(W) \subseteq UInt /\ 0 \in UInt
  BY MaxSearchAssumption DEF Values, Word, UInt
<1>2. CASE r = Infinite /\ SomeInfinite(W)
  BY <1>1, <1>2 DEF Infinite, Result
<1>3. CASE \E v \in Values(W) \cup {0} : r = Finite(v)
  BY <1>1, <1>3 DEF Finite, Result
<1>4. QED
  BY <1>2, <1>3 DEF Supremum

(* Within the bound, it is the supremum.                                   *)
LEMMA SupremumWithin ==
  ASSUME NEW W \in SUBSET Word, NEW b \in UInt, NEW r \in Supremum(W, b),
         \A v \in Values(W) : v <= b
  PROVE  IsSupremum(r, W)
<1>1. Values(W) \subseteq UInt /\ UInt \subseteq Int
  BY DEF Values, Word, UInt
<1>2. ~\E v \in Values(W) : v > b
  BY <1>1 DEF UInt
<1>3. CASE SomeInfinite(W)
  BY <1>2, <1>3 DEF Supremum, Infinite, IsSupremum
<1>4. CASE ~SomeInfinite(W)
  <2>1. PICK x \in Values(W) \cup {0} : r = Finite(x) /\ \A y \in Values(W) : y <= x
    BY <1>2, <1>4 DEF Supremum
  <2>2. QED
    BY <2>1, <1>4 DEF IsSupremum, Finite
<1>5. QED
  BY <1>3, <1>4

LEMMA NextRequiredType ==
  ASSUME NEW v \in UInt
  PROVE  /\ NextRequired(v) \in UInt
         /\ v < Wrap-1 => NextRequired(v) = v + 1
BY MaxSearchAssumption DEF NextRequired, UInt

LEMMA Initially == Init => Inv
BY MaxSearchAssumption, WorldFacts DEF Init, Inv, TypeOK, AtStart, Later, AtRefine, SupremumExact,
   AbortsBeyondBound, UInt, Word, Result, NoRun, Finite

LEMMA DirectPreserves == Inv /\ Direct => Inv'
<1> SUFFICES ASSUME Inv, Direct PROVE Inv'
  OBVIOUS
<1> USE DEF Inv, Direct
<1>1. /\ world.words \in SUBSET Word /\ world.bound \in UInt
  BY WorldFacts DEF TypeOK
<1>2. res' \in Result
  BY <1>1, SupremumType
<1>3. TypeOK'
  BY <1>2 DEF TypeOK
<1>4. SupremumExact'
  BY <1>1, SupremumWithin DEF SupremumExact, Bounded
<1>5. QED
  BY <1>3, <1>4 DEF AtStart, Later, AtRefine, AbortsBeyondBound, TypeOK

(* A pass ends the loop when no word has more than what is known: then the *)
(* value known is the supremum.                                            *)
LEMMA EmptyExact ==
  ASSUME Inv, pc = "search", Satisfying(required) = {}, Bounded(world)
  PROVE  IsSupremum(res, world.words)
<1> USE DEF Inv
<1>1. world.words \subseteq Word /\ world.bound \in UInt /\ Values(world.words) \subseteq UInt
  BY WorldFacts DEF TypeOK
<1>2. ~SomeInfinite(world.words)
  BY DEF Satisfying, Reaches, SomeInfinite
<1>3. \A v \in Values(world.words) : v < required
  <2>1. \A w \in world.words : \A v \in w.values : ~(v >= required)
    BY DEF Satisfying, Reaches
  <2>2. \A v \in Values(world.words) : ~(v >= required)
    BY <2>1 DEF Values
  <2>3. QED
    BY <2>2, <1>1 DEF TypeOK, UInt
<1>4. CASE first
  <2>1. res = Finite(0) /\ required = 0
    BY <1>4 DEF AtStart
  <2>2. Values(world.words) = {}
    BY <2>1, <1>1, <1>3 DEF UInt
  <2>3. QED
    BY <2>1, <2>2, <1>2 DEF IsSupremum, Finite
<1>5. CASE ~first
  <2>1. ~res.infinite /\ res.value \in Values(world.words) /\ required = NextRequired(res.value)
    BY <1>5 DEF Later
  <2>2. res.value < Wrap-1
    BY <2>1, <1>1, MaxSearchAssumption DEF Bounded, UInt
  <2>3. required = res.value + 1
    BY <2>1, <2>2, <1>1, NextRequiredType
  <2>4. \A v \in Values(world.words) : v <= res.value
    BY <2>1, <2>3, <1>1, <1>3 DEF UInt
  <2>5. QED
    BY <2>1, <2>4, <1>2 DEF IsSupremum
<1>6. QED
  BY <1>4, <1>5 DEF TypeOK

LEMMA CheckPreserves == Inv /\ Check => Inv'
<1> SUFFICES ASSUME Inv, Check PROVE Inv'
  OBVIOUS
<1> USE DEF Inv, Check
<1>1. CASE Satisfying(required) = {} /\ pc' = "done" /\ UNCHANGED run
  <2>1. SupremumExact'
    BY <1>1, EmptyExact DEF SupremumExact, Bounded
  <2>2. QED
    BY <1>1, <2>1 DEF TypeOK, AtStart, Later, AtRefine, AbortsBeyondBound
<1>2. CASE pc' = "refine" /\ run' \in Satisfying(required)
  <2>1. run' \in Word
    BY <1>2, WorldFacts DEF TypeOK, Satisfying
  <2>2. QED
    BY <1>2, <2>1 DEF TypeOK, AtStart, Later, AtRefine, AbortsBeyondBound, SupremumExact, Satisfying
<1>3. QED
  BY <1>1, <1>2

(* What exploring the counterexample returns: a value of the model, and,   *)
(* when it is not beyond the bound, one that is no less than required.     *)
LEMMA RunValue ==
  ASSUME Inv, pc = "refine", NEW v \in Supremum({run}, world.bound)
  PROVE  /\ v \in Result
         /\ v.infinite => SomeInfinite(world.words)
         /\ ~v.infinite => /\ v.value \in Values(world.words)
                           /\ v.value <= world.bound => required <= v.value
<1> USE DEF Inv
<1>1. /\ run \in Word /\ {run} \in SUBSET Word /\ run \in world.words
      /\ Reaches(run, required) /\ required \in UInt
  BY DEF TypeOK, AtRefine, Satisfying
<1>2. Values({run}) = run.values /\ (SomeInfinite({run}) <=> run.infinite)
  BY DEF Values, SomeInfinite
<1>3. run.values \subseteq Values(world.words) /\ run.values \subseteq UInt
  BY <1>1 DEF Values, Word
<1>4. /\ v \in Result /\ (~v.infinite => v.value \in Values({run}) \cup {0})
      /\ (v.infinite => SomeInfinite({run}))
  BY <1>1, SupremumType
<1>5. v.infinite => SomeInfinite(world.words)
  BY <1>1, <1>2, <1>4 DEF SomeInfinite
<1>6. ASSUME ~v.infinite
      PROVE  v.value \in run.values /\ (v.value <= world.bound => required <= v.value)
  <2>1. CASE \E x \in run.values : x > world.bound /\ v = Finite(x)
    <3>1. PICK x \in run.values : x > world.bound /\ v = Finite(x)
      BY <2>1
    <3>2. v.value = x
      BY <3>1 DEF Finite
    <3>3. world.bound \in UInt
      BY WorldFacts DEF TypeOK
    <3>4. QED
      BY <3>1, <3>2, <3>3, <1>3 DEF UInt
  <2>2. CASE ~run.infinite /\ \E x \in run.values \cup {0} :
               v = Finite(x) /\ \A y \in run.values : y <= x
    <3>1. PICK x \in run.values \cup {0} : v = Finite(x) /\ \A y \in run.values : y <= x
      BY <2>2
    <3>2. v.value = x
      BY <3>1 DEF Finite
    <3>3. PICK y \in run.values : y >= required
      BY <1>1, <2>2 DEF Reaches
    <3>4. required <= x /\ x \in run.values
      BY <3>1, <3>3, <1>1, <1>3 DEF UInt
    <3>5. QED
      BY <3>2, <3>4
  <2>3. QED
    BY <1>2, <1>6, <2>1, <2>2 DEF Supremum, Infinite
<1>7. QED
  BY <1>3, <1>4, <1>5, <1>6

LEMMA RefinePreserves == Inv /\ Refine => Inv'
<1> SUFFICES ASSUME Inv, Refine PROVE Inv'
  OBVIOUS
<1>1. pc = "refine" /\ first' = FALSE /\ UNCHANGED <<world, strategy, debug, run>>
  BY DEF Refine
<1>2. PICK v \in Supremum({run}, world.bound) :
       \/ v.infinite /\ pc' = "done" /\ res' = v /\ UNCHANGED required
       \/ /\ ~v.infinite /\ (~debug \/ first \/ res.value < v.value)
          /\ pc' = "search" /\ res' = v /\ required' = NextRequired(v.value)
       \/ /\ ~v.infinite /\ debug /\ ~first /\ res.value >= v.value
          /\ pc' = "aborted" /\ UNCHANGED <<res, required>>
  BY DEF Refine
<1>3. /\ v \in Result
      /\ v.infinite => SomeInfinite(world.words)
      /\ ~v.infinite => /\ v.value \in Values(world.words)
                        /\ v.value <= world.bound => required <= v.value
  BY <1>1, RunValue
<1>4. v.value \in UInt /\ NextRequired(v.value) \in UInt /\ world.bound \in UInt
  BY <1>3, NextRequiredType, WorldFacts DEF Result, Inv, TypeOK
<1>5. CASE v.infinite /\ pc' = "done" /\ res' = v /\ UNCHANGED required
  <2>1. SupremumExact'
    BY <1>1, <1>3, <1>5 DEF SupremumExact, IsSupremum
  <2>2. TypeOK'
    BY <1>1, <1>3, <1>5 DEF Inv, TypeOK
  <2>3. QED
    BY <1>1, <1>5, <2>1, <2>2 DEF Inv, AtStart, Later, AtRefine, AbortsBeyondBound
<1>6. CASE ~v.infinite /\ pc' = "search" /\ res' = v /\ required' = NextRequired(v.value)
  <2>1. TypeOK'
    BY <1>1, <1>3, <1>4, <1>6 DEF Inv, TypeOK
  <2>2. Later'
    BY <1>1, <1>3, <1>6 DEF Later
  <2>3. QED
    BY <1>1, <1>6, <2>1, <2>2 DEF Inv, AtStart, AtRefine, AbortsBeyondBound, SupremumExact
<1>7. CASE ~v.infinite /\ ~first /\ res.value >= v.value /\ pc' = "aborted" /\ UNCHANGED <<res, required>>
  <2>1. TypeOK'
    BY <1>1, <1>7 DEF Inv, TypeOK
  <2>2. res.value \in UInt /\ required = NextRequired(res.value)
    BY <1>1, <1>7 DEF Inv, TypeOK, Later, Result
  <2>3. ASSUME world.bound < Wrap-1 PROVE res.value > world.bound
    <3>1. CASE v.value > world.bound
      BY <3>1, <1>4, <1>7, <2>2, MaxSearchAssumption DEF UInt
    <3>2. CASE v.value <= world.bound
      <4>1. ~(res.value < Wrap-1)
        BY <3>2, <1>3, <1>4, <1>7, <2>2, NextRequiredType, MaxSearchAssumption DEF UInt
      <4>2. QED
        BY <4>1, <2>2, <2>3, <1>4, MaxSearchAssumption DEF UInt
    <3>3. QED
      BY <3>1, <3>2, <1>4, MaxSearchAssumption DEF UInt
  <2>4. AbortsBeyondBound'
    BY <2>3, <1>1, <1>7 DEF AbortsBeyondBound
  <2>5. QED
    BY <1>1, <1>7, <2>1, <2>4 DEF Inv, AtStart, Later, AtRefine, SupremumExact
<1>8. QED
  BY <1>2, <1>5, <1>6, <1>7

LEMMA ThrowPreserves == Inv /\ Throw => Inv'
BY DEF Inv, Throw, TypeOK, AtStart, Later, AtRefine, SupremumExact, AbortsBeyondBound

LEMMA StutterPreserves == Inv /\ UNCHANGED vars => Inv'
BY DEF Inv, vars, TypeOK, AtStart, Later, AtRefine, SupremumExact, AbortsBeyondBound, Satisfying

THEOREM Invariance == Spec => []Inv
<1>1. Init => Inv
  BY Initially
<1>2. Inv /\ [Next]_vars => Inv'
  BY DirectPreserves, CheckPreserves, RefinePreserves, ThrowPreserves, StutterPreserves
  DEF Next, Stopped
<1>3. QED
  BY <1>1, <1>2, PTL DEF Spec

(* The variables have their types.                                         *)
THEOREM TypeCorrect == Spec => []TypeOK
<1>1. Inv => TypeOK
  BY DEF Inv
<1>2. QED
  BY <1>1, Invariance, PTL

(* Within the bound both strategies return the supremum.                   *)
THEOREM SupremumCorrect == Spec => []SupremumExact
<1>1. Inv => SupremumExact
  BY DEF Inv
<1>2. QED
  BY <1>1, Invariance, PTL

(* The assertion of the CEGAR loop fails only past the bound.              *)
THEOREM AbortCorrect == Spec => []AbortsBeyondBound
<1>1. Inv => AbortsBeyondBound
  BY DEF Inv
<1>2. QED
  BY <1>1, Invariance, PTL

(* Up to the bound each pass raises the value.                             *)
THEOREM PassesRaise == Spec => Raises
<1>1. ASSUME Inv, Next, pc = "refine", ~first, pc' = "search", res'.value <= world.bound
      PROVE  res.value < res'.value \/ res.value = Wrap-1
  <2>1. Refine
    BY <1>1 DEF Next, Direct, Check, Throw, Stopped
  <2>2. PICK v \in Supremum({run}, world.bound) : ~v.infinite /\ res' = v
    BY <2>1, <1>1 DEF Refine
  <2>3. v \in Result /\ required <= v.value
    BY <2>2, <1>1, RunValue
  <2>4. res.value \in UInt /\ v.value \in UInt /\ required = NextRequired(res.value)
    BY <2>3, <1>1 DEF Inv, TypeOK, Later, Result
  <2>5. QED
    BY <2>2, <2>3, <2>4, NextRequiredType, MaxSearchAssumption DEF UInt
<1>2. Inv /\ [Next]_vars =>
        [pc = "refine" /\ ~first /\ pc' = "search" /\ res'.value <= world.bound
           => res.value < res'.value \/ res.value = Wrap-1]_vars
  BY <1>1
<1>3. QED
  BY <1>2, Invariance, PTL DEF Spec, Raises
-----------------------------------------------------------------------------
(* The bound of the formula over the model: the greatest value of its      *)
(* words, or the last unsigned int, which stands for infinity.             *)
Greatest(V) == CHOOSE v \in V \cup {0} : \A x \in V : x <= v
BoundOf(w) ==
  IF w.unbounded \/ SomeInfinite(w.words) THEN Wrap-1 ELSE Greatest(Values(w.words))

LEMMA GreatestFacts ==
  ASSUME NEW V \in SUBSET UInt
  PROVE  Greatest(V) \in V \cup {0} /\ \A x \in V : x <= Greatest(V)
<1>1. V \cup {0} \in SUBSET Nat /\ \A n \in V \cup {0} : n <= Wrap-1
  BY MaxSearchAssumption DEF UInt
<1>2. Wrap-1 \in Nat
  BY MaxSearchAssumption
<1>3. \E m \in V \cup {0} : \A n \in V \cup {0} : n <= m
  BY <1>1, <1>2, GreatestNat
<1>4. QED
  BY <1>3 DEF Greatest

(* The supremum an exploration finds is the bound of the model.            *)
LEMMA SupremumIsBound ==
  ASSUME NEW w \in Worlds, Bounded(w), NEW r \in Result, IsSupremum(r, w.words)
  PROVE  Returned(r) = BoundOf(w)
<1>1. Values(w.words) \in SUBSET UInt
  BY WorldFacts
<1>2. CASE SomeInfinite(w.words)
  BY <1>2 DEF IsSupremum, Returned, BoundOf
<1>3. CASE ~SomeInfinite(w.words)
  <2>1. /\ ~r.infinite /\ r.value \in Values(w.words) \cup {0}
        /\ \A v \in Values(w.words) : v <= r.value
    BY <1>3 DEF IsSupremum
  <2> DEFINE V == Values(w.words)
             g == Greatest(V)
  <2>2. g \in V \cup {0} /\ \A x \in V : x <= g
    BY <1>1, GreatestFacts
  <2>3. Returned(r) = r.value /\ BoundOf(w) = g
    BY <1>3, <2>1 DEF Returned, BoundOf, Bounded
  <2> HIDE DEF V, g
  <2>4. \A x \in V : x \in Nat
    BY <1>1 DEF UInt, V
  <2>5. r.value \in V \cup {0} /\ \A v \in V : v <= r.value
    BY <2>1 DEF V
  <2>6. r.value = g
    BY <2>2, <2>4, <2>5
  <2>7. QED
    BY <2>3, <2>6
<1>4. QED
  BY <1>2, <1>3

(* Both strategies implement the promise of a search: a step of either is  *)
(* the one answer of BoundFinder, which is the bound of the model, or      *)
(* stutters.                                                               *)
THEOREM Refinement == Spec => AnswersOnce
<1> DEFINE bnd == BoundOf(world)
           out == IF pc = "done" /\ Bounded(world) THEN Returned(res) ELSE -1
<1>1. Init => bnd \in UInt /\ out = -1
  <2> SUFFICES ASSUME Init PROVE bnd \in UInt /\ out = -1
    OBVIOUS
  <2>1. Values(world.words) \in SUBSET UInt
    BY WorldFacts DEF Init
  <2>2. Greatest(Values(world.words)) \in UInt /\ Wrap-1 \in UInt
    BY <2>1, GreatestFacts, MaxSearchAssumption DEF UInt
  <2>3. QED
    BY <2>2 DEF Init, BoundOf
<1>2. Inv /\ Inv' /\ [Next]_vars => [Finder!Return]_<<bnd, out>>
  <2> SUFFICES ASSUME Inv, Inv', [Next]_vars
               PROVE  [out = -1 /\ out' = bnd /\ UNCHANGED bnd]_<<bnd, out>>
    BY DEF Finder!Return, BoundOf, Greatest
  <2>1. world' = world
    BY DEF Next, Direct, Check, Throw, Refine, Stopped, vars
  <2>2. bnd' = bnd
    BY <2>1 DEF BoundOf, SomeInfinite, Values, Greatest
  <2>3. Bounded(world)' = Bounded(world)
    BY <2>1 DEF Bounded
  <2>4. CASE ~Bounded(world)
    BY <2>2, <2>3, <2>4
  <2>5. CASE pc = "done"
    <3>1. pc' = pc /\ res' = res
      BY <2>5 DEF Next, Direct, Check, Throw, Refine, Stopped, vars
    <3>2. out' = out
      BY <2>3, <3>1 DEF Returned
    <3>3. QED
      BY <2>2, <3>2
  <2>6. CASE pc # "done" /\ pc' # "done"
    BY <2>2, <2>6
  <2>7. CASE Bounded(world) /\ pc # "done" /\ pc' = "done"
    <3>1. world \in Worlds /\ res' \in Result
      BY DEF Inv, TypeOK
    <3>2. IsSupremum(res', world.words)
      <4>1. SupremumExact' /\ Bounded(world)'
        BY <2>3, <2>7 DEF Inv
      <4>2. QED
        BY <4>1, <2>1, <2>7 DEF SupremumExact, IsSupremum, SomeInfinite, Values
    <3>3. out' = bnd /\ out = -1
      BY <2>3, <2>7, <3>1, <3>2, SupremumIsBound DEF Returned
    <3>4. QED
      BY <2>2, <3>3
  <2>8. QED
    BY <2>4, <2>5, <2>6, <2>7
<1>3. Init => Finder!Init
  BY <1>1 DEF Finder!Init, BoundOf, Greatest
<1>4. QED
  BY <1>2, <1>3, Invariance, PTL DEF Spec, AnswersOnce, Finder!Spec, BoundOf, Greatest
=============================================================================
