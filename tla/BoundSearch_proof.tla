-------------------------- MODULE BoundSearch_proof --------------------------
(***************************************************************************)
(* What BoundSearch promises, proved for every power of two Wrap: the      *)
(* types, the bracket, and that what is returned is where the check        *)
(* changes its answer, in the lower half of the range.                     *)
(***************************************************************************)
EXTENDS BoundSearch, TLAPS

(* What each control point knows.  While it grows, max is inside and its   *)
(* double divides Wrap: this is what keeps max a power of two and makes    *)
(* the only possible wrap the one to 0.                                    *)
AtZero == pc = "zero" => max = 0

AtGrow ==
  pc = "grow" =>
    /\ max < threshold
    /\ max = 0 \/ (max > 0 /\ Wrap % (2 * max) = 0)

AtBisect ==
  pc = "bisect" => max <= Half /\ min < threshold /\ threshold <= max

(* The last bound before the check changes its answer.                     *)
LastBefore == IF threshold = 0 THEN 0 ELSE threshold - 1

AtDone == pc = "done" => result = LastBefore /\ threshold <= Half

Inv == TypeOK /\ AtZero /\ AtGrow /\ AtBisect /\ AtDone

(* A divisor of a positive number is not larger than it.                   *)
LEMMA DivisorBound ==
  ASSUME NEW a \in Nat, NEW b \in Nat, a > 0, b > 0, a % b = 0
  PROVE  b <= a
<1>1. SUFFICES ASSUME a < b PROVE FALSE
  BY <1>1
<1>2. a % b = a
  BY <1>1
<1>3. QED
  BY <1>2

(* Wrap is even, and at least twice its half.                              *)
LEMMA HalfWrap == Half \in Nat /\ Half >= 1 /\ 2 * Half = Wrap
<1>1. Wrap % 2 = 0
  BY WrapAssumption, 1 \in 1 .. Wrap-1, Wrap % 1 = 0, 2 * 1 = 2 DEF PowerOfTwo
<1>2. QED
  BY <1>1, WrapAssumption DEF Half

(* Both strategies go on exactly on the bounds below the threshold.        *)
LEMMA GoesOnBelow ==
  ASSUME TypeOK, NEW n \in Nat
  PROVE  GoesOn(n) <=> n < threshold
BY WrapAssumption DEF GoesOn, Check, TypeOK

(* The double of an inside bound whose double divides Wrap: either it      *)
(* wraps to 0, or it is exact and fits half the range.                     *)
LEMMA DoubledExact ==
  ASSUME NEW n \in UInt, n > 0, Wrap % (2 * n) = 0
  PROVE  \/ Doubled(n) = 0
         \/ /\ Doubled(n) = 2 * n
            /\ 2 * n <= Half
            /\ Wrap % (2 * (2 * n)) = 0
<1>1. 2 * n \in Nat /\ 2 * n > 0
  BY WrapAssumption DEF UInt
<1>2. 2 * n <= Wrap
  BY <1>1, DivisorBound, WrapAssumption
<1>3. CASE 2 * n = Wrap
  BY <1>3, WrapAssumption DEF Doubled, UInt
<1>4. CASE 2 * n < Wrap
  <2>1. 2 * n \in 1 .. Wrap-1
    BY <1>1, <1>4, WrapAssumption
  <2>2. Wrap % (2 * (2 * n)) = 0
    BY <2>1, WrapAssumption DEF PowerOfTwo
  <2>3. 2 * (2 * n) <= Wrap
    <3>1. 2 * (2 * n) \in Nat /\ 2 * (2 * n) > 0
      BY <1>1
    <3>2. QED
      BY <2>2, <3>1, DivisorBound, WrapAssumption
  <2>4. (2 * n) % Wrap = 2 * n
    BY <1>1, <1>4, WrapAssumption
  <2>5. QED
    BY <2>2, <2>3, <2>4, <1>1, HalfWrap DEF Doubled
<1>5. QED
  BY <1>2, <1>3, <1>4, <1>1, WrapAssumption

LEMMA InitInv == Init => Inv
BY WrapAssumption
   DEF Init, Inv, TypeOK, AtZero, AtGrow, AtBisect, AtDone, UInt

LEMMA ExitInv == Inv /\ Exit => Inv'
BY DEF Inv, TypeOK, AtZero, AtGrow, AtBisect, AtDone, Exit, frozen

LEMMA ProbeZeroInv == Inv /\ ProbeZero => Inv'
<1> SUFFICES ASSUME Inv, ProbeZero PROVE Inv'
  OBVIOUS
<1>1. max = 0 /\ max \in Nat /\ (GoesOn(max) <=> max < threshold)
  BY GoesOnBelow DEF Inv, AtZero, ProbeZero
<1>2. CASE GoesOn(max) /\ pc' = "grow" /\ UNCHANGED result
  BY <1>1, <1>2 DEF Inv, TypeOK, AtZero, AtGrow, AtBisect, AtDone, ProbeZero, frozen, UInt
<1>3. CASE ~GoesOn(max) /\ pc' = "done" /\ result' = max
  BY <1>1, <1>3, HalfWrap
     DEF Inv, TypeOK, AtZero, AtGrow, AtBisect, AtDone, ProbeZero, frozen, UInt, LastBefore
<1>4. QED
  BY <1>2, <1>3 DEF ProbeZero

LEMMA GrowInv == Inv /\ Grow => Inv'
<1> SUFFICES ASSUME Inv, Grow PROVE Inv'
  OBVIOUS
<1>1. max \in UInt /\ max < threshold /\ threshold \in 0 .. Wrap
  BY DEF Inv, TypeOK, AtGrow, Grow
<1>2. max' = Doubled(max) /\ pc = "grow"
  BY DEF Grow
<1>3. CASE max = 0
  <2>1. max' = 1 /\ 1 \in UInt
    BY <1>2, <1>3, WrapAssumption DEF Doubled, UInt
  <2>2. Wrap % (2 * 1) = 0
    BY WrapAssumption, 1 \in 1 .. Wrap-1, Wrap % 1 = 0 DEF PowerOfTwo
  <2>3. GoesOn(1) <=> 1 < threshold
    BY GoesOnBelow DEF Inv
  <2>4. CASE GoesOn(max') /\ UNCHANGED <<pc, min>>
    BY <1>1, <1>2, <2>1, <2>2, <2>3, <2>4
       DEF Inv, TypeOK, AtZero, AtGrow, AtBisect, AtDone, Grow, frozen
  <2>5. CASE ~GoesOn(max') /\ pc' = "bisect" /\ min' = max' \div 2
    <3>1. min' = 0 /\ 0 < threshold /\ threshold <= 1
      BY <1>1, <1>3, <2>1, <2>3, <2>5
    <3>2. QED
      BY <1>1, <2>1, <2>5, <3>1, HalfWrap, WrapAssumption
         DEF Inv, TypeOK, AtZero, AtGrow, AtBisect, AtDone, Grow, frozen, UInt
  <2>6. QED
    BY <2>4, <2>5 DEF Grow
<1>4. CASE max > 0 /\ Wrap % (2 * max) = 0
  <2>1. CASE max' = 0
    <3>1. 0 < threshold /\ 0 \in UInt
      BY <1>1, WrapAssumption DEF UInt
    <3>2. GoesOn(0)
      BY <3>1, GoesOnBelow DEF Inv
    <3>3. QED
      BY <1>2, <2>1, <3>1, <3>2
         DEF Inv, TypeOK, AtZero, AtGrow, AtBisect, AtDone, Grow, frozen
  <2>2. CASE max' = 2 * max /\ 2 * max <= Half /\ Wrap % (2 * (2 * max)) = 0
    <3>1. max' \in UInt /\ max' > 0 /\ max' \div 2 = max
      BY <1>1, <1>4, <2>2, HalfWrap DEF UInt
    <3>2. GoesOn(max') <=> max' < threshold
      BY <3>1, GoesOnBelow DEF Inv, UInt
    <3>3. CASE GoesOn(max') /\ UNCHANGED <<pc, min>>
      BY <1>1, <1>2, <2>2, <3>1, <3>2, <3>3
         DEF Inv, TypeOK, AtZero, AtGrow, AtBisect, AtDone, Grow, frozen
    <3>4. CASE ~GoesOn(max') /\ pc' = "bisect" /\ min' = max' \div 2
      BY <1>1, <2>2, <3>1, <3>2, <3>4, WrapAssumption
         DEF Inv, TypeOK, AtZero, AtGrow, AtBisect, AtDone, Grow, frozen, UInt
    <3>5. QED
      BY <3>3, <3>4 DEF Grow
  <2>3. QED
    BY <1>1, <1>2, <1>4, <2>1, <2>2, DoubledExact
<1>5. QED
  BY <1>2, <1>3, <1>4 DEF Inv, AtGrow

(* The middle of a bracket of width at least 2 is strictly inside it.      *)
LEMMA MiddleInside ==
  ASSUME Inv, pc = "bisect", min + 1 # max
  PROVE  min < Middle /\ Middle < max /\ Middle \in UInt
<1>1. min \in Nat /\ max \in Nat /\ min < max /\ max <= Half
  BY WrapAssumption DEF Inv, TypeOK, AtBisect, UInt
<1>2. (min + max) % Wrap = min + max
  BY <1>1, HalfWrap, WrapAssumption
<1>3. Middle = (min + max) \div 2
  BY <1>2 DEF Middle
<1>4. QED
  BY <1>1, <1>3, HalfWrap, WrapAssumption DEF UInt

LEMMA BisectInv == Inv /\ Bisect => Inv'
<1> SUFFICES ASSUME Inv, Bisect PROVE Inv'
  OBVIOUS
<1> DEFINE m == Middle
<1>1. min < m /\ m < max /\ m \in UInt
  BY MiddleInside DEF Bisect
<1>2. GoesOn(m) <=> m < threshold
  BY <1>1, GoesOnBelow, WrapAssumption DEF Inv, UInt
<1>3. CASE GoesOn(m) /\ min' = m /\ UNCHANGED max
  BY <1>1, <1>2, <1>3
     DEF Inv, TypeOK, AtZero, AtGrow, AtBisect, AtDone, Bisect, frozen, UInt
<1>4. CASE ~GoesOn(m) /\ max' = m /\ UNCHANGED min
  BY <1>1, <1>2, <1>4, HalfWrap
     DEF Inv, TypeOK, AtZero, AtGrow, AtBisect, AtDone, Bisect, frozen, UInt
<1>5. QED
  BY <1>3, <1>4 DEF Bisect

LEMMA ReturnInv == Inv /\ Return => Inv'
BY HalfWrap, WrapAssumption
   DEF Inv, TypeOK, AtZero, AtGrow, AtBisect, AtDone, Return, frozen, UInt, LastBefore

(* Every state of the search satisfies the invariant of its control point. *)
THEOREM Invariance == Spec => []Inv
<1>1. Inv /\ [Next]_vars => Inv'
  <2> SUFFICES ASSUME Inv, [Next]_vars PROVE Inv'
    OBVIOUS
  <2>1. CASE UNCHANGED vars
    BY <2>1 DEF Inv, TypeOK, AtZero, AtGrow, AtBisect, AtDone, LastBefore, vars
  <2>2. CASE Terminated
    BY <2>1, <2>2 DEF Terminated
  <2>3. QED
    BY <2>1, <2>2, ExitInv, ProbeZeroInv, GrowInv, BisectInv, ReturnInv DEF Next
<1>2. QED
  BY <1>1, InitInv, PTL DEF Spec

(* The variables of the search keep their types: no computed bound leaves  *)
(* the range of unsigned int.                                              *)
THEOREM TypeCorrect == Spec => []TypeOK
<1>1. Inv => TypeOK
  BY DEF Inv
<1>2. QED
  BY <1>1, Invariance, PTL

(* min and max bracket the threshold while the search bisects.             *)
THEOREM BracketCorrect == Spec => []Bracket
<1>1. Inv => Bracket
  BY DEF Inv, AtBisect, Bracket
<1>2. QED
  BY <1>1, Invariance, PTL

(* The search stops where the check changes its answer.                    *)
THEOREM ResultCorrect == Spec => []ResultExact
<1>1. Inv => ResultExact
  <2> SUFFICES ASSUME Inv, pc = "done" PROVE ResultExact
    BY DEF ResultExact
  <2>1. result = LastBefore /\ threshold \in Nat
    BY WrapAssumption DEF Inv, AtDone, TypeOK
  <2>2. CASE threshold = 0
    BY <2>1, <2>2, GoesOnBelow DEF ResultExact, LastBefore, Inv
  <2>3. CASE threshold # 0
    <3>1. result \in Nat /\ result < threshold /\ result + 1 = threshold
      BY <2>1, <2>3 DEF LastBefore
    <3>2. GoesOn(result) /\ ~GoesOn(result + 1)
      BY <3>1, <2>1, GoesOnBelow DEF Inv
    <3>3. QED
      BY <3>2 DEF ResultExact
  <2>4. QED
    BY <2>2, <2>3
<1>2. QED
  BY <1>1, Invariance, PTL

(* No sum wraps while the search bisects.                                  *)
THEOREM NoWrapInBisection == Spec => []MiddleExact
<1>1. Inv => MiddleExact
  BY HalfWrap, WrapAssumption DEF Inv, AtBisect, TypeOK, UInt, MiddleExact
<1>2. QED
  BY <1>1, Invariance, PTL

(* A search that returns had its threshold in the lower half of the range: *)
(* past it the search never returns.                                       *)
THEOREM LargeBoundsDiverge == Spec => []ReturnsBelowHalf
<1>1. Inv => ReturnsBelowHalf
  BY DEF Inv, AtDone, ReturnsBelowHalf
<1>2. QED
  BY <1>1, Invariance, PTL
=============================================================================
