----------------------------- MODULE LabelProduct ------------------------------
(***************************************************************************)
(* The product of two labels of counter automata                           *)
(* (src/spaction/include/automata/CounterAutomatonProduct.h): letters are  *)
(* joined, counters put side by side, acceptance sets of the right operand *)
(* numbered after those of the left one.  A label is a record: a letter, a *)
(* set of formulae; for each counter its list of operations; and a set of  *)
(* acceptance sets.                                                        *)
(***************************************************************************)
EXTENDS CltlFormula, Integers

CONSTANTS
  CounterOffset,     \* counters of the left automaton
  AcceptanceOffset   \* acceptance sets of the left automaton

ASSUME OffsetAssumption == CounterOffset \in Nat /\ AcceptanceOffset \in Nat

(* The letter of a product: what both letters ask for, or false if that    *)
(* has a formula and its negation.                                         *)
Joined(f, g) ==
  LET both == (f \cup g) \ {True}
  IN IF False \in both \/ \E p \in both : Not(p) \in both THEN {False} ELSE both

Shifted(S, n) == {a + n : a \in S}

(* Variant with a bug: the acceptance sets of the operands are confused.   *)
BuildUnshifted(l, r) ==
  [letter |-> Joined(l.letter, r.letter), ops |-> l.ops \o r.ops,
   accs |-> l.accs \cup r.accs]

Build(l, r) ==
  [letter |-> Joined(l.letter, r.letter), ops |-> l.ops \o r.ops,
   accs |-> l.accs \cup Shifted(r.accs, AcceptanceOffset)]

IsFalse(p) == False \in p.letter

(* The labels a label of the product is made of; their letters are taken   *)
(* to be that of the product.                                              *)
Lhs(p) ==
  [letter |-> p.letter, ops |-> SubSeq(p.ops, 1, CounterOffset),
   accs |-> {a \in p.accs : a < AcceptanceOffset}]

(* Variant with a bug: the acceptance sets are not numbered back.          *)
RhsUnshifted(p) ==
  [letter |-> p.letter, ops |-> SubSeq(p.ops, CounterOffset + 1, Len(p.ops)),
   accs |-> {a \in p.accs : a >= AcceptanceOffset}]

Rhs(p) ==
  [letter |-> p.letter, ops |-> SubSeq(p.ops, CounterOffset + 1, Len(p.ops)),
   accs |-> Shifted({a \in p.accs : a >= AcceptanceOffset}, -AcceptanceOffset)]
=============================================================================
