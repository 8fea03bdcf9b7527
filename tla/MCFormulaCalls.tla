---------------------------- MODULE MCFormulaCalls ----------------------------
(* Every formula of a small height, over two propositions, and short words. *)
EXTENDS FormulaCalls

A == Ap("a")
B == Ap("b")
Literals == {A, B, Not(A)}
BinaryOperators == {"or", "and", "until", "release", "costuntil", "costrelease"}

Binaries(F, G) == {<<op, f, g>> : op \in BinaryOperators, f \in F, g \in G}
Unaries(F) == {Not(f) : f \in F} \cup {Next(f) : f \in F}

Low == Literals \cup Unaries(Literals) \cup Binaries(Literals, Literals)
MCFormulas ==
  Low \cup Unaries(Low) \cup Binaries(Low, {A, Not(B)}) \cup Binaries({B, Not(A)}, Low)

(* Every lasso of at most three letters.                                   *)
Letters == SUBSET {"a", "b"}
LassosOf(len) ==
  {[letters |-> l, loop |-> i] : l \in [1 .. len -> Letters], i \in 1 .. len}
MCWords == LassosOf(1) \cup LassosOf(2) \cup
  {w \in LassosOf(3) : w.letters[1] # w.letters[2] /\ w.loop # 1 /\ w.letters[3] # {}}

(* A formula the disagreement on instances shows on, and the words for it. *)
Nested == {CostUntil(A, CostUntil(B, And(A, B)))}
LongWords == LassosOf(3)
=============================================================================
