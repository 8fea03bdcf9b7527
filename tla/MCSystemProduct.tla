--------------------------- MODULE MCSystemProduct ----------------------------
(* Operands with a counter each, one and two acceptance sets, and what      *)
(* leaves a state of each.                                                  *)
EXTENDS SystemProduct

A == Ap("a")
B == Ap("b")
L(letter, op, accs) == [letter |-> letter, ops |-> <<op>>, accs |-> accs]

Check == <<"increment", "check">>
Reset == <<"reset">>

MCLeftLabel ==
  {L({A}, Check, {}), L({A}, Reset, {0}), L({Not(A)}, Check, {0}), L({True}, Reset, {})}
MCStoredLabel == {L({A, B}, Reset, {0}), L({Not(A)}, Check, {0}), L({Not(A)}, Check, {1})}
(* Those of a model have no counters.                                      *)
MCModelLabel == {[l EXCEPT !.ops = <<>>] : l \in MCStoredLabel \cup {L({A}, Reset, {1})}}
MCRightLabel == MCStoredLabel \cup MCModelLabel
MCLetter == {l.letter : l \in MCLeftLabel \cup MCRightLabel}
MCOperationList == {Check, Reset}

(* Up to two transitions of any labels, or three of different ones.        *)
Sequences(S) ==
  UNION {[1 .. n -> S] : n \in 0 .. 2} \cup
  {s \in [1 .. 3 -> S] : \A k, l \in 1 .. 3 : k # l => s[k] # s[l]}

MCOperands ==
  Sequences(MCLeftLabel) \X (Sequences(MCStoredLabel) \cup Sequences(MCModelLabel))

(* The labels of the product.                                              *)
MCQueries == {Build(l, r) : l \in MCLeftLabel, r \in MCRightLabel}
=============================================================================
