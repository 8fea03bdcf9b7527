------------------------------ MODULE LassoWord -------------------------------
(***************************************************************************)
(* What a formula means, as the reference the rewritings and the automata  *)
(* are checked against: the positions of an infinite word from which it    *)
(* holds at a bound n, (u,n) |= f of src/spaction/include/Instantiator.h.  *)
(* A word is a lasso [letters, loop]: after its last letter it goes on at  *)
(* loop.  A letter is the set of the propositions that hold.               *)
(***************************************************************************)
EXTENDS CltlFormula, Integers, FiniteSets

Positions(w) == 1 .. Len(w.letters)
Following(w, i) == IF i = Len(w.letters) THEN w.loop ELSE i + 1

(* The position j steps after i. *)
RECURSIVE After(_, _, _)
After(w, i, j) == IF j = 0 THEN i ELSE After(w, Following(w, i), j - 1)

(* Every position that follows i is met in as many steps as there are      *)
(* positions.                                                              *)
Steps(w) == 0 .. Len(w.letters) - 1

(* g holds at some step, and before it f fails n times at most.  The       *)
(* first time g holds is the best.                                         *)
Reaches(w, i, F, G, n) ==
  \E j \in Steps(w) :
    /\ After(w, i, j) \in G
    /\ Cardinality({k \in 0 .. j-1 : After(w, i, k) \notin F}) <= n

RECURSIVE Holding(_, _, _)
Holding(f, w, n) ==
  LET all == Positions(w)
      F == Holding(Left(f), w, n)
      G == Holding(Right(f), w, n)
  IN CASE Operator(f) = "true" -> all
       [] Operator(f) = "false" -> {}
       [] Operator(f) = "ap" -> {i \in all : Operand(f) \in w.letters[i]}
       [] Operator(f) = "not" -> all \ F
       [] Operator(f) = "next" -> {i \in all : Following(w, i) \in F}
       [] Operator(f) = "or" -> F \cup G
       [] Operator(f) = "and" -> F \cap G
       [] Operator(f) = "until" -> {i \in all : Reaches(w, i, F, G, 0)}
       [] Operator(f) = "costuntil" -> {i \in all : Reaches(w, i, F, G, n)}
       [] Operator(f) = "release" -> {i \in all : ~Reaches(w, i, all \ F, all \ G, 0)}
       [] Operator(f) = "costrelease" -> {i \in all : ~Reaches(w, i, all \ F, all \ G, n)}

Satisfies(w, f, n) == 1 \in Holding(f, w, n)
=============================================================================
