--------------------------- MODULE FormulaRewriting ---------------------------
(***************************************************************************)
(* What the classes of formulae compute by recursion over a formula        *)
(* (src/spaction/src/UnaryOperator.cpp, BinaryOperator.cpp and             *)
(* Instantiator.cpp): its height, the fragments it belongs to, its         *)
(* negation and disjunctive normal forms, and the LTL formula it stands    *)
(* for at a given bound.                                                   *)
(***************************************************************************)
EXTENDS CltlFormula, Integers

RECURSIVE Height(_)
Height(f) ==
  CASE IsUnary(f) -> 1 + Height(Operand(f))
    [] IsBinary(f) -> LET l == Height(Left(f)) r == Height(Right(f))
                      IN 1 + IF l < r THEN r ELSE l
    [] OTHER -> 1

(* Variant with a bug: a negation does not exchange them.                  *)
RECURSIVE InFragmentSigned(_, _)
InFragmentSigned(f, excluded) ==
  CASE IsUnary(f) -> InFragmentSigned(Operand(f), excluded)
    [] IsBinary(f) -> /\ Operator(f) # excluded
                      /\ InFragmentSigned(Left(f), excluded)
                      /\ InFragmentSigned(Right(f), excluded)
    [] OTHER -> TRUE

(* CLTL[<=] and CLTL[>]: a negation exchanges the two, neither has the     *)
(* cost operator of the other.                                             *)
RECURSIVE InFragment(_, _)
InFragment(f, excluded) ==
  CASE Operator(f) = "not" ->
         InFragment(Operand(f),
                    IF excluded = "costuntil" THEN "costrelease" ELSE "costuntil")
    [] Operator(f) = "next" -> InFragment(Operand(f), excluded)
    [] IsBinary(f) -> /\ Operator(f) # excluded
                      /\ InFragment(Left(f), excluded) /\ InFragment(Right(f), excluded)
    [] OTHER -> TRUE

IsInfLtl(f) == InFragment(f, "costrelease")
IsSupLtl(f) == InFragment(f, "costuntil")
IsLtl(f) == IsInfLtl(f) /\ IsSupLtl(f)

RECURSIVE IsPropositional(_)
IsPropositional(f) ==
  CASE IsUnary(f) -> Operator(f) = "not" /\ IsPropositional(Operand(f))
    [] IsBinary(f) -> /\ Operator(f) \in {"or", "and"}
                      /\ IsPropositional(Left(f)) /\ IsPropositional(Right(f))
    [] OTHER -> TRUE

RECURSIVE IsNnf(_)
IsNnf(f) ==
  CASE Operator(f) = "not" -> Operator(Operand(f)) = "ap" \/ IsConstant(Operand(f))
    [] Operator(f) = "next" -> IsNnf(Operand(f))
    [] IsBinary(f) -> IsNnf(Left(f)) /\ IsNnf(Right(f))
    [] OTHER -> TRUE

(* Variant with a bug: the cost operators are not paired with each other.  *)
DualSlipped(op) ==
  CASE op = "or" -> "and" [] op = "and" -> "or"
    [] op = "until" -> "costrelease" [] op = "release" -> "costuntil"
    [] op = "costuntil" -> "release" [] op = "costrelease" -> "until"

Dual(op) ==
  CASE op = "or" -> "and" [] op = "and" -> "or"
    [] op = "until" -> "release" [] op = "release" -> "until"
    [] op = "costuntil" -> "costrelease" [] op = "costrelease" -> "costuntil"

(* to_nnf.  Below a negation the operator is replaced by its dual, and the *)
(* operands are those of the formula negated.                              *)
RECURSIVE ToNnf(_)
ToNnf(f) ==
  CASE Operator(f) = "next" -> Next(ToNnf(Operand(f)))
    [] IsBinary(f) -> <<Operator(f), ToNnf(Left(f)), ToNnf(Right(f))>>
    [] Operator(f) = "not" ->
         LET g == Operand(f) IN
         CASE Operator(g) = "not" -> ToNnf(Operand(g))
           [] Operator(g) = "next" -> Next(ToNnf(Not(Operand(g))))
           [] IsBinary(g) -> ToNnf(<<Dual(Operator(g)), Left(g), Right(g)>>)
           [] OTHER -> f
    [] OTHER -> f

(* Variant with a bug: the conjunct is kept on one side only.              *)
DistributedOnce(f, disjunction) ==
  Or(And(f, Left(disjunction)), Right(disjunction))

(* Distribution of a conjunct over a disjunction.                          *)
Distributed(f, disjunction) ==
  Or(And(f, Left(disjunction)), And(f, Right(disjunction)))

(* to_dnf.  The left conjunct is looked at only if the right one is not a  *)
(* binary operator, and a conjunction that does not distribute keeps the   *)
(* operands of the negation normal form, untransformed.                    *)
RECURSIVE ToDnf(_)
ToDnf(f) ==
  LET g == ToNnf(f) IN
  IF ~IsBinary(f) \/ ~IsBinary(g) THEN g
  ELSE LET l == ToDnf(Left(g)) r == ToDnf(Right(g)) IN
       CASE Operator(g) # "and" -> <<Operator(g), l, r>>
         [] Operator(g) = "and" /\ Operator(r) = "or" -> ToDnf(Distributed(l, r))
         [] Operator(g) = "and" /\ ~IsBinary(r) /\ Operator(l) = "or" ->
              ToDnf(Distributed(r, l))
         [] OTHER -> g

(* Variant with a bug: the instance at n - 1 starts one position early.    *)
LaterNow(f) == f

(* Instantiator: the instance of f at n.  An instance of a cost operator   *)
(* is one of until or release where the left operand may fail, or has to   *)
(* hold, n more times; the recursion instantiates the operands again.      *)
Later(f) == Next(f)

RECURSIVE Instantiated(_, _)
Instantiated(f, n) ==
  CASE IsUnary(f) -> <<Operator(f), Instantiated(Operand(f), n)>>
    [] IsBinary(f) /\ ~IsCost(f) ->
         <<Operator(f), Instantiated(Left(f), n), Instantiated(Right(f), n)>>
    [] Operator(f) = "costuntil" ->
         LET l == Instantiated(Left(f), n) r == Instantiated(Right(f), n)
         IN IF n = 0 THEN Until(l, r)
            ELSE Until(Or(l, Later(Instantiated(f, n-1))), r)
    [] Operator(f) = "costrelease" ->
         LET l == Instantiated(Left(f), n) r == Instantiated(Right(f), n)
         IN IF n = 0 THEN Release(l, r)
            ELSE Release(And(l, Later(Instantiated(f, n-1))), r)
    [] OTHER -> f

(* InstantiateInf and InstantiateSup check every subformula they go down   *)
(* to, below a negation too, and raise when it is outside their fragment.  *)
RECURSIVE Raises(_, _)
Raises(f, excluded) ==
  \/ ~InFragment(f, excluded)
  \/ IsUnary(f) /\ Raises(Operand(f), excluded)
  \/ IsBinary(f) /\ (Raises(Left(f), excluded) \/ Raises(Right(f), excluded))
=============================================================================
