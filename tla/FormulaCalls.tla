----------------------------- MODULE FormulaCalls -----------------------------
(***************************************************************************)
(* The calls a client makes on a formula, as spactiontest and the bound    *)
(* searches do: to_nnf, to_dnf, and its instance at a bound, by            *)
(* InstantiateInf or InstantiateSup, which raise outside their fragment.   *)
(***************************************************************************)
EXTENDS FormulaRewriting, LassoWord

CONSTANTS
  Formulas,  \* formulae the calls are made on
  Words,     \* lassos the results are compared over
  MaxBound   \* greatest bound instantiated at

ASSUME CallsAssumption == MaxBound \in Nat

VARIABLES
  formula,   \* the formula
  call,      \* the call made, "none" before, "raised" if it threw
  n,         \* the bound it was given
  result     \* the formula it returned

vars == <<formula, call, n, result>>

Init == formula \in Formulas /\ call = "none" /\ n = 0 /\ result = formula

CallNnf ==
  /\ call = "none" /\ call' = "nnf" /\ result' = ToNnf(formula)
  /\ UNCHANGED <<formula, n>>

CallDnf ==
  /\ call = "none" /\ call' = "dnf" /\ result' = ToDnf(formula)
  /\ UNCHANGED <<formula, n>>

(* Instantiator::operator(), of the two instantiators. *)
Instantiate(kind, excluded) ==
  /\ call = "none"
  /\ n' \in 0 .. MaxBound
  /\ \/ ~Raises(formula, excluded) /\ call' = kind /\ result' = Instantiated(formula, n')
     \/ Raises(formula, excluded) /\ call' = "raised" /\ UNCHANGED result
  /\ UNCHANGED formula

CallInf == Instantiate("inf", "costrelease")
CallSup == Instantiate("sup", "costuntil")

Returned == call # "none" /\ UNCHANGED vars

Step == CallNnf \/ CallDnf \/ CallInf \/ CallSup \/ Returned

Spec == Init /\ [][Step]_vars

-----------------------------------------------------------------------------
SameWords(f, m, g, k) == \A w \in Words : Satisfies(w, f, m) <=> Satisfies(w, g, k)

(* A cost operator is below another one.                                   *)
RECURSIVE HasCost(_)
HasCost(f) ==
  \/ IsCost(f)
  \/ IsUnary(f) /\ HasCost(Operand(f))
  \/ IsBinary(f) /\ (HasCost(Left(f)) \/ HasCost(Right(f)))

RECURSIVE NestsCost(_)
NestsCost(f) ==
  \/ IsUnary(f) /\ NestsCost(Operand(f))
  \/ IsBinary(f) /\ (NestsCost(Left(f)) \/ NestsCost(Right(f)))
  \/ IsCost(f) /\ (HasCost(Left(f)) \/ HasCost(Right(f)))

(* A negation normal form is in negation normal form, as the translator    *)
(* asserts (src/spaction/src/automata/CltlTranslator.cpp:33), and in the   *)
(* fragments of the formula, the condition under which a search may        *)
(* translate it; an instance is LTL.                                       *)
KeepsFragment ==
  /\ call = "nnf" => /\ IsNnf(result)
                     /\ IsInfLtl(formula) => IsInfLtl(result)
                     /\ IsSupLtl(formula) => IsSupLtl(result)
  /\ call \in {"inf", "sup"} => IsLtl(result)

(* Over any word a CLTL[<=] formula gets weaker as the bound grows, and a  *)
(* CLTL[>] formula stronger: what the dichotomies search over.             *)
FragmentMonotone ==
  call = "none" =>
    \A w \in Words, m \in 0 .. MaxBound :
      /\ IsInfLtl(formula) /\ Satisfies(w, formula, m) => Satisfies(w, formula, m + 1)
      /\ IsSupLtl(formula) /\ Satisfies(w, formula, m + 1) => Satisfies(w, formula, m)

(* The disjunctive normal form is equivalent, for a formula in negation    *)
(* normal form: the distribution loses nothing.                            *)
DnfEquivalent ==
  call = "dnf" /\ IsNnf(formula) =>
    \A m \in {0, MaxBound} : SameWords(result, m, formula, m)

(* The instance of a formula without nested cost operators holds of a word *)
(* iff the formula holds at the bound.                                     *)
FlatInstanceExact ==
  call \in {"inf", "sup"} /\ ~NestsCost(formula) => SameWords(result, 0, formula, n)

(* "g LTL formula s.t. for all word u, u |= g iff (u,n) |= formula"        *)
(* (src/spaction/include/Instantiator.h:33).                               *)
InstanceExact ==
  call \in {"inf", "sup"} => SameWords(result, 0, formula, n)

(* "Returns a equivalent formula in negation normal form."                 *)
(* (src/spaction/include/CltlFormula.h:56).                                *)
NnfEquivalent ==
  call = "nnf" => \A m \in 0 .. MaxBound : SameWords(result, m, formula, m)
=============================================================================
