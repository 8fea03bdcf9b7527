----------------------------- MODULE CltlFormula ------------------------------
(***************************************************************************)
(* The formulae of cost LTL (src/spaction/include/CltlFormula.h and its    *)
(* four classes).  A formula is the tuple of its operator and operands.    *)
(* The factory shares formulae, so that one pointer stands for one         *)
(* formula, and equality here is equality of pointers; it also shares a    *)
(* conjunction or a disjunction with its rearrangements, two of which are  *)
(* never used together here.                                               *)
(***************************************************************************)
EXTENDS Sequences

True == <<"true">>
False == <<"false">>
Ap(p) == <<"ap", p>>
Not(f) == <<"not", f>>
Next(f) == <<"next", f>>

Or(f, g) == <<"or", f, g>>
And(f, g) == <<"and", f, g>>
Until(f, g) == <<"until", f, g>>
Release(f, g) == <<"release", f, g>>
CostUntil(f, g) == <<"costuntil", f, g>>
CostRelease(f, g) == <<"costrelease", f, g>>

(* The abbreviations of the factory.                                       *)
Imply(f, g) == Or(Not(f), g)
Finally(f) == Until(True, f)
Globally(f) == Release(False, f)
CostFinally(f) == CostUntil(False, f)
CostGlobally(f) == CostRelease(True, f)

Operator(f) == f[1]
Operand(f) == f[2]
Left(f) == f[2]
Right(f) == f[3]

IsConstant(f) == Operator(f) \in {"true", "false"}
IsUnary(f) == Operator(f) \in {"not", "next"}
IsBinary(f) == Len(f) = 3
IsCost(f) == Operator(f) \in {"costuntil", "costrelease"}
=============================================================================
