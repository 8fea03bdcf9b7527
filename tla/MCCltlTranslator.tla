--------------------------- MODULE MCCltlTranslator ---------------------------
(* Translations of small formulae, and what their automata have to accept.  *)
EXTENDS CltlTranslator, FormulaRewriting, CounterRuns

CONSTANTS Words, Bounds

(* The orders of the subformulae that put the lower binary ones first; the *)
(* others are never compared.                                              *)
RECURSIVE Subformulae(_)
Subformulae(f) == {f} \cup UNION {Subformulae(Operands(f)[i]) : i \in DOMAIN Operands(f)}

Ranks(f) ==
  LET bs == Binaries(Subformulae(f))
      All(r) == [g \in Subformulae(f) |-> IF g \in bs THEN r[g] ELSE 0]
  IN {All(r) : r \in {r \in [bs -> 1 .. Cardinality(bs)] :
        \A g, h \in bs : /\ g # h => r[g] # r[h]
                         /\ Height(g) < Height(h) => r[g] < r[h]}}

Translations(formulae, builds) ==
  UNION {{[formula |-> f, rank |-> r, debug |-> d] : r \in Ranks(f), d \in builds} :
           f \in formulae}

(* The automaton accepts a word at a bound exactly when the formula holds  *)
(* of it there: CLTL[<=] bounds the values checked from above, CLTL[>]     *)
(* from below.  What the searches of spotcheck.cc return is the sup, or    *)
(* the inf, of the formula only if this holds.                             *)
LanguageExact ==
  pc = "done" =>
    \A w \in Words, n \in Bounds :
      Accepts({formula}, transitions, counters, acceptances, w, n, IsInfLtl(formula))
        <=> Satisfies(w, formula, n)
-----------------------------------------------------------------------------
A == Ap("a")
B == Ap("b")

InfFormulae ==
  {CostUntil(A, B), Globally(CostUntil(A, B)), CostUntil(Not(A), And(A, B)),
   Or(CostUntil(A, B), Globally(A)), Globally(Or(Not(A), Next(CostFinally(B)))),
   CostUntil(A, CostFinally(B)), And(CostUntil(A, B), CostUntil(B, A))}

(* A cost operator of CLTL[>] below nothing that starts it again while it  *)
(* is pending.                                                             *)
SupFormulae ==
  {CostRelease(A, B), CostGlobally(A), Finally(CostGlobally(A)), Or(CostRelease(A, B), Next(A)),
   Globally(CostRelease(A, B)), And(CostRelease(A, B), Finally(CostGlobally(Not(A))))}

LtlFormulae ==
  {Globally(A), Until(A, B), Globally(Finally(A)), And(Finally(A), Globally(B)), Release(A, Until(B, A))}

(* One until in two places, which is refused, and a contradiction that     *)
(* makes the removal of epsilon recurse for ever.                          *)
Untranslated == {And(Finally(A), Next(Finally(A))), Globally(And(Not(A), Until(A, A)))}

(* A contradiction that is fired before it is found out, with a cost until *)
(* that is postponed in the same node and reduced again on the same trace. *)
Contradicted == {And(CostFinally(Next(B)), And(Not(A), And(A, A)))}

MCInputs ==
  Translations(InfFormulae \cup SupFormulae \cup LtlFormulae \cup Untranslated
                 \cup Contradicted, BOOLEAN)

(* Every lasso of at most three letters.                                   *)
LassosOf(len) ==
  {[letters |-> l, loop |-> i] : l \in [1 .. len -> SUBSET {"a", "b"}], i \in 1 .. len}
MCWords == LassosOf(1) \cup LassosOf(2) \cup LassosOf(3)
MCBounds == 0 .. 2

(* A formula the disagreement shows on: a release started again.           *)
Restarted == Translations({Until(CostGlobally(A), B)}, {FALSE})
=============================================================================
