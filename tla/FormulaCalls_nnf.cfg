CONSTANTS
  Formulas <- MCFormulas
  Words <- MCWords
  MaxBound = 2
SPECIFICATION Spec
INVARIANT NnfEquivalent
