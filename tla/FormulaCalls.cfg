CONSTANTS
  Formulas <- MCFormulas
  Words <- MCWords
  MaxBound = 2
SPECIFICATION Spec
INVARIANTS KeepsFragment FragmentMonotone DnfEquivalent FlatInstanceExact
