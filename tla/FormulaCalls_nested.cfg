CONSTANTS
  Formulas <- Nested
  Words <- LongWords
  MaxBound = 2
SPECIFICATION Spec
INVARIANT InstanceExact
