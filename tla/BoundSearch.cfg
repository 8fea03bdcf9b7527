CONSTANT Wrap = 32
SPECIFICATION Spec
INVARIANTS Bracket MiddleExact ReturnsBelowHalf ResultExact
PROPERTY Terminates
