CONSTANTS
  Wrap = 8
  Worlds <- Repeating
SPECIFICATION Spec
INVARIANT NeverThrows
