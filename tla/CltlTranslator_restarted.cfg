CONSTANTS
  Inputs <- Restarted
  Words <- MCWords
  Bounds <- MCBounds
SPECIFICATION Spec
INVARIANT LanguageExact
