CONSTANTS
  Inputs <- MCInputs
  Words <- MCWords
  Bounds <- MCBounds
SPECIFICATION Spec
INVARIANTS LanguageExact OneUseOfACounter Complete
PROPERTY Terminates
