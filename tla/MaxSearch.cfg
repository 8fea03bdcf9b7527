CONSTANTS
  Wrap = 8
  Worlds <- MCWorlds
SPECIFICATION Spec
INVARIANTS SupremumExact AbortsBeyondBound
PROPERTIES Raises AnswersOnce Terminates
