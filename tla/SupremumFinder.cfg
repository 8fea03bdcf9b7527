CONSTANTS
  q0 = q0
  q1 = q1
  q2 = q2
  q3 = q3
  cnt = cnt
  a = a
  b = b
  State <- MCState
  Counter <- MCCounter
  Acceptance <- MCAcceptance
  Automata <- MCAutomata
  Bounds = {1}
  Wrap = 3
SPECIFICATION Spec
INVARIANTS SingleValue StackDiscipline DeadClosed AnswerExact
PROPERTY Terminates
