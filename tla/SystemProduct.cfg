CONSTANTS
  CounterOffset = 1
  AcceptanceOffset = 1
  Letter <- MCLetter
  OperationList <- MCOperationList
  LeftLabel <- MCLeftLabel
  RightLabel <- MCRightLabel
  Operands <- MCOperands
  Queries <- MCQueries
  NoLabel = NoLabel
SPECIFICATION Spec
INVARIANTS EndTogether VisitsExact VisitsOnce AskedDelivered OperandsApart
