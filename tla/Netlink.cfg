CONSTANTS
  MaxOps = 5
  MaxConns = 3
  MaxKills = 3
SPECIFICATION Spec
INVARIANTS
  AnswerIsOfItsRequest
  FalseAnswersBounded
  FalseAnswersLast
PROPERTY RequestReturns
CHECK_DEADLOCK FALSE
