CONSTANT MaxTurns = 2
SPECIFICATION Spec
INVARIANT AnswerFitsUtterance
