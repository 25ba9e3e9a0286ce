SPECIFICATION Spec
INVARIANT AnswerOnItsWay
CHECK_DEADLOCK FALSE
