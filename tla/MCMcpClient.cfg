\* A behaviour may run out of requests.
SPECIFICATION Spec
CONSTANTS
  Callers = {c1, c2}
  Paths = {p1, p2}
  NoText = NoText
  MaxLines = 3
CHECK_DEADLOCK FALSE
INVARIANTS AnswerIsOwn RefetchBounded
PROPERTIES AloneIsAnswered ClosedFreesAll
