\* A call whose response the other reads and drops, or whose request is lost to
\* one written at the same time, waits for ever.  A behaviour may run out of requests.
SPECIFICATION Spec
CONSTANTS
  Callers = {c1, c2}
  Paths = {p1, p2}
  NoText = NoText
  MaxLines = 3
CHECK_DEADLOCK FALSE

PROPERTY EveryCallAnswered
