\* Two calls of three attempts each, so that a second and a third pause can be
\* announced while a caller still sleeps on the first.
CONSTANTS
  Callers = {c1, c2}
  MaxAttempts = 3
  Headers = {0, 2}
  Bodies = {0, 1}
  Margin = 1
  BaseBackoff = 1
  MaxBackoff = 2
SPECIFICATION FairSpec
INVARIANT PauseHonoured
PROPERTY EveryCallReturns
