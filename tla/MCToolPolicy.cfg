\* Two callers, so that one may fail while the other probes; two attempts reach
\* the threshold within one call and pass it with two.
CONSTANTS
  Callers = {c1, c2}
  MaxAttempts = 2
  Threshold = 3
SPECIFICATION FairSpec
INVARIANTS NoBlindRetry CountsTheStreak
PROPERTIES LeftAlone CallsReturn BackInService
