\* One loop, the rest of the phase writing beside it.  Agents meet only at the
\* blackboard's revision and at the context, so OthersWrite and ContextEnds are
\* all that a second loop could do to this one.  The calls of a response, the
\* iterations and the tool calls are enough for each guard to be the first to
\* stop the agent.
CONSTANTS
  read = read
  emit = emit
  other = other
  NoCall = NoCall
  Agents = {a1}
  Calls = {read, emit, other}
  Tools <- MCTools
  ToolOf <- MCToolOf
  Scope <- MCScope
  EmitTools <- MCEmitTools
  MaxIterations = 4
  MaxToolCalls = 5
  MaxTokens = 3
  TurnTokens = {0, 1, 2}
  MaxTurnCalls = 2
  MaxOtherWrites = 2
  CacheAt = 2
  AdviseAt = 3
  TerminateAt = 4
  BarrenLimit = 2
SPECIFICATION Spec
INVARIANTS WithinBudget RepeatsContained NoBarrenSpin StopIsEarned
PROPERTY SucceededCallNotRedone
