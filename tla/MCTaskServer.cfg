\* A stopped process does nothing more.
SPECIFICATION ServerSpec
CONSTANTS
  MaxTasks = 2
  MaxLines = 4
  LastPhase = 3
  MayAbort = {1}
CHECK_DEADLOCK FALSE
PROPERTIES PollsTell LinesServed TasksEnd
