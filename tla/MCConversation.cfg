\* A loop that has ended does nothing more.
SPECIFICATION ConversationSpec
CONSTANTS
  Files <- MCFiles
  MaxLines = 2
  ReadCap = 4
  SpillAt = 5
  Page = 4
  Threshold = 16
  Fanout = 2
  MaxRounds = 5
CHECK_DEADLOCK FALSE
INVARIANTS RequestsWhole ReadsComplete
