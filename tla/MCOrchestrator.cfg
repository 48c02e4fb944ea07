\* Three phases: enough for a chain, a diamond's half, cycles of one, two and
\* three, and a phase skipped because one before it was skipped.
CONSTANTS
  Names <- MCNames
  Pipelines <- MCPipelines
SPECIFICATION FairSpec
INVARIANTS OrderFixed CheckpointWhole
PROPERTIES KeepsDag Ends
