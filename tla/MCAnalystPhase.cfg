\* Three files and two workers: a worker comes back for a second job while the
\* other is still at its first, and the context can end with a job unsent, a
\* job under way and a job done.
CONSTANTS
  JobCount = 3
  Workers = {w1, w2}
  Idle = Idle
  Exited = Exited
  GoFiles <- MCGoFiles
SPECIFICATION FairSpec
INVARIANTS TakenAccounted SalvageIsHonest
PROPERTIES KeepsContract Returns
