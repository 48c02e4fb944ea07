\* Two risks and two workers: one risk may be taken, in flight or untouched when
\* the context ends, and revised while the other is not.  Up to three
\* blocking findings let the count decrease twice, until the rounds are spent.
CONSTANTS
  s1 = s1
  s2 = s2
  Idle = Idle
  Nobody = Nobody
  RiskCount = 2
  Slugs = {s1, s2}
  SlugOf <- MCOwnSlugs
  Workers = {w1, w2}
  MaxRounds = 3
  MaxBatch = 2
  MaxNumber = 2
  Reports <- MCReports
SPECIFICATION FairSpec
INVARIANTS UniqueIds RiskAccounted OpenFindingsNoted RevisionsConverge
PROPERTIES OnlyFlaggedRewritten CycleEnds
