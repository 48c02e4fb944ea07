\* Two components whose paths end in the same two segments.
CONSTANTS
  s1 = s1
  s2 = s2
  Idle = Idle
  Nobody = Nobody
  RiskCount = 2
  Slugs = {s1, s2}
  SlugOf <- MCOneSlug
  Workers = {w1, w2}
  MaxRounds = 3
  MaxBatch = 2
  MaxNumber = 2
  Reports <- MCReports
SPECIFICATION Spec
INVARIANT EachRiskCovered
