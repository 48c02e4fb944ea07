\* A run that has ended does nothing more.
SPECIFICATION Spec
CONSTANTS
  Root = "root"
  Subdirs <- MCSubdirs
  FilesIn <- MCFilesIn
  Ignored = {"a"}
  Ceilings = {0, 5}
  MaxDirectories = 4
  RiskID <- MCRiskID
  IDOrder <- MCIDOrder
  Untested = 2
  Thresholds <- MCThresholds
  Bands <- MCBands
  MinComponents = 3
  Sources = {"f1", "f2", "f3", "f4"}
  Tests = {"t3"}
  DirOf <- MCDirOf
  RawScores = {0, 1, 2}
CHECK_DEADLOCK FALSE
INVARIANTS ListingHonest LevelsAreRanked PlanHonest
PROPERTIES KeepsDag RunEnds
