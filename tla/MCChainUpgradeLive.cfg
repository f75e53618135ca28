SPECIFICATION FairSpec
CONSTANTS
  n1 = n1
  n2 = n2
  n3 = n3
  Nodes <- MCNodes
  Quorum <- MCQuorum
  EpochDuration = 3
  UpgradeHeights = {2, 3}
  Emergencies = FALSE
  Resumers = {}
  Forced = FALSE
  FastCommit = FALSE
  KillMigrations = FALSE
  MaxHeight = 3
  MaxCrashes = 1
INVARIANTS UpgradeHonoured CleanBoundary
PROPERTY HaltLeadsToUpgrade
CHECK_DEADLOCK FALSE
