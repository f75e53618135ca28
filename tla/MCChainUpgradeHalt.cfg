SPECIFICATION Spec
CONSTANTS
  n1 = n1
  n2 = n2
  n3 = n3
  Nodes <- MCNodes
  Quorum <- MCQuorum
  EpochDuration = 3
  UpgradeHeights = {2}
  Emergencies = TRUE
  Resumers <- MCResumer
  Forced = FALSE
  FastCommit = TRUE
  KillMigrations = TRUE
  MaxHeight = 2
  MaxCrashes = 1
SYMMETRY Symmetry
INVARIANTS NoHalfUpgradedNode HaltStopsChain
PROPERTY ChainImplemented
CHECK_DEADLOCK FALSE
