CONSTANTS
  Validator = {1, 2}
  ConsensusKey = {"k1", "k2", "k3"}
  GenesisKey <- MCGenesisTwo
  Stakes = {0, 1, 2}
  EpochDuration = 2
  UnbondingDelay = 3
  ActiveValidatorLimit = 1
  MinValidatorStake = 1
  UpgradeHeights = {3}
  MaxSequence = 2
  MaxHeight = 4
  NoKey = NoKey
  NoOwner = NoOwner
SPECIFICATION Spec
CHECK_DEADLOCK FALSE
INVARIANTS
  IndexHoldsConsensusSet
  UptimeContinuous
  EvidenceAttribution
  DisabledStayOut
  ActiveIffBonded
  CometMatchesActiveSet
  ActiveSetIsTop

