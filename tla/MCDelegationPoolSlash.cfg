CONSTANTS
  Scale = 8
  RewardRates = {0, 3}
  Kept <- MCKept
  Stakes = {3}
  Deposits = {0}
  MaxStaked = 6
  MinValidatorStake = 1
  EpochDuration = 2
  UnbondingDelay = 3
  MaxHeight = 5
SPECIFICATION Spec
CHECK_DEADLOCK FALSE
INVARIANTS
  NoFreeStake
  SlashReachesRate
  PoolMatchesSupply
PROPERTY HeldAccountable
