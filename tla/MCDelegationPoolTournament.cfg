CONSTANTS
  Scale = 8
  RewardRates = {0}
  Kept <- MCKept
  Stakes = {3}
  Deposits = {0, 2}
  MaxStaked = 3
  MinValidatorStake = 1
  EpochDuration = 2
  UnbondingDelay = 3
  MaxHeight = 6
SPECIFICATION Spec
CHECK_DEADLOCK FALSE
INVARIANT PoolNeverUnderflows
