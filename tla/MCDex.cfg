SPECIFICATION Spec
CONSTANTS
  Ids = {1, 2, 3, 4}
  Phi <- MCPhi
  One = 4
  InitReserves <- MCInitReserves
  StakingToken = 2
  Swaps = {s1, s2}
  SwapInputs <- MCSwapInputs
  FeeInputs <- MCFeeInputs
  Rewards = {1}
  EpochDuration = 2
  Overflowing = {3}
  MaxPositionsPerPair = 1
  MaxHops = 2
  MaxReserve = 3
  FlashLoan = 30
  MaxHeight = 3
  MaxTxs = 5
INVARIANTS DexSolvent IndexesExact CrowdingBounded ClaimsCovered LpnftsMatch
PROPERTY FillsFavourPositions
SYMMETRY Symmetry
CHECK_DEADLOCK FALSE
