CONSTANTS
  Auction = {"a1", "a2"}
  Asset = {"X", "Y"}
  Description <- MCTwo
  DexSettings = {TRUE, FALSE}
  WithdrawSeqs = {1, 2}
  Takers <- MCTakers
  MaxOccupied = 1
  MaxHeight = 6
  NoPosition = NoPosition
SPECIFICATION FairSpec
CHECK_DEADLOCK FALSE
INVARIANTS
  ReservePrice
  VcbExact
  TriggersExact
  PositionsTracked
PROPERTY EventuallyClosed
