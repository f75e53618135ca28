SPECIFICATION UptimeSpec
CONSTANTS
  Window = 5
  MissedMaximum = 4
  EpochDuration = 2
  Keys = {"k1", "k2"}
  GenesisKey = "k1"
  MaxHeight = 9
INVARIANTS RingIsWindow HonestChargedAtMostTwo
PROPERTIES JailedForDowntime
CHECK_DEADLOCK FALSE
