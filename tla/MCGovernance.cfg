CONSTANTS
  Validators = {"v1"}
  Notes = {1, 2}
  GenesisNotes <- MCOne
  Proposals = {0, 1}
  Payloads = {"emergency", "halt", "freeze", "unfreeze", "change", "spend", "upgrade"}
  Choices = {"yes", "no"}
  VotingBlocks = 1
  EpochDuration = 2
  MaxHeight = 3
  Quorum <- MCQuorum
  PassThreshold <- MCPassThreshold
  SlashThreshold <- MCSlashThreshold
SPECIFICATION Spec
CHECK_DEADLOCK FALSE
INVARIANTS
  StakeVotesOnce
  TallyWithinPower
  EnactedIffPassed
  ConcludedOnTime
  EffectsDelivered
