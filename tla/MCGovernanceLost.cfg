CONSTANTS
  Validators = {"v1", "v2"}
  Notes = {1, 2, 3}
  GenesisNotes <- MCGenesisNotes
  Proposals = {0}
  Payloads = {"signaling"}
  Choices = {"yes"}
  VotingBlocks = 2
  EpochDuration = 2
  MaxHeight = 4
  Quorum <- MCQuorum
  PassThreshold <- MCPassThreshold
  SlashThreshold <- MCSlashThreshold
SPECIFICATION Spec
CHECK_DEADLOCK FALSE
INVARIANT AllVotesCounted
