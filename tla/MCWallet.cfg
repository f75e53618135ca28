CONSTANTS
    Home = "A"
    Chains = {"A", "B"}
    Withdrawals <- MCWithdrawals
    MaxHeight <- MCMaxHeight
    GenesisNotes <- MCGenesisNotes
    GenesisFunds <- MCGenesisFunds
    MaxFaults = 1

SPECIFICATION FairSpec
CHECK_DEADLOCK FALSE

INVARIANTS
    EscrowExact
    WalletExact

PROPERTIES
    LedgerImplemented
    TransfersEnd
