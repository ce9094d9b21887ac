SPECIFICATION FairSpec
CONSTANTS
    Base = 3
    Radix = 4
    KTop = 1
    Pad = 4
    MinSd = 15
    MaxSplitInputs = 12
    Wallets <- MCWallets
    Deposits = {16, 23}
    StopsAtComplete = FALSE
    MaxEvents = 2
INVARIANTS
    TypeOK
    Conserved
    OnlyChangelessRefused
    DenominationsAgree
    LittleIsLeft
PROPERTIES
    EverythingMigrates
