SPECIFICATION Spec
CONSTANTS
    Base = 3
    Radix = 4
    KTop = 1
    Pad = 4
    MinSd = 15
    MaxSplitInputs = 12
    Wallets <- MCWallets
    Deposits = {16, 23}
    StopsAtComplete = TRUE
    MaxEvents = 0
INVARIANTS
    StoppedIsDone
CHECK_DEADLOCK FALSE
