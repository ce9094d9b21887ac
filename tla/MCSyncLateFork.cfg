SPECIFICATION Spec
CHECK_DEADLOCK FALSE
CONSTANTS
    Addr <- OwnOnly
    ChangeLimit = 0
    NoAddr = NoAddr
    Birth = 1
    Births = {1}
    GapLimit = 1
    Width = 2
    CheckpointAge = 1
    LateForks = TRUE
    MaxHeight = 3
    Budgets <- LateForkBudgets
INVARIANTS ReceiveMissesNothing
