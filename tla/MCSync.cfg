SPECIFICATION Spec
CHECK_DEADLOCK FALSE
CONSTANTS
    Addr <- AllAddr
    ChangeLimit = 0
    NoAddr = NoAddr
    Birth = 1
    Births = {1}
    GapLimit = 1
    Width = 2
    CheckpointAge = 1
    LateForks = FALSE
    MaxHeight = 3
    Budgets <- SyncBudgets
INVARIANTS TypeOK NoPhantomNotes MarkerProvesHistory CertifiedHasNoHole SeenIsHeldOrOwed
    ReceiveMissesNothing PoolNeverPassesARow
