SPECIFICATION FairSpec
CONSTANTS
    a1 = a1  i1 = i1  i2 = i2  t1 = t1  t2 = t2  c1 = c1  c2 = c2
    Account = {a1}
    Input = {i1, i2}
    Tx = {t1, t2}
    Inputs <- MCInputs
    Expiry <- MCExpiry
    Receives <- MCReceives
    Caller = {c1, c2}
    NoTx = NoTx
    PendingKeep = 1
    MaxHeight = 2
    MaxRewinds = 1
INVARIANTS NoCompetingClaims PlannerNeverOffersClaimed ClaimHeldUntilExpiry
PROPERTY ReservationsAreReleased
