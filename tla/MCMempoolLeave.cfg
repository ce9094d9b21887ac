SPECIFICATION Spec
CHECK_DEADLOCK FALSE
CONSTANTS
    w1 = w1  f1 = f1  f2 = f2  h1 = h1
    Wallet = {w1}
    Flow = {f1, f2}
    WalletOf <- MCWalletOf
    Host = {h1}
    NoRun = NoRun
    MaxEvents = 2
    MaxStops = 1
INVARIANTS LeavingStopsTheRun
