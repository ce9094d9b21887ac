SPECIFICATION FairSpec
CONSTANTS
    w1 = w1  w2 = w2  f1 = f1  f2 = f2
    Wallet = {w1, w2}
    Flow = {f1, f2}
    Requests <- MCRequests
    Caller = {c1}
    NoFlow = NoFlow
    MaxHeight = 1
    MaxCancels = 1
    MaxEdits = 1
INVARIANTS MutexCoversNative StoppedIffAsked RunningIsTrue
PROPERTY EveryFlowEnds
CHECK_DEADLOCK FALSE
