SPECIFICATION Spec
CONSTANTS
    x = x
    y = y
    Account = {x, y}
    Birth <- SameBirth
    Hosts <- Two
    CheckpointAge = 1
    Rewinds = {}
    MaxHeight = 4
    MaxForks = 1
    MaxFails = 0
INVARIANTS LinkedMeansSameChain
