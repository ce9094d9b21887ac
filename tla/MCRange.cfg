SPECIFICATION FairSpec
CONSTANTS
    x = x
    y = y
    Account = {x, y}
    Birth <- SameBirth
    Hosts <- OneAndTwo
    CheckpointAge = 1
    Rewinds = {x}
    MaxHeight = 4
    MaxForks = 1
    MaxFails = 1
INVARIANTS SoleAccountStaysOnChain NoBlockSkipped RangeInStep
PROPERTIES EveryAccountCatchesUp
