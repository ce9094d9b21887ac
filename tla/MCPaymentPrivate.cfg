SPECIFICATION Spec
CONSTANTS
    Requests <- MCPrivate
    FUnit = 10
    Quant = 2
    BeamWidth = 24
INVARIANT MinimizesTurnstile
CHECK_DEADLOCK FALSE
