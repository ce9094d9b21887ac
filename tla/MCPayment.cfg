SPECIFICATION Spec
CONSTANTS
    Requests <- MCRequests
    FUnit = 10
    Quant = 2
    BeamWidth = 2
INVARIANTS Balanced  ChangePoolIsUsed AnytimeBest NoNodeTwice MaxIsFundable
CHECK_DEADLOCK FALSE
