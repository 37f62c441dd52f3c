SPECIFICATION SpecRestart
CONSTANTS
    n1 = n1
    n2 = n2
    n3 = n3
    Node <- Three
    Stake <- SecondHeavy
    Threshold = 75
    Batch = {b1, b2}
    Ring <- ThreeRing
    InitSequencer = n1
    MaxPost = 1
    MaxLen = 1
    MaxDisputes = 1
    Restarting = {n2}
    MaxRestarts = 1
SYMMETRY BatchSymmetry
INVARIANT FinalizedAgreement
CHECK_DEADLOCK FALSE
