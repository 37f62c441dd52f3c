SPECIFICATION FairSpec
CONSTANTS
    n1 = n1
    n2 = n2
    n3 = n3
    Node <- Three
    Stake <- ThreeEqual
    Threshold = 60
    Batch = {b1}
    Ring <- ThreeRing
    InitSequencer = n1
    MaxPost = 1
    MaxLen = 2
    MaxDisputes = 0
PROPERTY EventuallyFinalized
CHECK_DEADLOCK FALSE
