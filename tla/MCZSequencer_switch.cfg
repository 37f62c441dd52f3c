SPECIFICATION Spec
CONSTANTS
    n1 = n1
    n2 = n2
    n3 = n3
    Node <- Three
    Stake <- FirstHeavy
    Threshold = 75
    Batch = {b1, b2}
    Ring <- ThreeRing
    InitSequencer = n1
    MaxPost = 1
    MaxLen = 1
    MaxDisputes = 1
SYMMETRY BatchSymmetry
INVARIANTS TypeOK FinalizedAgreement FinalizedHeldByQuorum CheckpointChain
PROPERTIES LockedPreserved FinalizedLogSpec
CHECK_DEADLOCK FALSE
