SPECIFICATION Spec
CONSTANTS
    HmxTile = 8
    Junk = 1000
    Trips = {0, 1, 2}
    Programs <- AllPrograms
    Bases <- AllBases
INVARIANTS
    HmxComputesMatmul
    KernelsReadAligned
    OperandsAreInVtcm
CHECK_DEADLOCK FALSE
