SPECIFICATION Spec
CONSTANTS
    Loops <- MCLoops
    Bases <- MCBases
    PoolBytes = 65536
    Workgroups = 2
    Workers = {w1, w2}
INVARIANTS
    LoopKeepsItsResult
    DeclaredResourcesSuffice
PROPERTY
    DispatchEnds
