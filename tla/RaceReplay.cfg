SPECIFICATION ReplaySpec
CONSTANTS
    a0 = a0
    a1 = a1
    b0 = b0
    c0 = c0
    Lane <- MCLane
    WarpOf <- MCWarpOf
    CtaOf <- MCCtaOf
    SmOf <- MCSmOf
    Alloc = {1}
    Uses <- MCFlags
    BarrierSets <- MCPairSets
INVARIANT ReplayExact
SYMMETRY MCSymmetry
CHECK_DEADLOCK FALSE
