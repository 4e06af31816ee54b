SPECIFICATION Spec
CONSTANTS
    a0 = a0
    a1 = a1
    b0 = b0
    c0 = c0
    Lane <- MCLane
    WarpOf <- MCWarpOf
    CtaOf <- MCCtaOf
    SmOf <- MCSmOf
    Alloc = {1}
    Uses <- MCUses
    BarrierSets <- MCPairSets
INVARIANTS
    NoFalseAlarm
    NoMissedRace
    ShadowExact
    EpochsExact
SYMMETRY MCSymmetry
CHECK_DEADLOCK FALSE
