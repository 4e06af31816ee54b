\* One CTA of two warps; the second warp has one thread.
CONSTANTS
    NumCtas = 1
    NThreads = 3
    WarpSize = 2
    NumBarriers = 1
    Limit = 7
    Limits = {3, 7}
    Kernels <- MCDebugKernels
    Points <- MCPoints
    DecodeOnly = {7}
    Jumps <- MCJumps
    MaxCommands = 3
SPECIFICATION SSpec
INVARIANT EndIsReal
PROPERTIES
    StoppedBeforeRun
    ContinueReturns
