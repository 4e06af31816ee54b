\* Two CTAs of two warps of two lanes, three threads each; the fair run loop.
CONSTANTS
    NumCtas = 2
    NThreads = 3
    WarpSize = 2
    NumBarriers = 2
    Limit = 16
    Kernels <- MCKernels
SPECIFICATION FairSpec
PROPERTIES
    BarrierReleasesTogether
    Terminates
