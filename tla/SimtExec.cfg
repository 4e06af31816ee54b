\* One CTA of two warps of three lanes; the sixth lane has no thread.
CONSTANTS
    NumCtas = 1
    NThreads = 5
    WarpSize = 3
    NumBarriers = 2
    Limit = 26
    Kernels <- FairKernels
SPECIFICATION HSpec
INVARIANTS
    TypeOK
    SleepersAccounted
    CleanCompletion
    SyncEntriesExact
    BarrierArrivalsExact
    SteadyRoundRobin
PROPERTIES
    NoEarlyWakeup
