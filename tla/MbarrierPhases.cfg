CONSTANTS
    CountMod = 16
    TxMod = 32
    t0 = t0
    t1 = t1
    t2 = t2
    t3 = t3
    Threads <- MCThreads
    Leader = t0
    Total = 4
    MaxRounds = 4
SPECIFICATION FairSpec
INVARIANT NeverTraps
PROPERTIES
    PassesTogether
    ImplementsPhaseBarrier
    EveryRoundPasses
