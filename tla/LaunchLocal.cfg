SPECIFICATION Spec
CONSTANTS
    Ctx = {c1}
    None = None
    NoCluster = NoCluster
    WordBits = 5
    DefaultBase = 4
    MinAlign = 2
    MaxClusterSize = 8
    WindowAlign = 4
    RankUnit = 16
    MaxThreads = 1
    GenerationMax = 2
    NonceMax = 3
    DomainMax = 7
    MaxTranslations = 1
    MaxCommits = 2
    HostSizes = {15}
    LogicalAddresses = {0, 1}
    Configs <- LocalConfigs
    Accesses <- LoadOnly
SYMMETRY Threads
CHECK_DEADLOCK FALSE
INVARIANT LocalValidates
