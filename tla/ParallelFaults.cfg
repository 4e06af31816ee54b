SPECIFICATION FairSpec
CONSTANTS
    NumCtas = 3
    NumSms = 2
    MaxWorkers = 3
    SectorBytes = 2
    Launches <- TrapLaunches
    NoFault = NoFault
    NoResult = NoResult
    NoValue = NoValue
    Nobody = Nobody
    ByteBase = 4
    AddrWords = 16
    GlobalBase = 4
    AtomicWidths = {1, 2}
    IncWidth = 2
INVARIANT SmallestCtaWins
