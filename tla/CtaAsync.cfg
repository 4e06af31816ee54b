SPECIFICATION Spec
CONSTANTS
    bar = bar
    far = far
    sb0 = sb0
    sb1 = sb1
    NoScoreboard = NoScoreboard
    NoEntry = NoEntry
    Addrs <- MCAddrs
    Window <- MCWindow
    Words <- MCInitWords
    Stored <- MCStored
    Operands <- MCOperands
    Bytes <- MCBytes
    Scoreboards <- MCScoreboards
    CountMod = 3
    TxMod = 2
    MaxTx = 2
    MaxGroups = 3
    MaxOpen = 2
CHECK_DEADLOCK FALSE
INVARIANTS NoMissedCompletion WordMirrorsState CountsBacked
PROPERTY PhaseStartsFresh
