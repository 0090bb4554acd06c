\* One isolate, runs one after the other, everything else may go wrong.
SPECIFICATION Spec
CONSTANTS
    None = None
    i1 = i1
    i2 = i2
    r1 = r1
    r2 = r2
    a1 = a1
    a2 = a2
    ACME = ACME
    Isolates = {i1}
    Runs = {r1}
    Alerts = {a1, a2}
    Symbols <- MCSymbols
    Prices <- ThreePrices
    AlertRecords <- PausedRows
    ChangePercent = 2
    Cooldown = 2
    CacheTTL = 2
    Intervals = {1, 2}
    Disturbances <- AllButOverlap
    Start = 2
    MaxClock = 4
INVARIANTS
    WarmInv
PROPERTIES
    NoRepeatWhileWarm
SYMMETRY AlertSymmetry
CHECK_DEADLOCK FALSE
