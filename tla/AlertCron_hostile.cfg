\* Two isolates, overlapping runs, everything may go wrong.
CONSTANTS
    None = None
    i1 = i1
    i2 = i2
    r1 = r1
    r2 = r2
    a1 = a1
    a2 = a2
    ACME = ACME
    Isolates = {i1, i2}
    Runs = {r1, r2}
    Alerts = {a1}
    Symbols <- MCSymbols
    Prices <- TwoPrices
    AlertRecords <- PausedRows
    ChangePercent = 2
    Cooldown = 2
    CacheTTL = 2
    Intervals = {1, 2}
    Disturbances <- KnownDisturbances
    Start = 2
    MaxClock = 3
SPECIFICATION Spec
INVARIANTS
    TypeOK
    NoticeRecorded
PROPERTIES
    RunsEnd
CHECK_DEADLOCK FALSE
