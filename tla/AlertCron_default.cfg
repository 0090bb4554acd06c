\* The code's default periods in units of 5 minutes: cooldown 15 min, cache 1 h, KV writes 1 h.
CONSTANTS
    None = None
    i1 = i1
    i2 = i2
    r1 = r1
    r2 = r2
    a1 = a1
    a2 = a2
    ACME = ACME
    Isolates = {i1}
    Runs = {r1}
    Alerts = {a1}
    Symbols <- MCSymbols
    Prices <- TwoPrices
    AlertRecords <- OneRow
    ChangePercent = 2
    Cooldown = 3
    CacheTTL = 12
    Intervals = {12}
    Disturbances <- Never
    Start = 12
    MaxClock = 26
SPECIFICATION Spec
PROPERTIES
    NoRepeat
CHECK_DEADLOCK FALSE
