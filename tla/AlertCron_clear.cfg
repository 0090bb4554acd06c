\* One isolate, one run at a time; a KV write may fail.
SPECIFICATION Spec
CONSTANTS
    None = None
    i1 = i1
    i2 = i2
    r1 = r1
    r2 = r2
    a1 = a1
    a2 = a2
    ACME = ACME
    Isolates = {i1}
    Runs = {r1}
    Alerts = {a1}
    Symbols <- MCSymbols
    Prices <- TwoPrices
    AlertRecords <- OneRow
    ChangePercent = 2
    Cooldown = 2
    CacheTTL = 2
    Intervals = {1, 2}
    Disturbances <- PutFails
    Start = 2
    MaxClock = 5
PROPERTIES
    ClearedWhenWritten
CHECK_DEADLOCK FALSE
