\* kvWriteIntervalSec is set to a trigger period, so that every flush is due; no KV
\* operation fails; runs do not overlap.
CONSTANTS
    None = None
    i1 = i1
    i2 = i2
    r1 = r1
    r2 = r2
    a1 = a1
    a2 = a2
    ACME = ACME
    Isolates = {i1}
    Runs = {r1}
    Alerts = {a1, a2}
    Symbols <- MCSymbols
    Prices <- ThreePrices
    AlertRecords <- ActiveRows
    ChangePercent = 2
    Cooldown = 2
    CacheTTL = 2
    Intervals = {1}
    Disturbances <- EvictAbort
    Start = 2
    MaxClock = 5
SPECIFICATION Spec
INVARIANTS
    EvaluatesDurable
PROPERTIES
    KeepsPromise
SYMMETRY AlertSymmetry
CHECK_DEADLOCK FALSE
