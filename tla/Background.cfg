\* trades of both chambers, synchronised (r1, r2 and i1, i2 serve every part: one set of permutations)
CONSTANTS
    Runs = {r1, r2}
    TradeIds = {i1, i2}
    NoId = NoId
    PageSize = 1
    MaxPages = 2
    MaxListed = 3
    MaxChanges = 1
\* senator alerts
    Users = {"u1", "u2"}
    Tokens = {"t1", "t2"}
    OldTokens = {"t2"}
    MaxTrades = 2
    MaxEdits = 1
\* news alerts
    Readers = {i1, i2}
    Symbols = {"s1", "s2"}
    Articles = {"a1", "a2", "a3", "a4"}
    SymbolOf <- MCSymbolOf
    OldDates = {"a4"}
    BadDates = {"a2"}
    MaxFeed = 2
    MaxRuns = 2
\* the configuration
    Isolates = {i1, i2}
    Clients = {r1, r2}
    CacheTtl = 1
    None = None
    MaxTime = 2
    MaxUpdates = 2
\* datalakes
    Lakes = {"fmp", "other"}
    DefaultLake = "fmp"
    Names = {"FMP", "extra", "Extra"}
    DefaultName = "FMP"
    Lowered <- MCLowered
    Admins = {r1, r2}
\* market lists
    Askers = {"c1"}
    Ttl = 1
    MaxPuts = 2
\* quotes
    Poll = 1
    Unused = Unused
SPECIFICATION MCSpec
SYMMETRY Symmetry
INVARIANTS
    TypeOK
    CountedMeansStored
    SyncComplete
    AlertsWanted
    PushedOnce
    LossExplained
    ServedIsRecent
    SelectionKept
    ListRecent
    StaleIsNewestShown
\* a run ends, and a user may never edit again
CHECK_DEADLOCK FALSE
