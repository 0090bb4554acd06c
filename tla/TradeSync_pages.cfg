\* One run, pages of two trades, a list of up to three.
CONSTANTS
    Runs = {r1}
    TradeIds = {i1, i2}
    NoId = NoId
    PageSize = 2
    MaxPages = 2
    MaxListed = 3
    MaxChanges = 0
SPECIFICATION Spec
PROPERTIES
    EndReached
CHECK_DEADLOCK FALSE
