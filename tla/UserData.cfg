\* Two users, two usernames, two clients, each of the five tables.
CONSTANTS
    u1 = u1
    u2 = u2
    al = al
    bo = bo
    k1 = k1
    k2 = k2
    c1 = c1
    c2 = c2
    Absent = Absent
    Unset = Unset
    NoOne = NoOne
    k3 = k3
    one = one
    Default = Default
    Ids = {u1, u2}
    Names = {al, bo}
    Lower <- MCLower
    Clients = {c1, c2}
    Keys = {k1, k2, k3, one}
    KeysOf <- MCKeysOf
    Null = Null
    Values = {Default, Other, Null}
    Sent = {Other}
    Other = Other
    MaxNames = 2
SPECIFICATION Spec
INVARIANTS
    TypeOK
    RowsOwned
    ListingsAgree
PROPERTIES
    ConfirmedListStored
    SavedMeansSaved
    ConflictIsTransient
    OwnRowsOnly
SYMMETRY Symmetry
CHECK_DEADLOCK FALSE
