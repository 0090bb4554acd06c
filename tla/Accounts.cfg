\* Two identities, two clients, two spellings of one username.
CONSTANTS
    u1 = u1
    u2 = u2
    al = al
    AL = AL
    bo = bo
    c1 = c1
    c2 = c2
    e1 = e1
    e2 = e2
    Absent = Absent
    Unset = Unset
    NoToken = NoToken
    NoOne = NoOne
    Ids = {u1, u2}
    Names = {al, AL, bo}
    Valid = {al, AL, bo}
    MaxNames = 2
    Lower <- MCLower
    Emails = {e1, e2}
    EmailOf <- MCEmailOf
    Clients = {c1, c2}
SPECIFICATION Spec
INVARIANTS
    TypeOK
    NamesUnique
    TokensAreOwn
    TokensCurrent
PROPERTIES
    TakenExplained
    AlreadySetExplained
    ImplementsRegister
SYMMETRY ClientSymmetry
CHECK_DEADLOCK FALSE
