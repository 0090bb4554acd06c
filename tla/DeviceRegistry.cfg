\* Two requests in progress, an administrator deletes while nothing else runs.
CONSTANTS
    None = None
    u1 = u1
    u2 = u2
    phone = phone
    tablet = tablet
    t1 = t1
    t2 = t2
    q1 = q1
    q2 = q2
    Users = {u1, u2}
    Admins = {u2}
    Infos = {phone, tablet}
    Tokens = {t1, t2}
    Requests = {q1, q2}
    MaxDevices = 3
    DeletesRace = FALSE
SPECIFICATION Spec
INVARIANTS
    TypeOK
    RegistryInv
    RegisteredIsReachable
SYMMETRY RegistrySymmetry
CHECK_DEADLOCK FALSE
