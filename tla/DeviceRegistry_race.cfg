\* Two requests in progress, an administrator deletes beside registrations.
CONSTANTS
    None = None
    u1 = u1
    u2 = u2
    phone = phone
    tablet = tablet
    t1 = t1
    t2 = t2
    q1 = q1
    q2 = q2
    Users = {u1, u2}
    Admins = {u2}
    Infos = {phone, tablet}
    Tokens = {t1, t2}
    Requests = {q1, q2}
    MaxDevices = 3
    DeletesRace = TRUE
SPECIFICATION Spec
PROPERTIES
    MarkedInactiveOnlyWhenEmpty
SYMMETRY RegistrySymmetry
CHECK_DEADLOCK FALSE
