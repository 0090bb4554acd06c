\* Two notifications, a good and an old Expo token, one retry request; everything may go wrong.
CONSTANTS
    None = None
    n1 = n1
    n2 = n2
    t1 = t1
    x1 = x1
    admin = admin
    Cron = Cron
    Notifications = {n1, n2}
    Tokens = {t1, x1}
    ExpoTokens = {x1}
    Admins = {admin}
    MAX_RETRIES = 2
    Faults <- KnownFaults
SPECIFICATION Spec
INVARIANTS
    TypeOK
    AtMostOneUnlogged
    SuccessWasAccepted
    RepeatsExplained
    AttemptsBounded
PROPERTIES
    LoopEnds
CHECK_DEADLOCK FALSE
