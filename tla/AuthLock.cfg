CONSTANTS
    root = root
    guest = guest
    t1 = t1
    Users = {root, guest}
    Admin = root
    Tokens = {t1}
    MAX_FAILURES = 2
    LOCK_SECONDS = 2
    MaxNow = 5
SPECIFICATION Spec
INVARIANTS
    TypeOK
    FailuresAreSpread
    LockIsExact
