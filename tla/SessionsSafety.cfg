SPECIFICATION Spec
CONSTANTS
    Tasks = {t1, t2}
    UserIds = {u1}
    Jtis = {j1, j2, j3}
    None = None
    Usernames = {ann}
    EmptyUsername = empty
    Passwords = {right}
    WeakPasswords = {}
    AccessTtl = 0
    RefreshTtl = 1
    Leeway = 1
    MaxTime = 2
    Faults = TRUE
    Removals = TRUE
SYMMETRY Symmetry
INVARIANTS
    TypeInv
    RotationInv
    RefusedOnlyIfSpentOrExpired
PROPERTIES
    ImplementsLifecycle
    ExpiredNeverConsumed
    RequestsAdvance
