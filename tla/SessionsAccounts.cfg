SPECIFICATION HSpec
CONSTANTS
    Tasks = {t1, t2, t3}
    UserIds = {u1, u2}
    Jtis = {j1, j2, j3}
    None = None
    Usernames = {ann}
    EmptyUsername = empty
    Passwords = {right}
    WeakPasswords = {}
    AccessTtl = 1
    RefreshTtl = 1
    Leeway = 0
    MaxTime = 0
    Faults = FALSE
    Removals = TRUE
SYMMETRY Symmetry
INVARIANTS
    OneTokenPerSession
    ServerErrorsHaveCauses
    OneSubjectPerSession
    ReferentialIntegrity
    LogoutEndsStoredSessions
