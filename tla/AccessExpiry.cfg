SPECIFICATION Spec
CONSTANTS
    Tasks = {t1}
    UserIds = {u1}
    Jtis = {j1, j2}
    None = None
    Usernames = {ann}
    EmptyUsername = empty
    Passwords = {right}
    WeakPasswords = {}
    AccessTtl = 0
    RefreshTtl = 1
    Leeway = 1
    MaxTime = 2
    Faults = FALSE
    Removals = FALSE
PROPERTY ExpiredAccessRefused
