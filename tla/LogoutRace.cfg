SPECIFICATION HSpec
CONSTANTS
    Tasks = {t1, t2}
    UserIds = {u1}
    Jtis = {j1, j2}
    None = None
    Usernames = {ann}
    EmptyUsername = empty
    Passwords = {right}
    WeakPasswords = {}
    AccessTtl = 0
    RefreshTtl = 1
    Leeway = 0
    MaxTime = 0
    Faults = FALSE
    Removals = FALSE
INVARIANT LogoutEndsSessions
