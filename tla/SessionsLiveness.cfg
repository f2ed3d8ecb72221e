SPECIFICATION PFairSpec
CONSTANTS
    MaxConnections <- MCMaxConnections
    Tasks = {t1, t2}
    UserIds = {u1}
    Jtis = {j1, j2, j3}
    None = None
    Usernames = {ann}
    EmptyUsername = empty
    Passwords = {right, wrong, weak}
    WeakPasswords = {weak}
    AccessTtl = 0
    RefreshTtl = 1
    Leeway = 0
    MaxTime = 0
    Faults = TRUE
    Removals = TRUE
INVARIANT ConnectionsComeBack
PROPERTY RequestsComplete
