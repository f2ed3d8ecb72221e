SPECIFICATION FairSpec
CONSTANTS
    p1 = p1
    p2 = p2
    p3 = p3
    Processes <- MCProcesses
    Options <- MCOptions
    Addr <- MCAddr
    Secrets = {s1, s2, s3}
    None = None
    Last <- MCLast
    MaxMishaps = 2
INVARIANTS
    TypeOK
    OneSigningSecret
    ServesCompleteSchema
PROPERTIES
    ImplementsDatabaseLifecycle
    ConfiguredProcessesServe
