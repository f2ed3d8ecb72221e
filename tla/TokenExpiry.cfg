SPECIFICATION Spec
CONSTANTS
    U64 = 8
    USizes = {4, 8}
    Leeway = 1
    MaxTime = 3
    MaxSkew = 2
    None = None
INVARIANTS
    TypeOK
    NeverOutlivesItsLifetime
    DiesEarlyOnlyByOverflow
    ExpiriesAgree
